----------------------------- MODULE CommitLog -----------------------------
(***************************************************************************)
(* What the write-ahead log and its worker pool promise the write path: an *)
(* acknowledged entry is settled exactly once and in order.  It is either  *)
(* recorded in its project's git history or kept aside for an operator     *)
(* (lost+found, wal-corrupted), and a project's history never contains an  *)
(* entry acknowledged before one it already contains.                      *)
(*                                                                         *)
(* Projects are independent: nothing relates the order of two entries of   *)
(* different projects.                                                     *)
(***************************************************************************)
EXTENDS Naturals, Sequences

CONSTANTS Project, Request

VARIABLES
  log,      \* the acknowledged entries, in order
  history,  \* project -> indices of its recorded entries, oldest first
  kept      \* indices of entries kept aside

clVars == <<log, history, kept>>

\* The entries of a history.
Recorded(h) == {h[n] : n \in DOMAIN h}

\* An entry that nobody has settled yet.
Queued(i) == i \notin kept /\ i \notin Recorded(history[log[i].proj])

\* Every entry of i's project that was acknowledged before i is settled.
Next_(i) == \A j \in DOMAIN log : log[j].proj = log[i].proj /\ Queued(j) => i <= j

CLInit == log = <<>> /\ history = [p \in Project |-> <<>>] /\ kept = {}

Acknowledge(e) == log' = Append(log, e) /\ UNCHANGED <<history, kept>>

Record(i) ==
  /\ Next_(i)
  /\ \A j \in Recorded(history[log[i].proj]) : j < i
  /\ history' = [history EXCEPT ![log[i].proj] = Append(@, i)]
  /\ UNCHANGED <<log, kept>>

\* A set of entries, because a restart may find several unreadable files.
KeepAside(S) ==
  /\ kept' = kept \cup S
  /\ UNCHANGED <<log, history>>

CLNext ==
  \/ \E e \in Request : Acknowledge(e)
  \/ \E i \in DOMAIN log : Record(i)
  \/ \E S \in SUBSET DOMAIN log : KeepAside(S)

CLSpec == CLInit /\ [][CLNext]_clVars
=============================================================================
