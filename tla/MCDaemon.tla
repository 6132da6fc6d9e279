------------------------------ MODULE MCDaemon ------------------------------
(***************************************************************************)
(* What a daemon does for its clients: an instance of Uploads, three       *)
(* uploads of names that run into each other's numbers, and one of         *)
(* Transfers, two fetches of one code and a share with a TTL.  They share  *)
(* no state, so part, chosen once, says which of them moves: the uploads,  *)
(* the share and a command that follows it, the share beside one fetch, or *)
(* the fetch and its repetition.  The run is the four state spaces side by *)
(* side.                                                                   *)
(***************************************************************************)
EXTENDS Uploads, Transfers, TLC

CONSTANTS fetch, again, share

AllNames == {"a", "a-2", "a-2-2"}
Some == {"a", "a-2"}
Numbered == [n \in Some |-> IF n = "a" THEN 2 :> "a-2" ELSE 2 :> "a-2-2"]

OneCodeAndAnother == [t \in {fetch, again, share} |-> IF t = share THEN "own" ELSE "code"]

VARIABLE part  \* the component, and the transfers, that move

all == <<part, uploadsVars, vars>>

DaemonInit ==
  /\ part \in {"uploads", "followed", "beside", "repeated"}
  /\ UploadsInit /\ (part # "uploads" => \A r \in Requests : name[r] = "a")
  /\ Init /\ \A k \in Clients : client[k].of = "own"

\* Only the transfers of ts are ever started.
Only(ts) == \A t \in Transfers \ ts : session'[t] = "none"

\* Neither progress, nor a command that follows, nor a timer that fires; and of two
\* transfers that are alike the second is the one that starts second.
Two(t, u) ==
  /\ Only({t, u}) /\ (session[t] = "none" => session'[u] = "none")
  /\ UNCHANGED <<reports, client>> /\ \A s \in Transfers : cancel'[s]["timer"] = "idle"

OnlyTransfers == part # "uploads" /\ UNCHANGED <<part, uploadsVars>>

DaemonNext ==
  \/ part = "uploads" /\ UploadsNext /\ UNCHANGED <<part, vars>>
  \/ part = "followed" /\ OnlyTransfers /\ Next /\ Only({share})
  \/ part = "beside" /\ OnlyTransfers /\ Next /\ Two(fetch, share)
  \/ part = "repeated" /\ OnlyTransfers /\ Next /\ Two(fetch, again)

\* The fairness of Transfers, which starts nothing.
DaemonFairness ==
  /\ \A t \in Transfers : WF_all(OnlyTransfers /\ Works(t))
  /\ \A k \in Clients : WF_all(OnlyTransfers /\ Client(k))

DaemonSpec == DaemonInit /\ [][DaemonNext]_all /\ DaemonFairness

ASSUME DaemonConstants == UploadsConstants /\ TransfersConstants

=============================================================================
