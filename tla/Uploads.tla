------------------------------ MODULE Uploads ------------------------------
(***************************************************************************)
(* Files the browser hands to the daemon: postUploads of                   *)
(* internal/daemon/upload.go.  Requests run concurrently, each looks for a *)
(* free name by creating files exclusively, and the process may die with   *)
(* uploads half stored.                                                    *)
(***************************************************************************)
EXTENDS Integers

CONSTANTS
  Requests,  \* the uploads, each answered at most once
  Names,     \* file names
  Offered,   \* the names uploads come with
  Last,      \* the last number tried, 101 in the code
  Suffixed,  \* Suffixed[n][i]: n with the number i appended
  None

\* What a run of this module presupposes.
UploadsConstants ==
  /\ Offered \subseteq Names /\ Last \in Nat /\ Last >= 1
  /\ Suffixed \in [Offered -> [2..Last -> Names]]
  /\ None \notin Requests /\ None \notin Names

VARIABLES
  owner,  \* owner[n]: the upload that created the file n, or None
  whole,  \* whole[n]: whether all of its content was written
  step,   \* step[r]: how far the handler of r is
  name,   \* name[r]: the name it came with
  try,    \* try[r]: the number it tries next, 1 for the plain name
  path    \* path[r]: the file it created, or None

uploadsVars == <<owner, whole, step, name, try, path>>

Active == {"naming", "copying"}
Steps == Active \cup {"new", "stored", "failed", "dead"}

UploadsTypeOK ==
  /\ owner \in [Names -> Requests \cup {None}]
  /\ whole \in [Names -> BOOLEAN]
  /\ step \in [Requests -> Steps]
  /\ name \in [Requests -> Offered]
  /\ try \in [Requests -> 1..Last]
  /\ path \in [Requests -> Names \cup {None}]

UploadsInit ==
  /\ owner = [n \in Names |-> None] /\ whole = [n \in Names |-> FALSE]
  /\ step = [r \in Requests |-> "new"]
  /\ name \in [Requests -> Offered]
  /\ try = [r \in Requests |-> 1]
  /\ path = [r \in Requests |-> None]

\* The form is parsed and the name is checked, or the request is refused.
Begin(r) ==
  /\ step[r] = "new"
  /\ \E s \in {"naming", "failed"} : step' = [step EXCEPT ![r] = s]
  /\ UNCHANGED <<owner, whole, name, try, path>>

Candidate(r) == IF try[r] = 1 THEN name[r] ELSE Suffixed[name[r]][try[r]]

\* O_CREATE|O_EXCL: the name was free and is this upload's now.
Create(r) ==
  /\ step[r] = "naming" /\ owner[Candidate(r)] = None
  /\ owner' = [owner EXCEPT ![Candidate(r)] = r]
  /\ whole' = [whole EXCEPT ![Candidate(r)] = FALSE]
  /\ path' = [path EXCEPT ![r] = Candidate(r)]
  /\ step' = [step EXCEPT ![r] = "copying"]
  /\ UNCHANGED <<name, try>>

\* Mutant: the last number is used whether or not its file exists.
NextNameOrTake(r) ==
  /\ step[r] = "naming" /\ owner[Candidate(r)] # None
  /\ IF try[r] < Last
     THEN try' = [try EXCEPT ![r] = @ + 1] /\ UNCHANGED <<step, owner, whole, path>>
     ELSE /\ owner' = [owner EXCEPT ![Candidate(r)] = r]
          /\ whole' = [whole EXCEPT ![Candidate(r)] = FALSE]
          /\ path' = [path EXCEPT ![r] = Candidate(r)]
          /\ step' = [step EXCEPT ![r] = "copying"] /\ UNCHANGED try
  /\ UNCHANGED name

NextName(r) ==
  /\ step[r] = "naming" /\ owner[Candidate(r)] # None
  /\ IF try[r] < Last
     THEN try' = [try EXCEPT ![r] = @ + 1] /\ UNCHANGED step
     ELSE step' = [step EXCEPT ![r] = "failed"] /\ UNCHANGED try
  /\ UNCHANGED <<owner, whole, name, path>>

\* The file could not be created for some other reason.
CannotCreate(r) ==
  /\ step[r] = "naming"
  /\ step' = [step EXCEPT ![r] = "failed"]
  /\ UNCHANGED <<owner, whole, name, try, path>>

Store(r) ==
  /\ step[r] = "copying"
  /\ whole' = [whole EXCEPT ![path[r]] = TRUE]
  /\ step' = [step EXCEPT ![r] = "stored"]
  /\ UNCHANGED <<owner, name, try, path>>

\* The content breaks off or the file cannot be closed: it is removed by name.
Discard(r) ==
  /\ step[r] = "copying"
  /\ owner' = [owner EXCEPT ![path[r]] = None]
  /\ step' = [step EXCEPT ![r] = "failed"]
  /\ UNCHANGED <<whole, name, try, path>>

Crash ==
  /\ \E r \in Requests : step[r] \in Active
  /\ step' = [r \in Requests |-> IF step[r] \in Active THEN "dead" ELSE step[r]]
  /\ UNCHANGED <<owner, whole, name, try, path>>

Handle(r) == Begin(r) \/ Create(r) \/ NextName(r) \/ CannotCreate(r) \/ Store(r) \/ Discard(r)
UploadsNext == Crash \/ \E r \in Requests : Handle(r)
UploadsSpec == UploadsInit /\ [][UploadsNext]_uploadsVars

---------------------------------------------------------------------------

\* Every upload that was answered has a file of its own, whole, for good; and
\* only a handler at work or one that died leaves a file that is not.
UploadsKept ==
  /\ \A r \in Requests : step[r] = "stored" => owner[path[r]] = r /\ whole[path[r]]
  /\ \A n \in Names : owner[n] # None /\ ~whole[n] => step[owner[n]] \in {"copying", "dead"}

\* The inductive invariant: a handler that created a file owns it, and every
\* file is the one its owner created.
IInv ==
  /\ UploadsTypeOK
  /\ \A r \in Requests : step[r] \in {"copying", "stored"} =>
       path[r] # None /\ owner[path[r]] = r /\ (step[r] = "stored" => whole[path[r]])
  /\ \A n \in Names : owner[n] # None =>
       path[owner[n]] = n /\ step[owner[n]] \in {"copying", "stored", "dead"}
  /\ \A n \in Names : owner[n] # None /\ whole[n] => step[owner[n]] = "stored"

=============================================================================
