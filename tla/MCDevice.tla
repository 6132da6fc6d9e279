------------------------------ MODULE MCDevice ------------------------------
(***************************************************************************)
(* What a device lets others do to its disk: Trust, Access and Archive.    *)
(* Trust says who may write where, Access has such a decision in every     *)
(* operation and carries it out, and Archive is the content of a push that *)
(* is a directory.  They share no state, so part, chosen once, says which  *)
(* of them moves, and the run is the three state spaces side by side.      *)
(***************************************************************************)
EXTENDS Trust, Access, Archive, TLC

CONSTANTS p1, p2, inbox, archive  \* of Trust

-----------------------------------------------------------------------------
(* Trust: two ways to start the daemon, each with a bound that a pairing    *)
(* can exceed and that a restart can take away from it.                    *)

TwoStarts == {[writes |-> TRUE, roots |-> {inbox}], [writes |-> TRUE, roots |-> {archive}]}
SomePatches ==
  UNION {{[tier |-> "", roots |-> {r}], [tier |-> "read-write", roots |-> {r}]} : r \in Roots}
  \cup {[tier |-> "read-write", roots |-> None], [tier |-> "none", roots |-> {}]}
DeviceSymmetry == Permutations(Peers) \cup Permutations(Roots)

-----------------------------------------------------------------------------
(* Access: /pub is shared, by its name or through the link /in, /sec is    *)
(* not, and links lead inside, outside and nowhere.                        *)

Named(kind, to, mode) == [kind |-> kind, to |-> to, mode |-> mode, by |-> "owner"]
D(mode) == Named("dir", Slash, mode)
F == Named("file", Slash, "open")
L(to) == Named("link", to, "open")

pub == <<"pub">>  sub == <<"pub", "d">>  sec == <<"sec">>

Tree(mode) == pub :> D(mode) @@ sub :> D(mode) @@ <<"pub", "d", "f">> :> F
              @@ sec :> D("open") @@ <<"sec", "f">> :> F @@ <<"in">> :> L(pub)
WithLink(to) == <<"pub", "l">> :> L(to) @@ Tree("private")

AllTrees == {Tree("private"), Tree("sealed"), WithLink(sec), WithLink(sub), WithLink(<<"pub", "l">>),
             WithLink(<<"nowhere">>), WithLink(<<"sec", "f">>)}

A(parts) == [abs |-> TRUE, parts |-> parts]
R(parts) == [abs |-> FALSE, parts |-> parts]

Shares(roots) == [trust |-> TRUE, mode |-> "ok", reads |-> roots,
                  write |-> [mode |-> "shared-roots", roots |-> roots]]
Straight == Shares(<<pub>>)
Through == Shares(<< <<"gone">>, <<"in">> >>)

Ask(kind, path, policy) ==
  [kind |-> kind, path |-> path, policy |-> policy, overwrite |-> TRUE, digest |-> TRUE]

WritePaths == {A(<<"pub", "d", "f">>), A(<<"pub", "d", "n", "g">>), A(<<"in", "d", "n", "g">>),
               A(<<"pub", "l", "g">>), A(<<"pub", "l">>), A(<<"sec", "g">>),
               R(<<"d", "g">>), R(<<"..", "sec", "g">>)}
ReadPaths == {A(<<"in", "d">>), A(<<"pub", "l", "f">>), A(<<"pub", "d", "f">>), A(<<"sec", "f">>),
              R(<<"pub", "l">>), R(<<>>)}

AllAsks ==
  {Ask("write", p, pol) : p \in WritePaths, pol \in {Straight, Through}}
  \cup {Ask(k, p, pol) : k \in {"stat", "list", "read", "share"}, p \in ReadPaths, pol \in {Straight, Through}}
  \cup {[Ask("write", A(<<"pub", "d", "f">>), Straight) EXCEPT !.overwrite = FALSE],
        [Ask("write", A(<<"pub", "n", "f">>), Straight) EXCEPT !.digest = FALSE],
        Ask("write", A(<<"pub", "d", "f", "g">>), Straight),
        Ask("write", A(<<"pub", "a", "b", "c", "g">>), Straight),
        Ask("write", A(<<>>), Straight),
        Ask("write", R(<<"g">>), [Straight EXCEPT !.write.mode = "denied"]),
        Ask("write", R(<<"g">>), [Straight EXCEPT !.write.roots = <<>>]),
        Ask("write", R(<<"g">>), [Straight EXCEPT !.mode = "error"]),
        Ask("write", R(<<"g">>), [Straight EXCEPT !.trust = FALSE]),
        Ask("read", A(<<"pub", "d", "f">>), [Straight EXCEPT !.reads = <<>>])}

CanMove == {sub, <<"pub", "d", "n">>, <<"pub", "d", "f">>}
CanBe == {<<"sec", "d">>}
CanLink == {sec, <<"sec", "f">>}
CanMake == {sub, <<"pub", "d", "n">>, <<"sec", "n">>}

-----------------------------------------------------------------------------
(* Archive: trees with every kind of entry in one directory, and every     *)
(* archive of at most three entries over a few names.                      *)

N(kind, size, exec, body) == [kind |-> kind, size |-> size, exec |-> exec, body |-> body]
E(name, kind, size) == [abs |-> FALSE, name |-> name, kind |-> kind, size |-> size, exec |-> FALSE, body |-> "x"]

SmallTrees ==
  { <<"d">> :> N("dir", 0, FALSE, "") @@ <<"d", "f">> :> N("file", 1, TRUE, "f")
      @@ <<"l">> :> N("link", 1, FALSE, "outside") @@ <<"e">> :> N("dir", 0, FALSE, ""),
    <<"d">> :> N("dir", 0, FALSE, "") @@ <<"d", "p">> :> N("other", 0, FALSE, "")
      @@ <<"d", "l">> :> N("link", 1, FALSE, "outside") @@ <<"g">> :> N("file", 2, FALSE, "g"),
    <<"back">> :> N("file", 1, FALSE, "f"),
    <<"vol">> :> N("file", 1, FALSE, "f"),
    <<"d">> :> N("dir", 0, FALSE, "") @@ <<"d", "vol">> :> N("file", 1, FALSE, "f"),
    <<"g">> :> N("file", 3, FALSE, "g") @@ <<"h">> :> N("file", 1, FALSE, "h") }

ForeignEntries ==
  {E(<<"g">>, "file", 1), [E(<<"g">>, "file", 1) EXCEPT !.exec = TRUE, !.body = "y"],
   E(<<".", "g">>, "file", 3), E(<<"g", "h">>, "file", 2), E(<<"g">>, "dir", 0),
   E(<<".">>, "file", 0), E(<<"..", "g">>, "file", 1), E(<<>>, "file", 0),
   E(<<"l">>, "link", 1), [E(<<"k">>, "file", 1) EXCEPT !.abs = TRUE]}
AllArchives == UNION {[1..n -> ForeignEntries] : n \in 0..3}

Changes == <<"d", "f">> :> N("link", 1, FALSE, "outside") @@ <<"g">> :> N("link", 1, FALSE, "outside")
           @@ <<"d">> :> N("link", 1, FALSE, "outside") @@ <<"n">> :> N("file", 1, FALSE, "n")

-----------------------------------------------------------------------------
VARIABLE part  \* the component that moves

all == <<part, vars, accessVars, archiveVars>>

\* A part that does not move is in one of its initial states.
DeviceInit ==
  /\ part \in {"trust", "access", "archive"}
  /\ Init /\ (part # "trust" => DOMAIN mem = {})
  /\ IF part = "access" THEN AccessInit
     ELSE AccessInit /\ tree = Tree("private") /\ op = CHOOSE a \in AllAsks : TRUE
  /\ IF part = "archive" THEN ArchiveInit
     ELSE ArchiveInit /\ DOMAIN src = {} /\ arch = <<>>

OnlyTrust == part = "trust" /\ UNCHANGED <<part, accessVars, archiveVars>>
OnlyAccess == part = "access" /\ UNCHANGED <<part, vars, archiveVars>>
OnlyArchive == part = "archive" /\ UNCHANGED <<part, vars, accessVars>>

DeviceNext ==
  \/ OnlyTrust /\ Next
  \/ OnlyAccess /\ AccessNext
  \/ OnlyArchive /\ ArchiveNext

DeviceSpec == DeviceInit /\ [][DeviceNext]_all

=============================================================================
