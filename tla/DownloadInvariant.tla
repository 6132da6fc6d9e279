------------------------- MODULE DownloadInvariant -------------------------
(***************************************************************************)
(* What Download may not do, and the inductive invariant behind it.        *)
(* Neither Intact nor CheckpointBacked is inductive as it stands: that a   *)
(* published file is what was verified depends on no other goroutine       *)
(* writing to the inode, which depends on the claims, which depend on each *)
(* code being fetched by one route.                                        *)
(***************************************************************************)
EXTENDS Download

\* Whatever sits under a final name is, byte for byte, content that a sender's
\* digest for that name or the user vouches for: nothing is placed before the
\* digest of what arrived is verified, and nothing writes to it afterwards
\* (Verify, publishIfAbsent, and the claims that keep two writers apart).
Intact ==
  \A n \in Names :
     dest[n] # None => <<n, Digest(data[dest[n]])>> \in vouched

\* A download never replaces a file: once a name is taken, only the user frees
\* it, whatever the interleaving of the check, the link and other downloads.
NeverReplaces ==
  [][\A n \in Names : dest[n] # None /\ dest'[n] # dest[n] => UserRemoves(n)]_vars

\* A checkpoint never counts bytes its partial does not hold: a resume after a
\* crash at any point starts from bytes that were really received.
CheckpointBacked ==
  \A c \in Codes :
     ckpt[c] # None /\ partial[<<c, ckpt[c].name>>] # None =>
        Len(data[partial[<<c, ckpt[c].name>>]]) >= ckpt[c].off

\* With hard links, the directory behaves as Placement says: downloads land
\* whole, verified and once (link(2) in publishIfAbsent is the landing step).
files == [n \in Names |-> IF dest[n] = None THEN None ELSE data[dest[n]]]
Promise == INSTANCE Placement WITH file <- files
LandsWhole == Promise!PSpec

-----------------------------------------------------------------------------
(* The inductive invariant *)

\* The claim keys of the two routes never meet: a code is fetched over the
\* read path or over the share-code transfer, not over both.
OneRoute == \A c \in Codes : ~ ({"share", "read"} \subseteq RoutesOf[c])

Active(w) == dl[w].pc \notin {"idle", "resolved"}

\* The partial's path is known and the destination was found free; whatever
\* the partial names is not published yet.
Staging == {"checked", "ready", "opened", "body", "complete", "verified",
            "free", "discard", "discarded"}
FileOpen == {"opened", "body", "complete"}

\* What a worker's step says of its fields.
Shape(d) ==
  /\ d.pc = "idle" <=> d.code = None
  /\ d.pc = "idle" => d = Idle
  /\ d.pc # "idle" => d.route \in RoutesOf[d.code]
  /\ d.pc \in {"resolved", "admitted", "checked"} => d.route = "read"
  /\ d.pc \in {"claimed", "loaded", "offered"} => d.route = "share"
  /\ d.info = None <=> d.pc \in {"idle", "claimed", "loaded"}
  /\ d.fd # None <=> d.pc \in FileOpen
Shapes == \A w \in Workers : Shape(dl[w])

\* Every running download holds its claim, and no two hold the same one.
Claimed ==
  /\ \A w \in Workers : Active(w) => KeyOf(dl[w]) \in claims
  /\ \A v, w \in Workers :
        Active(v) /\ Active(w) /\ KeyOf(dl[v]) = KeyOf(dl[w]) => v = w

\* A digest that is offered, or that a worker compares against, was vouched
\* for under that name.
Stands(info) ==
  info # None /\ info.digest # NoDigest => <<info.name, info.digest>> \in vouched
Promised ==
  /\ \A c \in Codes : Stands(offer[c])
  /\ \A w \in Workers : Stands(dl[w].info)

\* Two partials never share an inode; a final name shares one with a partial
\* only between the link and the removal of the staged name.
Separate ==
  /\ \A p, q \in Codes \X Names :
        partial[p] # None /\ partial[p] = partial[q] => p = q
  /\ \A n \in Names, p \in Codes \X Names :
        dest[n] # None /\ dest[n] = partial[p] =>
           /\ n = p[2]
           /\ \A w \in Workers : dl[w].pc \in Staging => Path(dl[w]) # p

\* While the body arrives, the hash covers the partial and nothing else; once
\* it is verified, the partial is the promised content.
Hashed ==
  \A w \in Workers :
     LET d == dl[w] IN
     /\ d.pc \in FileOpen => /\ partial[Path(d)] = d.fd
                             /\ data[d.fd] = d.hash
     /\ d.pc \in {"verified", "free"} =>
          /\ partial[Path(d)] # None
          /\ Digest(data[partial[Path(d)]]) = d.info.digest

\* What LoadResume accepted stays true until the partial is opened, and the
\* checkpoint on disk is the one that was loaded.
Loaded ==
  \A w \in Workers :
     LET d == dl[w] IN
     d.pc \in {"loaded", "offered", "ready"} =>
       /\ ckpt[d.code] # None
             /\ (d.route = "share" \/ ckpt[d.code].name = d.info.name)
          => d.res = ckpt[d.code]
       /\ d.res # None /\ (d.route = "share" \/ d.res.name = d.info.name)
          => /\ partial[<<d.code, d.res.name>>] # None
             /\ Len(data[partial[<<d.code, d.res.name>>]]) >= d.res.off

\* The inductive invariant.
IInv ==
  /\ TypeOK /\ Shapes /\ Claimed /\ Promised /\ Separate /\ Hashed /\ Loaded
  /\ Intact /\ CheckpointBacked

=============================================================================
