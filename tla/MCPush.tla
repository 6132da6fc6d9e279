------------------------------- MODULE MCPush -------------------------------
(***************************************************************************)
(* Small instances of Push.  One destination is enough for the races, as   *)
(* pushes to different names of a directory share nothing but the          *)
(* directory.  A cfg chooses the streams, the requests and the bounds.     *)
(***************************************************************************)
EXTENDS Push, TLC

CONSTANTS n1, old, new, newer, bad

File(b) == [kind |-> "file", body |-> b]
TreeOf(b) == [kind |-> "tree", body |-> b]

\* What may be there before a push, or be put there by the user.
AnyShape == {None, File(old), TreeOf(old)}

Push1(unpack, overwrite, digest, body) ==
  [name |-> n1, unpack |-> unpack, overwrite |-> overwrite, allowed |-> TRUE,
   digest |-> digest, body |-> body]

\* Good pushes of either shape, with and without an overwrite request.
GoodPushes ==
  {Push1(u, TRUE, new, new) : u \in BOOLEAN} \cup {Push1(u, FALSE, newer, newer) : u \in BOOLEAN}

\* A digest that does not match, none at all, a push the policy forbids, and an
\* archive that does not expand.
BadPushes == {Push1(FALSE, TRUE, new, bad), Push1(TRUE, TRUE, new, bad),
              Push1(TRUE, TRUE, bad, bad), Push1(FALSE, TRUE, None, new),
              [Push1(TRUE, TRUE, new, new) EXCEPT !.allowed = FALSE]}

AllPushes == GoodPushes \cup BadPushes

\* Nobody asks to overwrite.
PolitePushes == {Push1(u, FALSE, b, b) : u \in BOOLEAN, b \in {new, newer}}

StreamSymmetry == Permutations(Streams)

=============================================================================
