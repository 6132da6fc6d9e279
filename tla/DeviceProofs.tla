---------------------------- MODULE DeviceProofs ----------------------------
(***************************************************************************)
(* What TLC checks of two devices, of a tree of a few names and of a       *)
(* dozen requests, for any number of devices, roots, trees, links,         *)
(* requests and steps of the owner: first the pairing store (Trust), then  *)
(* what a request reaches on the file system (Access).                     *)
(*                                                                         *)
(* AcksAreDurable is not inductive: a save writes every entry, so it also  *)
(* has to hold of the entries in memory, and those must have a tier or a   *)
(* reload would change what was acknowledged.                              *)
(*                                                                         *)
(* The roots of a pairing are compared with the device's when they are set *)
(* and not afterwards, so where a device may write depends on the options  *)
(* of earlier starts: the inductive invariant Granted remembers them, and  *)
(* WithinBound holds only if they stay the same.                           *)
(*                                                                         *)
(* What is said of Access rests on what the resolvers compute, for every   *)
(* tree with links: where a walk ends (EvalIs), that creating something    *)
(* changes no path that resolved before (EvalKept), that a resolved path   *)
(* resolves to itself (StandsEval) and all below it does what its names    *)
(* say (EvalBelow), where a push goes (DestinationSite) and what           *)
(* os.MkdirAll leaves behind (MadeBelow, ParentsMade).  The inductive      *)
(* invariant is Undisturbed: AccessTyped, Resolved while the owner did     *)
(* nothing since a path was resolved, Alone while it did nothing at all.   *)
(***************************************************************************)
EXTENDS Trust, Access, ArchiveProofs

-----------------------------------------------------------------------------
(* The pairing store. *)

\* An entry in memory: three fields, and the default tier already put in.
Whole(e) == e = [tier |-> e.tier, roots |-> e.roots, addrs |-> e.addrs] /\ e.tier \in Tiers

MemKnown == \A p \in Peers : Policy(mem, p) \in since[p]

\* A PATCH under way is about a device and a tier.
PatchTyped ==
  /\ patch \in [Admins -> [step : {"idle", "tier", "roots"}, peer : Peers \cup {None},
                           tier : Tiers \cup {""}, roots : (SUBSET Roots) \cup {None}]]
  /\ \A a \in Admins : patch[a].step # "idle" => patch[a].peer \in Peers

Durable ==
  /\ DOMAIN mem \subseteq Peers /\ DOMAIN disk \subseteq Peers
  /\ mem = [p \in DOMAIN mem |-> mem[p]] /\ disk = [p \in DOMAIN disk |-> disk[p]]
  /\ \A p \in DOMAIN mem : Whole(mem[p])
  /\ \A p \in DOMAIN disk : Whole(Loaded(disk)[p])
  /\ since = [p \in Peers |-> since[p]]
  /\ MemKnown
  /\ AcksAreDurable
  /\ RevocationsStick

\* Saving whole entries: what is loaded back is what was saved.
LEMMA ReloadSame ==
  ASSUME NEW m, m = [p \in DOMAIN m |-> m[p]], \A p \in DOMAIN m : Whole(m[p])
  PROVE  Loaded(m) = m
  BY DEF Loaded, Whole, Tiers

\* A change of p's entry, saved or not, keeps the invariant.
LEMMA ChangeKeeps ==
  ASSUME Durable, NEW p \in Peers, NEW e, Whole(e), Change(p, e),
         unpaired' \subseteq unpaired, p \notin unpaired'
  PROVE  Durable'
<1> DEFINE n == With(mem, p, e)
<1>0. DOMAIN mem \subseteq Peers /\ \A q \in DOMAIN mem : Whole(mem[q])
  BY DEF Durable
<1>1. /\ n = [q \in DOMAIN n |-> n[q]]
      /\ DOMAIN n = DOMAIN mem \cup {p}
      /\ \A q \in DOMAIN n : Whole(n[q])
      /\ \A q \in Peers \ {p} : Policy(n, q) = Policy(mem, q)
      /\ n[p] = e
  BY <1>0, Whole(e) DEF With, Policy
<1>2. mem' = n
  BY DEF Change
<1>3. Loaded(n) = n
  BY <1>1, ReloadSame
<1> HIDE DEF n
<1>4. /\ (since = [q \in Peers |-> since[q]])'
      /\ MemKnown'
      /\ \A q \in Peers : q # p => since'[q] = since[q]
      /\ \A q \in Peers : since[q] \subseteq since'[q] \/ disk' = n
  BY <1>1, <1>2 DEF Change, Durable, MemKnown
<1>5. CASE disk' = n
  BY <1>1, <1>2, <1>3, <1>4, <1>5 DEF Durable, AcksAreDurable, MemKnown, RevocationsStick
<1>6. CASE disk' = disk /\ \A q \in Peers : since[q] \subseteq since'[q]
  BY <1>1, <1>2, <1>4, <1>6 DEF Durable, AcksAreDurable, RevocationsStick
<1>7. QED
  BY <1>5, <1>6, <1>2, <1>4 DEF Change, n

-----------------------------------------------------------------------------
\* The addresses of an entry may change without an acknowledgement.
LEMMA AddressesKeep ==
  ASSUME Durable, NEW p \in Peers, NEW addrs, UpdateAddrs(p, addrs)
  PROVE  Durable'
<1> DEFINE e == [mem[p] EXCEPT !.addrs = Merge(@, addrs)]
           n == With(mem, p, e)
<1>1. p \in DOMAIN mem /\ Whole(mem[p])
  BY DEF UpdateAddrs, Paired, Durable
<1>2. Whole(e) /\ e.tier = mem[p].tier /\ e.roots = mem[p].roots
  BY <1>1 DEF Whole
<1>3. mem' = n
  BY DEF UpdateAddrs
<1>0. DOMAIN mem \subseteq Peers /\ \A q \in DOMAIN mem : Whole(mem[q])
  BY DEF Durable
<1> HIDE DEF e
<1>4. /\ n = [q \in DOMAIN n |-> n[q]]
      /\ DOMAIN n = DOMAIN mem \cup {p}
      /\ \A q \in DOMAIN n : Whole(n[q])
      /\ \A q \in Peers \ {p} : Policy(n, q) = Policy(mem, q)
      /\ n[p] = e
  BY <1>0, <1>2 DEF With, Policy
<1>5. Loaded(n) = n
  BY <1>4, ReloadSame
<1> HIDE DEF n
<1>6. \A q \in Peers : Policy(n, q) = Policy(mem, q)
  BY <1>1, <1>2, <1>4 DEF Policy
<1>7. since' = since /\ unpaired' = unpaired /\ (disk' = n \/ disk' = disk)
  BY <1>3 DEF UpdateAddrs
<1>8. DOMAIN n = DOMAIN mem
  BY <1>1, <1>4
<1>9. QED
  BY <1>3, <1>4, <1>5, <1>6, <1>7, <1>8 DEF Durable, AcksAreDurable, MemKnown, RevocationsStick

\* A removal is either on disk when it is acknowledged or undone.
LEMMA RemoveKeeps ==
  ASSUME Durable, NEW p \in Peers, DeleteTrust(p)
  PROVE  Durable'
<1> DEFINE n == Without(mem, p)
<1>1. CASE UNCHANGED store
  BY <1>1 DEF store, Durable, AcksAreDurable, MemKnown, RevocationsStick
<1>2. CASE /\ mem' = n /\ disk' = mem' /\ unpaired' = unpaired \cup {p}
           /\ since' = [since EXCEPT ![p] = {None}]
  <2>1. /\ n = [q \in DOMAIN n |-> n[q]]
        /\ DOMAIN n = DOMAIN mem \ {p}
        /\ \A q \in DOMAIN n : Whole(n[q])
        /\ \A q \in Peers \ {p} : Policy(n, q) = Policy(mem, q)
        /\ Policy(n, p) = None
    BY DEF Durable, Without, Policy
  <2>2. Loaded(n) = n
    BY <2>1, ReloadSame
  <2> HIDE DEF n
  <2>3. QED
    BY ZenonT(40), <1>2, <2>1, <2>2 DEF Durable, AcksAreDurable, MemKnown, RevocationsStick
<1>3. QED
  BY <1>1, <1>2 DEF DeleteTrust

\* A restart has what was saved, and nothing else.
LEMMA RestartKeeps ==
  ASSUME Durable, NEW d \in Devices, Restart(d)
  PROVE  Durable'
<1>1. /\ mem' = Loaded(disk) /\ disk' = disk /\ since' = since /\ unpaired' = unpaired
  BY DEF Restart
<1>2. /\ DOMAIN Loaded(disk) = DOMAIN disk
      /\ Loaded(disk) = [p \in DOMAIN disk |-> Loaded(disk)[p]]
  BY DEF Loaded
<1>3. QED
  BY <1>1, <1>2 DEF Durable, AcksAreDurable, MemKnown, RevocationsStick

\* A store read from a file agrees with the file.
LEMMA DurableInit == ASSUME Init PROVE Durable
<1>1. PICK Q \in SUBSET Peers : disk = [p \in Q |-> Legacy]
  BY DEF Init
<1>2. /\ DOMAIN Loaded(disk) = Q
      /\ Loaded(disk) = [p \in Q |-> Loaded(disk)[p]]
      /\ \A p \in Q : Whole(Loaded(disk)[p])
  BY <1>1 DEF Loaded, Legacy, Whole, Tiers, DefaultTier
<1>3. QED
  BY <1>1, <1>2 DEF Init, Durable, AcksAreDurable, MemKnown, RevocationsStick

\* No request is under way at first.
LEMMA PatchTypedInit == ASSUME Init PROVE PatchTyped
  BY DEF Init, PatchTyped, Quiet

\* A request under way carries a tier the store knows.
LEMMA PatchTypedStep == ASSUME PatchTyped, [Next]_vars PROVE PatchTyped'
<1>1. CASE UNCHANGED patch
  BY <1>1 DEF PatchTyped
<1>2. ASSUME NEW a \in Admins, patch' = [patch EXCEPT ![a] = Quiet]
      PROVE  PatchTyped'
  BY <1>2 DEF PatchTyped, Quiet
<1>3. ASSUME NEW a \in Admins, patch[a].step # "idle", patch' = [patch EXCEPT ![a].step = "roots"]
      PROVE  PatchTyped'
  BY <1>3 DEF PatchTyped
<1>4. ASSUME NEW a \in Admins, NEW p \in Peers, NEW r \in Patches, StartPatch(a, p, r.tier, r.roots)
      PROVE  PatchTyped'
  <2>1. r.tier \in Tiers \cup {""} /\ r.roots \in (SUBSET Roots) \cup {None}
    BY TrustConstants
  <2> QED BY <1>4, <2>1 DEF StartPatch, PatchTyped
<1>5. ASSUME NEW a \in Admins, Patch(a)
      PROVE  PatchTyped'
  <2>1. CASE SetTier(a)
    <3>1. \/ patch' = [patch EXCEPT ![a] = [@ EXCEPT !.step = "roots"]]
          \/ patch' = [patch EXCEPT ![a] = Quiet]
      BY <2>1 DEF SetTier
    <3>2. patch[a].step # "idle"
      BY <2>1 DEF SetTier
    <3>3. QED
      BY <3>1, <3>2, <1>2, <1>3
  <2>2. CASE KeepTier(a)
    BY <2>2, <1>3 DEF KeepTier
  <2>3. CASE SetWritableRoots(a) \/ EndPatch(a)
    BY <2>3, <1>2 DEF SetWritableRoots, EndPatch
  <2>4. QED
    BY <1>4, <1>5, <2>1, <2>2, <2>3 DEF Patch
<1>6. ASSUME NEW d \in Devices, Restart(d)
      PROVE  PatchTyped'
  BY <1>6 DEF Restart, PatchTyped, Quiet
<1>7. ASSUME NEW p \in Peers,
             \/ \E tier \in Tiers, roots \in SUBSET Roots : Add(p, tier, roots)
             \/ DeleteTrust(p)
             \/ \E addrs \in Sightings : UpdateAddrs(p, addrs)
      PROVE  PatchTyped'
  BY <1>1, <1>7 DEF Add, DeleteTrust, UpdateAddrs
<1>8. QED
  BY <1>1, <1>5, <1>6, <1>7 DEF Next, vars

\* No step loses an acknowledged change.
LEMMA DurableStep == ASSUME Durable, PatchTyped, [Next]_vars PROVE Durable'
<1>1. CASE UNCHANGED <<mem, disk, since, unpaired>>
  BY <1>1 DEF Durable, AcksAreDurable, MemKnown, RevocationsStick
<1>2. ASSUME NEW p \in Peers, NEW tier \in Tiers, NEW roots \in SUBSET Roots, Add(p, tier, roots)
      PROVE  Durable'
  <2> DEFINE e == [tier |-> tier, roots |-> roots,
                   addrs |-> IF Paired(p) THEN mem[p].addrs ELSE <<>>]
  <2>1. Whole(e)
    BY DEF Whole
  <2>2. Change(p, e) /\ unpaired' = unpaired \ {p}
    BY <1>2 DEF Add
  <2> HIDE DEF e
  <2>3. QED
    BY <2>1, <2>2, ChangeKeeps
<1>3. ASSUME NEW a \in Admins, SetTier(a)
      PROVE  Durable'
  <2> DEFINE p == patch[a].peer
             e == [mem[p] EXCEPT !.tier = patch[a].tier]
  <2>1. p \in DOMAIN mem /\ Whole(mem[p]) /\ patch[a].tier \in Tiers
    BY <1>3 DEF SetTier, Paired, Durable, PatchTyped
  <2>2. Whole(e)
    BY <2>1 DEF Whole
  <2>3. Change(p, e) /\ unpaired' = unpaired /\ p \notin unpaired
    BY <1>3, <2>1 DEF SetTier, Durable, RevocationsStick
  <2> HIDE DEF e
  <2>4. QED
    BY <2>1, <2>2, <2>3, ChangeKeeps DEF Durable
<1>4. ASSUME NEW a \in Admins, SetWritableRoots(a)
      PROVE  Durable'
  <2> DEFINE p == patch[a].peer
             e == [mem[p] EXCEPT !.roots = patch[a].roots]
  <2>1. p \in DOMAIN mem /\ Whole(mem[p])
    BY <1>4 DEF SetWritableRoots, Paired, Durable
  <2>2. Whole(e)
    BY <2>1 DEF Whole
  <2>3. Change(p, e) /\ unpaired' = unpaired /\ p \notin unpaired
    BY <1>4, <2>1 DEF SetWritableRoots, Durable, RevocationsStick
  <2> HIDE DEF e
  <2>4. QED
    BY <2>1, <2>2, <2>3, ChangeKeeps DEF Durable
<1>5. ASSUME NEW a \in Admins, Patch(a)
      PROVE  Durable'
  <2>1. CASE \E p \in Peers, r \in Patches : StartPatch(a, p, r.tier, r.roots)
    BY <1>1, <2>1 DEF StartPatch, store
  <2>2. CASE KeepTier(a) \/ EndPatch(a)
    BY <1>1, <2>2 DEF KeepTier, EndPatch, store
  <2>3. QED
    BY <1>3, <1>4, <1>5, <2>1, <2>2 DEF Patch
<1>6. CASE UNCHANGED vars
  BY <1>1, <1>6 DEF vars, store
<1>7. QED
  BY <1>2, <1>5, <1>6, AddressesKeep, RemoveKeeps, RestartKeeps DEF Next

\* The invariant the two theorems rest on.
LEMMA AlwaysDurable == Spec => [](Durable /\ PatchTyped)
<1>1. Init => Durable /\ PatchTyped
  BY DurableInit, PatchTypedInit
<1>2. Durable /\ PatchTyped /\ [Next]_vars => (Durable /\ PatchTyped)'
  BY DurableStep, PatchTypedStep
<1>3. QED
  BY <1>1, <1>2, PTL DEF Spec

\* A change of a pairing that was acknowledged survives every later save,
\* failed save and restart, until another change of it is asked for
\* (TrustStore.saveLocked, Remove, NewTrustStore).
THEOREM AcknowledgedChangesLast == Spec => []AcksAreDurable
<1>1. Durable => AcksAreDurable
  BY DEF Durable
<1>2. QED
  BY <1>1, AlwaysDurable, PTL

\* An unpaired device is not brought back by a PATCH that looked it up
\* before, nor by a restart (TrustStore.SetTier and SetWritableRoots look it
\* up again under the lock).
THEOREM RevokedStaysRevoked == Spec => []RevocationsStick
<1>1. Durable => RevocationsStick
  BY DEF Durable
<1>2. QED
  BY <1>1, AlwaysDurable, PTL

-----------------------------------------------------------------------------
(* Writable roots *)

\* Every pairing's roots, in memory and as a restart would load them, lie in R.
ScopedIn(R) ==
  /\ device \in Devices
  /\ \A p \in DOMAIN mem : mem[p].roots \subseteq R
  /\ \A p \in DOMAIN disk : Loaded(disk)[p].roots \subseteq R

\* A file from before tiers names no root.
LEMMA ScopedInit ==
  ASSUME NEW R, Init
  PROVE  ScopedIn(R)
<1>1. PICK Q \in SUBSET Peers : disk = [p \in Q |-> Legacy]
  BY DEF Init
<1>2. DOMAIN Loaded(disk) = DOMAIN disk /\ \A p \in DOMAIN disk : Loaded(disk)[p].roots = {}
  BY <1>1 DEF Loaded, Legacy, DefaultTier
<1> QED BY <1>2 DEF Init, ScopedIn

\* A map whose entries lie in R is saved or not.
LEMMA ScopedSave ==
  ASSUME NEW R, ScopedIn(R), Durable', device' \in Devices, disk' = mem' \/ disk' = disk,
         \A p \in DOMAIN mem' : mem'[p].roots \subseteq R
  PROVE  ScopedIn(R)'
<1>1. Loaded(mem') = mem'
  BY ReloadSame DEF Durable
<1> QED BY <1>1 DEF ScopedIn

\* A pairing is made or changed with roots of R.
LEMMA ScopedChange ==
  ASSUME NEW R, Durable, ScopedIn(R), Durable', NEW p \in Peers, NEW e, e.roots \subseteq R, Change(p, e),
         device' = device
  PROVE  ScopedIn(R)'
<1>1. mem' = With(mem, p, e) /\ (disk' = mem' \/ disk' = disk)
  BY DEF Change
<1>2. \A q \in DOMAIN mem' : mem'[q] = e \/ (q \in DOMAIN mem /\ mem'[q] = mem[q])
  BY <1>1 DEF With
<1> QED BY <1>1, <1>2, ScopedSave DEF ScopedIn

\* Every step keeps the roots in R: a request is confined to the device's, and a
\* restart loads what was saved.
LEMMA ScopedStep ==
  ASSUME NEW R, \A d \in Devices : d.roots \subseteq R,
         Durable, PatchTyped, ScopedIn(R), [Next]_vars
  PROVE  ScopedIn(R)'
<1>0. Durable' /\ device \in Devices /\ device.roots \subseteq R
  BY DurableStep DEF ScopedIn
<1>1. CASE UNCHANGED <<mem, disk, device>>
  BY <1>1 DEF ScopedIn
<1>2. ASSUME NEW p \in Peers, NEW tier \in Tiers, NEW roots \in SUBSET Roots, Add(p, tier, roots)
      PROVE  ScopedIn(R)'
  <2> DEFINE e == [tier |-> tier, roots |-> roots,
                   addrs |-> IF Paired(p) THEN mem[p].addrs ELSE <<>>]
  <2>1. e.roots \subseteq R
    BY <1>0, <1>2 DEF Add, Confined
  <2>2. Change(p, e) /\ device' = device
    BY <1>2 DEF Add
  <2> HIDE DEF e
  <2> QED BY <1>0, <2>1, <2>2, ScopedChange
<1>3. ASSUME NEW p \in Peers, DeleteTrust(p) PROVE ScopedIn(R)'
  <2>1. CASE UNCHANGED store
    BY <1>1, <1>3, <2>1 DEF DeleteTrust, store
  <2>2. CASE mem' = Without(mem, p) /\ disk' = mem'
    <3>1. \A q \in DOMAIN mem' : q \in DOMAIN mem /\ mem'[q] = mem[q]
      BY <2>2 DEF Without
    <3>2. device' = device
      BY <1>3 DEF DeleteTrust
    <3> QED BY <1>0, <2>2, <3>1, <3>2, ScopedSave DEF ScopedIn
  <2> QED BY <1>3, <2>1, <2>2 DEF DeleteTrust
<1>4. ASSUME NEW p \in Peers, NEW addrs, UpdateAddrs(p, addrs) PROVE ScopedIn(R)'
  <2> DEFINE e == [mem[p] EXCEPT !.addrs = Merge(@, addrs)]
  <2>1. p \in DOMAIN mem /\ Whole(mem[p])
    BY <1>4 DEF UpdateAddrs, Paired, Durable
  <2>2. e.roots = mem[p].roots
    BY <2>1 DEF Whole
  <2>3. mem' = With(mem, p, e) /\ (disk' = mem' \/ disk' = disk) /\ device' = device
    BY <1>4 DEF UpdateAddrs
  <2> HIDE DEF e
  <2>4. \A q \in DOMAIN mem' : mem'[q] = e \/ (q \in DOMAIN mem /\ mem'[q] = mem[q])
    BY <2>3 DEF With
  <2> QED BY <1>0, <2>1, <2>2, <2>3, <2>4, ScopedSave DEF ScopedIn
<1>5. ASSUME NEW a \in Admins, SetTier(a) PROVE ScopedIn(R)'
  <2> DEFINE p == patch[a].peer
             e == [mem[p] EXCEPT !.tier = patch[a].tier]
  <2>1. p \in DOMAIN mem /\ Whole(mem[p]) /\ p \in Peers
    BY <1>5 DEF SetTier, Paired, Durable
  <2>2. e.roots = mem[p].roots
    BY <2>1 DEF Whole
  <2>3. Change(p, e) /\ device' = device
    BY <1>5 DEF SetTier
  <2>4. e.roots \subseteq R
    BY <2>1, <2>2 DEF ScopedIn
  <2> HIDE DEF e, p
  <2> QED BY <1>0, <2>1, <2>3, <2>4, ScopedChange
<1>6. ASSUME NEW a \in Admins, SetWritableRoots(a) PROVE ScopedIn(R)'
  <2> DEFINE p == patch[a].peer
             e == [mem[p] EXCEPT !.roots = patch[a].roots]
  <2>1. p \in DOMAIN mem /\ Whole(mem[p]) /\ p \in Peers
    BY <1>6 DEF SetWritableRoots, Paired, Durable
  <2>2. e.roots = patch[a].roots
    BY <2>1 DEF Whole
  <2>3. Change(p, e) /\ device' = device /\ patch[a].roots \subseteq device.roots
    BY <1>6 DEF SetWritableRoots, SetsRoots, Confined
  <2>4. e.roots \subseteq R
    BY <1>0, <2>2, <2>3
  <2> HIDE DEF e, p
  <2> QED BY <1>0, <2>1, <2>3, <2>4, ScopedChange
<1>7. ASSUME NEW a \in Admins, Patch(a) PROVE ScopedIn(R)'
  <2>1. CASE \E p \in Peers, r \in Patches : StartPatch(a, p, r.tier, r.roots)
    BY <1>1, <2>1 DEF StartPatch, store
  <2>2. CASE KeepTier(a) \/ EndPatch(a)
    BY <1>1, <2>2 DEF KeepTier, EndPatch, store
  <2> QED BY <1>5, <1>6, <1>7, <2>1, <2>2 DEF Patch
<1>8. ASSUME NEW d \in Devices, Restart(d) PROVE ScopedIn(R)'
  <2>1. mem' = Loaded(disk) /\ disk' = disk /\ device' = d /\ DOMAIN Loaded(disk) = DOMAIN disk
    BY <1>8 DEF Restart, Loaded
  <2> QED BY <2>1 DEF ScopedIn
<1>9. CASE UNCHANGED vars
  BY <1>1, <1>9 DEF vars, store
<1> QED BY <1>2, <1>3, <1>4, <1>7, <1>8, <1>9 DEF Next

\* The roots are none, or lie in those the device had when p was given roots.
Fits(p, roots) == roots = {} \/ \E R \in under[p] : roots \subseteq R

\* The roots of every pairing do, in memory and as a restart would load them: the
\* invariant behind ScopeWasGranted.
Granted ==
  /\ under = [p \in Peers |-> under[p]]
  /\ \A p \in DOMAIN mem : Fits(p, mem[p].roots)
  /\ \A p \in DOMAIN disk : Fits(p, Loaded(disk)[p].roots)

\* A file from before tiers names no root.
LEMMA GrantedInit == ASSUME Init PROVE Granted
<1>1. PICK Q \in SUBSET Peers : disk = [p \in Q |-> Legacy]
  BY DEF Init
<1>2. DOMAIN Loaded(disk) = DOMAIN disk /\ \A p \in DOMAIN disk : Loaded(disk)[p].roots = {}
  BY <1>1 DEF Loaded, Legacy, DefaultTier
<1>3. QED
  BY <1>2 DEF Init, Granted, Fits

\* A map whose entries fit is saved, or what was granted before still counts.
LEMMA GrantedSave ==
  ASSUME Granted, Durable', under' = [p \in Peers |-> under'[p]], DOMAIN disk \subseteq Peers,
         \A p \in DOMAIN mem' : Fits(p, mem[p].roots)',
         disk' = mem' \/ (disk' = disk /\ \A p \in Peers : under[p] \subseteq under'[p])
  PROVE  Granted'
<1>1. Loaded(mem') = mem'
  BY ReloadSame DEF Durable
<1>2. CASE disk' = mem'
  BY <1>1, <1>2 DEF Granted
<1>3. CASE disk' = disk /\ \A p \in Peers : under[p] \subseteq under'[p]
  <2>1. \A p \in DOMAIN disk : Fits(p, Loaded(disk)[p].roots)'
    BY <1>3 DEF Granted, Fits
  <2> QED BY <1>3, <2>1 DEF Granted
<1>4. QED
  BY <1>2, <1>3

\* Nothing is granted, and the entry keeps its roots.
LEMMA GrantedKept ==
  ASSUME Granted, Durable, Durable', NEW p \in Peers, NEW e, p \in DOMAIN mem, e.roots = mem[p].roots,
         mem' = With(mem, p, e), disk' = mem' \/ disk' = disk, under' = under
  PROVE  Granted'
<1>1. \A q \in DOMAIN mem' : q \in DOMAIN mem /\ mem'[q].roots = mem[q].roots
  BY DEF With
<1>2. \A q \in DOMAIN mem' : Fits(q, mem[q].roots)'
  BY <1>1 DEF Granted, Fits
<1>3. QED
  BY <1>2, GrantedSave DEF Granted, Durable

\* A pairing is given roots that were compared with the device's.
LEMMA GrantedChange ==
  ASSUME Granted, Durable, Durable', NEW p \in Peers, NEW e, Confined(e.roots), Change(p, e), Grant(p)
  PROVE  Granted'
<1>1. mem' = With(mem, p, e) /\ (disk' = mem' \/ disk' = disk)
  BY DEF Change
<1>2. /\ under' = [q \in Peers |-> under'[q]] /\ device.roots \in under'[p]
      /\ \A q \in Peers : q # p => under'[q] = under[q]
      /\ disk' = mem' \/ under[p] \subseteq under'[p]
  BY DEF Granted, Grant
<1>3. ASSUME NEW q \in DOMAIN mem' PROVE Fits(q, mem[q].roots)'
  <2>1. CASE q = p
    BY <1>1, <1>2, <2>1 DEF With, Fits, Confined
  <2>2. CASE q # p
    <3>1. q \in DOMAIN mem /\ mem'[q] = mem[q] /\ q \in Peers
      BY <1>1, <2>2 DEF With, Durable
    <3> QED BY <1>2, <2>2, <3>1 DEF Granted, Fits
  <2> QED BY <2>1, <2>2
<1>4. QED
  BY <1>1, <1>2, <1>3, GrantedSave DEF Durable

\* Every step keeps it so.
LEMMA GrantedStep ==
  ASSUME Durable, PatchTyped, Granted, [Next]_vars PROVE Granted'
<1>0. Durable'
  BY DurableStep
<1>1. CASE UNCHANGED store
  BY <1>1 DEF store, Granted, Fits
<1>2. ASSUME NEW p \in Peers, NEW tier \in Tiers, NEW roots \in SUBSET Roots, Add(p, tier, roots)
      PROVE  Granted'
  <2> DEFINE e == [tier |-> tier, roots |-> roots,
                   addrs |-> IF Paired(p) THEN mem[p].addrs ELSE <<>>]
  <2>1. Confined(e.roots) /\ Change(p, e) /\ Grant(p)
    BY <1>2 DEF Add
  <2> HIDE DEF e
  <2> QED BY <1>0, <2>1, GrantedChange
<1>3. ASSUME NEW p \in Peers, DeleteTrust(p) PROVE Granted'
  <2>1. CASE mem' = Without(mem, p) /\ disk' = mem' /\ under' = [under EXCEPT ![p] = {}]
    <3>1. \A q \in DOMAIN mem' : q \in DOMAIN mem /\ mem'[q] = mem[q] /\ q # p /\ q \in Peers
      BY <2>1 DEF Without, Durable
    <3>2. under' = [q \in Peers |-> under'[q]] /\ \A q \in Peers : q # p => under'[q] = under[q]
      BY <2>1 DEF Granted
    <3>3. \A q \in DOMAIN mem' : Fits(q, mem[q].roots)'
      BY <3>1, <3>2 DEF Granted, Fits
    <3> QED BY <1>0, <2>1, <3>2, <3>3, GrantedSave DEF Durable
  <2> QED BY <1>1, <1>3, <2>1 DEF DeleteTrust
<1>4. ASSUME NEW p \in Peers, NEW addrs, UpdateAddrs(p, addrs) PROVE Granted'
  <2> DEFINE e == [mem[p] EXCEPT !.addrs = Merge(@, addrs)]
  <2>1. p \in DOMAIN mem /\ Whole(mem[p])
    BY <1>4 DEF UpdateAddrs, Paired, Durable
  <2>2. e.roots = mem[p].roots
    BY <2>1 DEF Whole
  <2>3. mem' = With(mem, p, e) /\ (disk' = mem' \/ disk' = disk) /\ under' = under
    BY <1>4 DEF UpdateAddrs
  <2> HIDE DEF e
  <2> QED BY <1>0, <2>1, <2>2, <2>3, GrantedKept
<1>5. ASSUME NEW a \in Admins, SetTier(a) PROVE Granted'
  <2> DEFINE p == patch[a].peer
             e == [mem[p] EXCEPT !.tier = patch[a].tier]
  <2>1. p \in DOMAIN mem /\ Whole(mem[p]) /\ p \in Peers
    BY <1>5 DEF SetTier, Paired, Durable
  <2>2. e.roots = mem[p].roots
    BY <2>1 DEF Whole
  <2>3. mem' = With(mem, p, e) /\ (disk' = mem' \/ disk' = disk) /\ under' = under
    BY <1>5 DEF SetTier, Change
  <2> HIDE DEF e, p
  <2> QED BY <1>0, <2>1, <2>2, <2>3, GrantedKept
<1>6. ASSUME NEW a \in Admins, SetWritableRoots(a) PROVE Granted'
  <2> DEFINE p == patch[a].peer
             e == [mem[p] EXCEPT !.roots = patch[a].roots]
  <2>1. p \in DOMAIN mem /\ Whole(mem[p]) /\ p \in Peers
    BY <1>6 DEF SetWritableRoots, Paired, Durable
  <2>2. e.roots = patch[a].roots
    BY <2>1 DEF Whole
  <2>3. Change(p, e) /\ Grant(p) /\ Confined(patch[a].roots)
    BY <1>6 DEF SetWritableRoots, SetsRoots
  <2>4. Confined(e.roots)
    BY <2>2, <2>3
  <2> HIDE DEF e, p
  <2> QED BY <1>0, <2>1, <2>3, <2>4, GrantedChange
<1>7. ASSUME NEW a \in Admins, Patch(a) PROVE Granted'
  <2>1. CASE \E p \in Peers, r \in Patches : StartPatch(a, p, r.tier, r.roots)
    BY <1>1, <2>1 DEF StartPatch
  <2>2. CASE KeepTier(a) \/ EndPatch(a)
    BY <1>1, <2>2 DEF KeepTier, EndPatch
  <2> QED BY <1>5, <1>6, <1>7, <2>1, <2>2 DEF Patch
<1>8. ASSUME NEW d \in Devices, Restart(d) PROVE Granted'
  <2>1. mem' = Loaded(disk) /\ disk' = disk /\ under' = under /\ DOMAIN Loaded(disk) = DOMAIN disk
    BY <1>8 DEF Restart, Loaded
  <2> QED BY <2>1 DEF Granted, Fits
<1>9. CASE UNCHANGED vars
  BY <1>1, <1>9 DEF vars
<1>10. QED
  BY <1>2, <1>3, <1>4, <1>7, <1>8, <1>9 DEF Next

\* Where a paired device may write was within the device's writable roots when its
\* pairing was given roots, or is what the device has now: no failing save, save of
\* another device or restart with other options lends it different ones.
THEOREM GrantsHold == Spec => []ScopeWasGranted
<1>1. Init => Granted
  BY GrantedInit
<1>2. Granted /\ Durable /\ PatchTyped /\ [Next]_vars => Granted'
  BY GrantedStep
<1>3. Granted => ScopeWasGranted
  BY DEF Granted, Fits, ScopeWasGranted, MayWrite, WriteScope, Paired
<1>4. QED
  BY <1>1, <1>2, <1>3, AlwaysDurable, PTL DEF Spec

\* Whatever --writable-dirs the daemon was started with, now and before, a paired
\* device may write only inside directories the operator once named: a pairing is
\* confined when it is made and when it is changed (confineRoots, WriteScope).
THEOREM ScopeWasNamed ==
  ASSUME NEW R, \A d \in Devices : d.roots \subseteq R
  PROVE  Spec => [](\A p \in Peers : MayWrite(p) => WriteScope(p) \subseteq R)
<1>1. Init => ScopedIn(R)
  BY ScopedInit
<1>2. ScopedIn(R) /\ Durable /\ PatchTyped /\ [Next]_vars => ScopedIn(R)'
  BY ScopedStep
<1>3. ScopedIn(R) => \A p \in Peers : MayWrite(p) => WriteScope(p) \subseteq R
  BY DEF ScopedIn, MayWrite, WriteScope, Paired
<1> QED BY <1>1, <1>2, <1>3, AlwaysDurable, PTL DEF Spec

\* As long as --writable-dirs stays the same over restarts, a paired device may
\* write only inside it (WritePolicyFor; CONTEXT.md: "a pairing may only narrow them").
THEOREM StaysWithinBound ==
  ASSUME \A d, e \in Devices : d.roots = e.roots
  PROVE  Spec => []WithinBound
<1> DEFINE R == UNION {d.roots : d \in Devices}
<1>1. \A d \in Devices : d.roots \subseteq R /\ d.roots = R
  OBVIOUS
<1> HIDE DEF R
<1>2. Init => ScopedIn(R)
  BY <1>1, ScopedInit
<1>3. ScopedIn(R) /\ Durable /\ PatchTyped /\ [Next]_vars => ScopedIn(R)'
  BY <1>1, ScopedStep
<1>4. ScopedIn(R) => WithinBound
  BY <1>1 DEF ScopedIn, WithinBound, MayWrite, WriteScope, Paired
<1> QED BY <1>2, <1>3, <1>4, AlwaysDurable, PTL DEF Spec

-----------------------------------------------------------------------------
(* Walking a path. *)

\* The first n names of p are directories.
Leading(t, p, n) == \A m \in 1..n : At(t, SubSeq(p, 1, m)) = "dir"

\* All of p is directories, so nothing on it is a link.
Solid(t, p) == Leading(t, p, Len(p))

\* Stop is where a walk meets the first name that is no directory.
LEMMA StopIs ==
  ASSUME NEW t, NEW p \in Seq(STRING)
  PROVE  /\ Stop(t, p) \in 1..Len(p) + 1
         /\ Leading(t, p, Stop(t, p) - 1)
         /\ Stop(t, p) <= Len(p) => At(t, SubSeq(p, 1, Stop(t, p))) # "dir"
<1> DEFINE S == {n \in 1..Len(p) + 1 : n <= Len(p) => At(t, SubSeq(p, 1, n)) # "dir"}
<1>1. Len(p) \in Nat /\ Len(p) + 1 \in S
  OBVIOUS
<1>2. S \subseteq Nat /\ S # {}
  BY <1>1
<1>3. PICK n \in S : \A m \in S : n <= m
  <2> HIDE DEF S
  <2> QED BY <1>2, Least
<1>4. \A m \in 1..n - 1 : At(t, SubSeq(p, 1, m)) = "dir"
  <2> TAKE m \in 1..n - 1
  <2>1. m \notin S
    BY <1>1, <1>3
  <2> QED BY <1>1, <1>3, <2>1
<1>5. n \in 1..Len(p) + 1 /\ (n <= Len(p) => At(t, SubSeq(p, 1, n)) # "dir")
  BY <1>3
<1>6. QED
  BY <1>4, <1>5 DEF Stop, Leading

\* There is one such place.
LEMMA StopAt ==
  ASSUME NEW t, NEW p \in Seq(STRING), NEW n \in 1..Len(p) + 1, Leading(t, p, n - 1),
         n <= Len(p) => At(t, SubSeq(p, 1, n)) # "dir"
  PROVE  Stop(t, p) = n
<1> DEFINE k == Stop(t, p)
<1>1. k \in 1..Len(p) + 1 /\ Leading(t, p, k - 1) /\ (k <= Len(p) => At(t, SubSeq(p, 1, k)) # "dir")
  BY StopIs
<1>2. Len(p) \in Nat
  OBVIOUS
<1> HIDE DEF k
<1>3. ~(k < n)
  BY <1>1, <1>2 DEF Leading
<1>4. ~(n < k)
  BY <1>1, <1>2 DEF Leading
<1>5. QED
  BY <1>1, <1>2, <1>3, <1>4 DEF k

\* A prefix of a path that has names has names.
LEMMA PrefixNamed ==
  ASSUME NEW p \in Seq(STRING), NEW n \in 1..Len(p)
  PROVE  SubSeq(p, 1, n) \in Seq(STRING) /\ SubSeq(p, 1, n) # Slash /\ Len(SubSeq(p, 1, n)) = n
<1>1. SubSeq(p, 1, n) \in Seq(STRING) /\ Len(SubSeq(p, 1, n)) = n
  BY PrefixOf
<1>2. Len(Slash) = 0
  BY EmptySeq DEF Slash
<1>3. QED
  BY <1>1, <1>2

\* What is at a path of a file system.
LEMMA AtIs ==
  ASSUME NEW t, IsFileSystem(t), NEW p
  PROVE  /\ At(t, p) \in {"dir", "file", "link", "absent"}
         /\ At(t, p) = "absent" <=> p # Slash /\ p \notin DOMAIN t
         /\ At(t, p) \in {"file", "link"} => p # Slash /\ p \in DOMAIN t /\ At(t, p) = t[p].kind
  BY DEF At, IsFileSystem, FileNode

\* What something lies in is a directory, all the way up.
LEMMA WayDown ==
  ASSUME NEW t, IsFileSystem(t), NEW p \in DOMAIN t
  PROVE  p \in Seq(STRING) /\ p # Slash /\ Leading(t, p, Len(p) - 1)
<1> DEFINE S == {i \in Nat : i < Len(p) => SubSeq(p, 1, Len(p) - i) \in DOMAIN t}
<1>1. p \in Seq(STRING) /\ p # Slash /\ Len(p) \in Nat
  BY DEF IsFileSystem
<1>2. \A n \in 1..Len(p) : SubSeq(p, 1, n) \in DOMAIN t => At(t, SubSeq(p, 1, n - 1)) = "dir"
  <2> TAKE n \in 1..Len(p)
  <2>1. Front(SubSeq(p, 1, n)) = SubSeq(p, 1, n - 1)
    BY <1>1, FrontOfPrefix
  <2> QED BY <2>1 DEF IsFileSystem
<1>3. \A n \in 1..Len(p) : SubSeq(p, 1, n) # Slash
  BY <1>1, PrefixNamed
<1>4. 0 \in S
  <2>1. Len(p) - 0 = Len(p) /\ SubSeq(p, 1, Len(p)) = p
    BY <1>1, WholePrefix
  <2> QED BY <2>1
<1>5. \A i \in S : i + 1 \in S
  <2> SUFFICES ASSUME NEW i \in S, i + 1 < Len(p) PROVE SubSeq(p, 1, Len(p) - (i + 1)) \in DOMAIN t
    OBVIOUS
  <2>1. SubSeq(p, 1, Len(p) - i) \in DOMAIN t /\ Len(p) - i \in 1..Len(p)
    BY <1>1
  <2>2. At(t, SubSeq(p, 1, Len(p) - i - 1)) = "dir"
    BY <2>1, <1>2
  <2>3. Len(p) - i - 1 \in 1..Len(p) /\ Len(p) - i - 1 = Len(p) - (i + 1)
    BY <1>1
  <2>4. SubSeq(p, 1, Len(p) - (i + 1)) # Slash
    BY <1>3, <2>3
  <2>5. At(t, SubSeq(p, 1, Len(p) - (i + 1))) = "dir"
    BY <2>2, <2>3
  <2> QED BY <2>4, <2>5 DEF At
<1>6. S = Nat
  <2> HIDE DEF S
  <2> QED BY <1>4, <1>5, SetInduction, S \subseteq Nat DEF S
<1>7. \A m \in 1..Len(p) - 1 : At(t, SubSeq(p, 1, m)) = "dir"
  <2> TAKE m \in 1..Len(p) - 1
  <2>1. Len(p) - (m + 1) \in S /\ Len(p) - (Len(p) - (m + 1)) = m + 1 /\ Len(p) - (m + 1) < Len(p)
    BY <1>1, <1>6
  <2>2. SubSeq(p, 1, m + 1) \in DOMAIN t
    BY <2>1
  <2> QED BY <2>2, <1>2, <1>1
<1>8. QED
  BY <1>1, <1>7 DEF Leading

\* The rest of a path.
LEMMA RestOf ==
  ASSUME NEW p \in Seq(STRING), NEW n \in 0..Len(p)
  PROVE  /\ SubSeq(p, n + 1, Len(p)) \in Seq(STRING)
         /\ Len(SubSeq(p, n + 1, Len(p))) = Len(p) - n
         /\ \A i \in 1..Len(p) - n : SubSeq(p, n + 1, Len(p))[i] = p[n + i]
         /\ SubSeq(p, 1, n) \o SubSeq(p, n + 1, Len(p)) = p
<1>0. Len(p) \in Nat /\ \A i \in 1..Len(p) : p[i] \in STRING
  OBVIOUS
<1>1. /\ SubSeq(p, n + 1, Len(p)) \in Seq(STRING)
      /\ Len(SubSeq(p, n + 1, Len(p))) = Len(p) - n
      /\ \A i \in 1..Len(p) - n : SubSeq(p, n + 1, Len(p))[i] = p[n + i]
  <2>1. \A i \in n + 1..Len(p) : p[i] \in STRING
    BY <1>0
  <2>2. /\ SubSeq(p, n + 1, Len(p)) \in Seq(STRING)
        /\ Len(SubSeq(p, n + 1, Len(p))) = IF n + 1 <= Len(p) THEN Len(p) - (n + 1) + 1 ELSE 0
        /\ \A i \in 1..Len(p) - (n + 1) + 1 : SubSeq(p, n + 1, Len(p))[i] = p[(n + 1) + i - 1]
    BY <2>1, <1>0, SubSeqProperties
  <2> QED BY <2>2, <1>0
<1>2. SubSeq(p, 1, n) \o SubSeq(p, n + 1, Len(p)) = p
  <2>1. 1 \in 1..Len(p) + 1 /\ n \in 1 - 1..Len(p) /\ Len(p) \in n..Len(p)
    BY <1>0
  <2>2. SubSeq(p, 1, n) \o SubSeq(p, n + 1, Len(p)) = SubSeq(p, 1, Len(p))
    BY <2>1, ConcatAdjacentSubSeq
  <2> QED BY <2>2, WholePrefix
<1>3. QED
  BY <1>1, <1>2

\* Reading a link leads to a path.
LEMMA PastLinkPath ==
  ASSUME NEW t, IsFileSystem(t), NEW p \in Seq(STRING)
  PROVE  PastLink(t, p) \in Seq(STRING)
<1> DEFINE n == Stop(t, p)
           here == SubSeq(p, 1, n)
<1>1. n \in 1..Len(p) + 1
  BY StopIs
<1> HIDE DEF n
<1>2. CASE n <= Len(p) /\ At(t, here) = "link"
  <2>1. here \in DOMAIN t
    BY <1>2, AtIs
  <2>2. t[here].to \in Seq(STRING)
    BY <2>1 DEF IsFileSystem, FileNode
  <2>3. n \in 0..Len(p)
    BY <1>1, <1>2
  <2>4. SubSeq(p, n + 1, Len(p)) \in Seq(STRING)
    BY <2>3, RestOf
  <2>5. t[here].to \o SubSeq(p, n + 1, Len(p)) \in Seq(STRING)
    BY <2>2, <2>4, ConcatProperties
  <2> QED BY <1>2, <2>5 DEF PastLink, n
<1>3. CASE ~(n <= Len(p) /\ At(t, here) = "link")
  BY <1>3 DEF PastLink, n
<1>4. QED
  BY <1>2, <1>3

\* The paths of a walk, one after the other.
LEMMA WalkIs ==
  ASSUME NEW t, IsFileSystem(t), NEW p \in Seq(STRING)
  PROVE  /\ Walk(t, p)[0] = p
         /\ \A n \in 0..MaxLinks : Walk(t, p)[n] \in Seq(STRING)
         /\ \A n \in 1..MaxLinks : Walk(t, p)[n] = PastLink(t, Walk(t, p)[n - 1])
<1> DEFINE len == MaxLinks
           step == [x \in (1..len) \X Seq(STRING) |-> PastLink(t, x[2])]
           Rec(g) == g = [n \in 0..len |-> IF n = 0 THEN p ELSE PastLink(t, g[n - 1])]
<1>1. len \in Nat
  BY AccessAssumption
<1>2. /\ step \in [(1..len) \X Seq(STRING) -> Seq(STRING)]
      /\ \A n \in 1..len, v \in Seq(STRING) : step[<<n, v>>] = PastLink(t, v)
  BY PastLinkPath
<1> HIDE DEF step, len
<1>3. PICK f \in [0..len -> Seq(STRING)] : Follows(f, len, p, step)
  BY <1>1, <1>2, Recursion
<1>4. \A n \in 1..len : f[n - 1] \in Seq(STRING) /\ f[n] = PastLink(t, f[n - 1])
  <2> TAKE n \in 1..len
  <2>1. n - 1 \in 0..len
    BY <1>1
  <2>2. f[n - 1] \in Seq(STRING)
    BY <2>1
  <2> QED BY <1>2, <1>3, <2>2 DEF Follows
<1>5. Rec(f)
  <2>1. f = [n \in 0..len |-> f[n]]
    BY <1>3
  <2>2. \A n \in 0..len : f[n] = IF n = 0 THEN p ELSE PastLink(t, f[n - 1])
    BY <1>3, <1>4 DEF Follows
  <2> QED BY <2>1, <2>2
<1>6. Walk(t, p) = CHOOSE g : Rec(g)
  BY DEF Walk, len
<1> DEFINE g == Walk(t, p)
<1>7. Rec(g)
  BY <1>5, <1>6
<1> HIDE DEF g
<1>8. g[0] = p /\ \A n \in 1..len : g[n] = PastLink(t, g[n - 1])
  BY <1>1, <1>7
<1>9. \A n \in 0..len : g[n] \in Seq(STRING)
  <2> DEFINE E == {n \in 0..len : g[n] \in Seq(STRING)}
  <2>1. 0 \in E
    BY <1>1, <1>8
  <2>2. \A n \in 0..len - 1 : n \in E => n + 1 \in E
    <3> TAKE n \in 0..len - 1
    <3>1. n + 1 \in 1..len /\ (n + 1) - 1 = n /\ n + 1 \in 0..len
      BY <1>1
    <3> QED BY <1>8, <3>1, PastLinkPath
  <2> HIDE DEF E
  <2>3. 0..len \subseteq E
    BY <1>1, <2>1, <2>2, UpTo
  <2> QED BY <2>3 DEF E
<1>10. QED
  BY <1>8, <1>9 DEF g, len

\* A walk that comes to a path with no link to read ends there.
LEMMA WalkStays ==
  ASSUME NEW t, IsFileSystem(t), NEW p \in Seq(STRING), NEW n \in 0..MaxLinks,
         PastLink(t, Walk(t, p)[n]) = Walk(t, p)[n]
  PROVE  Walk(t, p)[MaxLinks] = Walk(t, p)[n]
<1> DEFINE w == Walk(t, p)
           k == MaxLinks - n
           S == {i \in 0..k : w[n + i] = w[n]}
<1>1. MaxLinks \in Nat /\ k \in Nat /\ n + k = MaxLinks
  BY AccessAssumption
<1>2. \A i \in 1..MaxLinks : w[i] = PastLink(t, w[i - 1])
  BY WalkIs
<1> HIDE DEF w
<1>3. 0 \in S
  BY <1>1
<1>4. \A i \in 0..k - 1 : i \in S => i + 1 \in S
  <2> SUFFICES ASSUME NEW i \in 0..k - 1, w[n + i] = w[n] PROVE i + 1 \in S
    OBVIOUS
  <2>1. n + (i + 1) \in 1..MaxLinks /\ n + (i + 1) - 1 = n + i /\ i + 1 \in 0..k
    BY <1>1
  <2>2. w[n + (i + 1)] = PastLink(t, w[n + i])
    BY <1>2, <2>1
  <2> QED BY <2>1, <2>2 DEF w
<1>5. k \in S
  <2> HIDE DEF S, k
  <2>1. 0..k \subseteq S
    BY <1>1, <1>3, <1>4, UpTo
  <2> QED BY <2>1, <1>1
<1>6. QED
  BY <1>1, <1>5 DEF w

\* q exists, and no link is on the way to it.
Stands(t, q) ==
  q \in Seq(STRING) /\ Leading(t, q, Len(q) - 1) /\ At(t, q) \in {"dir", "file"}

\* What a walk that has come to q ends in.
LEMMA EndsIs ==
  ASSUME NEW t, IsFileSystem(t), NEW q \in Seq(STRING)
  PROVE  /\ Ends(t, q).path \in Seq(STRING)
         /\ Ends(t, q) = Outcome(Ends(t, q).status, Ends(t, q).path)
         /\ Ends(t, q).status = "ok" => Ends(t, q).path = q /\ Stands(t, q)
         /\ Ends(t, q).status = "absent" =>
              \E n \in 1..Len(q) : /\ Ends(t, q).path = SubSeq(q, 1, n)
                                   /\ Leading(t, q, n - 1) /\ At(t, SubSeq(q, 1, n)) = "absent"
<1> DEFINE n == Stop(t, q)
           here == SubSeq(q, 1, n)
           r == Ends(t, q)
<1>1. n \in 1..Len(q) + 1 /\ Leading(t, q, n - 1) /\ (n <= Len(q) => At(t, here) # "dir")
  BY StopIs
<1>2. r = IF n > Len(q) THEN Outcome("ok", q)
          ELSE CASE At(t, here) = "absent" -> Outcome("absent", here)
                 [] At(t, here) = "link" -> Outcome("loop", here)
                 [] At(t, here) = "file" -> Outcome(IF n = Len(q) THEN "ok" ELSE "notdir", here)
  BY DEF Ends
<1>3. At(t, here) \in {"dir", "file", "link", "absent"}
  BY AtIs
<1>4. Len(q) \in Nat
  OBVIOUS
<1> HIDE DEF n, r
<1>5. CASE n > Len(q)
  <2>1. n = Len(q) + 1 /\ r = Outcome("ok", q)
    BY <1>1, <1>2, <1>4, <1>5
  <2>2. At(t, q) = "dir" /\ Leading(t, q, Len(q) - 1)
    <3>1. CASE q = Slash
      <4>1. Len(q) = 0
        BY <3>1, EmptySeq DEF Slash
      <4> QED BY <3>1, <4>1 DEF At, Leading
    <3>2. CASE q # Slash
      <4>1. Len(q) # 0
        BY <3>2, EmptySeq DEF Slash
      <4>2. Leading(t, q, Len(q))
        BY <1>1, <2>1
      <4>3. At(t, SubSeq(q, 1, Len(q))) = "dir"
        BY <4>1, <4>2, <1>4 DEF Leading
      <4>4. Leading(t, q, Len(q) - 1)
        BY <4>2, <1>4 DEF Leading
      <4> QED BY <4>3, <4>4, WholePrefix
    <3> QED BY <3>1, <3>2
  <2> QED BY <2>1, <2>2 DEF Outcome, Stands, r
<1>6. CASE n <= Len(q)
  <2>1. n \in 1..Len(q) /\ here \in Seq(STRING)
    BY <1>1, <1>4, <1>6, PrefixNamed
  <2>2. At(t, here) \in {"file", "link", "absent"} /\ ~(n > Len(q))
    BY <1>1, <1>3, <1>4, <1>6
  <2>3. CASE At(t, here) = "absent"
    <3>1. r = Outcome("absent", here)
      BY <1>2, <2>2, <2>3
    <3> QED BY <3>1, <2>1, <2>3, <1>1 DEF Outcome, r
  <2>4. CASE At(t, here) = "link"
    <3>1. r = Outcome("loop", here)
      BY <1>2, <2>2, <2>4
    <3> QED BY <3>1, <2>1 DEF Outcome, r
  <2>5. CASE At(t, here) = "file" /\ n # Len(q)
    <3>1. r = Outcome("notdir", here)
      BY <1>2, <2>2, <2>5
    <3> QED BY <3>1, <2>1 DEF Outcome, r
  <2>6. CASE At(t, here) = "file" /\ n = Len(q)
    <3>1. r = Outcome("ok", here)
      BY <1>2, <2>2, <2>6
    <3>2. here = q
      BY <2>6, WholePrefix
    <3>3. Stands(t, q)
      BY <3>2, <2>6, <1>1 DEF Stands
    <3>4. r.status = "ok" /\ r.path = q /\ r = Outcome(r.status, r.path)
      BY <3>1, <3>2 DEF Outcome
    <3> QED BY <3>3, <3>4 DEF r
  <2> QED BY <2>2, <2>3, <2>4, <2>5, <2>6
<1>7. QED
  BY <1>1, <1>4, <1>5, <1>6

\* What stands is where the walk to it ends, without a link.
LEMMA StandsStop ==
  ASSUME NEW t, IsFileSystem(t), NEW q, Stands(t, q)
  PROVE  PastLink(t, q) = q /\ Ends(t, q) = Outcome("ok", q)
<1>1. q \in Seq(STRING) /\ Len(q) \in Nat /\ Leading(t, q, Len(q) - 1) /\ SubSeq(q, 1, Len(q)) = q
  BY WholePrefix DEF Stands
<1>0. Len(q) \in Nat
  BY <1>1
<1>2. CASE At(t, q) = "dir"
  <2>1. Leading(t, q, Len(q))
    <3>1. ASSUME NEW m \in 1..Len(q) PROVE At(t, SubSeq(q, 1, m)) = "dir"
      <4>1. m = Len(q) \/ m \in 1..Len(q) - 1
        BY <1>0
      <4>2. CASE m = Len(q)
        <5>1. SubSeq(q, 1, m) = q
          BY <1>1, <4>2
        <5> QED BY <1>2, <5>1
      <4>3. CASE m \in 1..Len(q) - 1
        BY <1>1, <4>3 DEF Leading
      <4> QED BY <4>1, <4>2, <4>3
    <3> QED BY <3>1 DEF Leading
  <2>2. Stop(t, q) = Len(q) + 1
    <3>1. Len(q) + 1 \in 1..Len(q) + 1 /\ (Len(q) + 1) - 1 = Len(q) /\ ~(Len(q) + 1 <= Len(q))
      BY <1>1
    <3> QED BY <1>1, <2>1, <3>1, StopAt
  <2>3. Stop(t, q) > Len(q) /\ ~(Stop(t, q) <= Len(q))
    BY <1>1, <2>2
  <2> QED BY <2>3 DEF PastLink, Ends
<1>3. CASE At(t, q) = "file"
  <2>1. Len(q) # 0
    BY <1>1, <1>3, EmptySeq DEF At, Slash
  <2>2. Stop(t, q) = Len(q)
    <3>1. Len(q) \in 1..Len(q) + 1
      BY <1>1, <2>1
    <3> QED BY <1>1, <1>3, <3>1, StopAt
  <2>3. ~(Stop(t, q) > Len(q)) /\ SubSeq(q, 1, Stop(t, q)) = q
    BY <1>1, <2>2
  <2>4. PastLink(t, q) = q
    BY <1>3, <2>3 DEF PastLink
  <2>5. Ends(t, q) = Outcome("ok", q)
    BY <1>3, <2>2, <2>3 DEF Ends
  <2> QED BY <2>4, <2>5
<1>4. QED
  BY <1>2, <1>3 DEF Stands

\* What EvalSymlinks answers.
LEMMA EvalIs ==
  ASSUME NEW t, IsFileSystem(t), NEW p \in Seq(STRING)
  PROVE  /\ EvalSymlinks(t, p).path \in Seq(STRING)
         /\ EvalSymlinks(t, p) = Outcome(EvalSymlinks(t, p).status, EvalSymlinks(t, p).path)
         /\ EvalSymlinks(t, p).status = "ok" => Stands(t, EvalSymlinks(t, p).path)
<1>1. MaxLinks \in 0..MaxLinks
  BY AccessAssumption
<1>2. Walk(t, p)[MaxLinks] \in Seq(STRING)
  BY <1>1, WalkIs
<1>3. QED
  BY <1>2, EndsIs DEF EvalSymlinks

\* What stands is its own resolution: a resolved path resolves to itself.
LEMMA StandsEval ==
  ASSUME NEW t, IsFileSystem(t), NEW q, Stands(t, q)
  PROVE  EvalSymlinks(t, q) = Outcome("ok", q)
<1>1. q \in Seq(STRING) /\ 0 \in 0..MaxLinks
  BY AccessAssumption DEF Stands
<1>2. PastLink(t, q) = q /\ Ends(t, q) = Outcome("ok", q)
  BY StandsStop
<1>3. Walk(t, q)[0] = q
  BY <1>1, WalkIs
<1>4. Walk(t, q)[MaxLinks] = q
  BY <1>1, <1>2, <1>3, WalkStays
<1>5. QED
  BY <1>2, <1>4 DEF EvalSymlinks

\* Where paths begin alike, they differ in what follows.
LEMMA SameRest ==
  ASSUME NEW a \in Seq(STRING), NEW x \in Seq(STRING), NEW y \in Seq(STRING), a \o x = a \o y
  PROVE  x = y
<1>1. /\ Len(a \o x) = Len(a) + Len(x)
      /\ \A i \in 1..Len(a) + Len(x) : (a \o x)[i] = IF i <= Len(a) THEN a[i] ELSE x[i - Len(a)]
  BY ConcatProperties
<1>2. /\ Len(a \o y) = Len(a) + Len(y)
      /\ \A i \in 1..Len(a) + Len(y) : (a \o y)[i] = IF i <= Len(a) THEN a[i] ELSE y[i - Len(a)]
  BY ConcatProperties
<1>3. Len(a) \in Nat /\ Len(x) \in Nat /\ Len(y) \in Nat
  OBVIOUS
<1>4. Len(x) = Len(y)
  BY <1>1, <1>2, <1>3
<1>5. ASSUME NEW i \in 1..Len(x) PROVE x[i] = y[i]
  <2>1. /\ Len(a) + i \in 1..Len(a) + Len(x) /\ Len(a) + i \in 1..Len(a) + Len(y)
        /\ ~(Len(a) + i <= Len(a)) /\ (Len(a) + i) - Len(a) = i
    BY <1>3, <1>4
  <2>2. (a \o x)[Len(a) + i] = x[i] /\ (a \o y)[Len(a) + i] = y[i]
    BY <2>1, <1>1, <1>2
  <2> QED BY <2>2
<1>6. QED
  BY <1>4, <1>5, SameSeq

\* Paths may be put together in either order.
LEMMA Together ==
  ASSUME NEW a \in Seq(STRING), NEW b \in Seq(STRING), NEW c \in Seq(STRING)
  PROVE  (a \o b) \o c = a \o (b \o c)
  BY ConcatAssociative

\* Prefixes and rests of a path that is put together.
LEMMA ConcatPrefix ==
  ASSUME NEW p \in Seq(STRING), NEW r \in Seq(STRING), NEW n \in 0..Len(p)
  PROVE  /\ p \o r \in Seq(STRING) /\ Len(p \o r) = Len(p) + Len(r)
         /\ SubSeq(p \o r, 1, n) = SubSeq(p, 1, n)
         /\ SubSeq(p \o r, n + 1, Len(p \o r)) = SubSeq(p, n + 1, Len(p)) \o r
<1> DEFINE a == SubSeq(p, 1, n)
           b == SubSeq(p, n + 1, Len(p))
           x == SubSeq(p \o r, n + 1, Len(p \o r))
<1>0. Len(p) \in Nat /\ Len(r) \in Nat
  OBVIOUS
<1>1. p \o r \in Seq(STRING) /\ Len(p \o r) = Len(p) + Len(r)
  BY ConcatProperties
<1>2. n \in 0..Len(p \o r)
  BY <1>0, <1>1
<1>3. SubSeq(p \o r, 1, n) = a
  <2>1. CASE n = 0
    BY <2>1, SubSeqEmpty
  <2>2. CASE n # 0
    <3>1. n \in 1..Len(p) /\ 1 \in 1..Len(p)
      BY <2>2, <1>0
    <3> QED BY <3>1, SubSeqOfConcat1
  <2> QED BY <2>1, <2>2
<1>4. a \in Seq(STRING) /\ b \in Seq(STRING) /\ a \o b = p
  BY PrefixOf, RestOf
<1>5. x \in Seq(STRING) /\ SubSeq(p \o r, 1, n) \o x = p \o r
  BY <1>1, <1>2, RestOf
<1> HIDE DEF a, b, x
<1>6. b \o r \in Seq(STRING) /\ a \o (b \o r) = p \o r
  <2>1. b \o r \in Seq(STRING)
    BY <1>4, ConcatProperties
  <2>2. (a \o b) \o r = a \o (b \o r)
    <3>1. a \in Seq(STRING) /\ b \in Seq(STRING)
      BY <1>4
    <3> QED BY <3>1, Together
  <2> QED BY <2>1, <2>2, <1>4
<1>7. a \o x = a \o (b \o r)
  BY <1>3, <1>5, <1>6
<1> DEFINE y == b \o r
<1>8. y \in Seq(STRING) /\ a \o x = a \o y
  BY <1>6, <1>7
<1> HIDE DEF y
<1>9. x = y
  BY <1>4, <1>5, <1>8, SameRest
<1>10. QED
  BY <1>1, <1>3, <1>9 DEF a, b, x, y

\* A file system that has grown.
Extends(t, u) == \A q \in DOMAIN t : q \in DOMAIN u /\ u[q] = t[q]

\* What was there is still what it was.
LEMMA AtKept ==
  ASSUME NEW t, NEW u, Extends(t, u), NEW q, At(t, q) # "absent"
  PROVE  At(u, q) = At(t, q) /\ (q # Slash => q \in DOMAIN t /\ q \in DOMAIN u /\ u[q] = t[q])
  BY DEF At, Extends

\* A walk has come to a name that is not there.
Missed(t, w) == Stop(t, w) <= Len(w) /\ At(t, SubSeq(w, 1, Stop(t, w))) = "absent"

\* It ends there.
LEMMA MissedEnds ==
  ASSUME NEW t, NEW w, Missed(t, w)
  PROVE  PastLink(t, w) = w /\ (w \in Seq(STRING) => Ends(t, w).status = "absent")
<1>1. PastLink(t, w) = w
  BY DEF PastLink, Missed
<1>2. ASSUME w \in Seq(STRING) PROVE Ends(t, w).status = "absent"
  <2>1. Stop(t, w) \in 1..Len(w) + 1 /\ Len(w) \in Nat
    BY <1>2, StopIs
  <2>2. ~(Stop(t, w) > Len(w))
    BY <2>1 DEF Missed
  <2>3. Ends(t, w) = Outcome("absent", SubSeq(w, 1, Stop(t, w)))
    BY <2>2 DEF Ends, Missed
  <2> QED BY <2>3 DEF Outcome
<1>3. QED
  BY <1>1, <1>2

\* A walk that misses nothing is the same in a file system that has grown.
LEMMA SameStop ==
  ASSUME NEW t, NEW u, IsFileSystem(t), IsFileSystem(u), Extends(t, u),
         NEW w \in Seq(STRING), ~Missed(t, w)
  PROVE  Stop(u, w) = Stop(t, w) /\ PastLink(u, w) = PastLink(t, w) /\ Ends(u, w) = Ends(t, w)
<1> DEFINE n == Stop(t, w)
           here == SubSeq(w, 1, n)
<1>1. n \in 1..Len(w) + 1 /\ Leading(t, w, n - 1) /\ (n <= Len(w) => At(t, here) # "dir")
  BY StopIs
<1>2. Leading(u, w, n - 1)
  BY <1>1, AtKept DEF Leading
<1>3. n <= Len(w) => At(t, here) # "absent"
  BY DEF Missed
<1> HIDE DEF n
<1>4. n <= Len(w) => At(u, here) = At(t, here) /\ (here \in DOMAIN t => u[here] = t[here])
  BY <1>3, AtKept DEF Extends
<1>5. n <= Len(w) => At(u, here) = At(t, here)
  BY <1>3, AtKept
<1>6. Stop(u, w) = n
  BY <1>1, <1>2, <1>5, StopAt
<1>7. PastLink(u, w) = PastLink(t, w)
  <2>1. n <= Len(w) /\ At(t, here) = "link" => here \in DOMAIN t /\ u[here] = t[here]
    BY AtIs DEF Extends
  <2>2. PastLink(u, w) = IF n <= Len(w) /\ At(u, here) = "link"
                         THEN u[here].to \o SubSeq(w, n + 1, Len(w)) ELSE w
    BY <1>6 DEF PastLink
  <2>3. PastLink(t, w) = IF n <= Len(w) /\ At(t, here) = "link"
                         THEN t[here].to \o SubSeq(w, n + 1, Len(w)) ELSE w
    BY DEF PastLink, n
  <2> QED BY <2>1, <2>2, <2>3, <1>5
<1>8. Ends(u, w) = Ends(t, w)
  <2>1. Ends(u, w) =
          IF n > Len(w) THEN Outcome("ok", w)
          ELSE CASE At(u, here) = "absent" -> Outcome("absent", here)
                 [] At(u, here) = "link" -> Outcome("loop", here)
                 [] At(u, here) = "file" -> Outcome(IF n = Len(w) THEN "ok" ELSE "notdir", here)
    BY <1>6 DEF Ends
  <2>2. Ends(t, w) =
          IF n > Len(w) THEN Outcome("ok", w)
          ELSE CASE At(t, here) = "absent" -> Outcome("absent", here)
                 [] At(t, here) = "link" -> Outcome("loop", here)
                 [] At(t, here) = "file" -> Outcome(IF n = Len(w) THEN "ok" ELSE "notdir", here)
    BY DEF Ends, n
  <2>3. Len(w) \in Nat
    OBVIOUS
  <2>4. CASE n > Len(w)
    BY <2>1, <2>2, <2>4
  <2>5. CASE n <= Len(w)
    <3>1. At(u, here) = At(t, here)
      BY <1>5, <2>5
    <3>2. At(t, here) \in {"absent", "link", "file"} /\ ~(n > Len(w))
      BY <1>1, <2>3, <2>5, AtIs
    <3> QED BY <2>1, <2>2, <3>1, <3>2
  <2> QED BY <2>3, <2>4, <2>5, <1>1
<1>9. QED
  BY <1>6, <1>7, <1>8 DEF n

\* What a walk has led to stays what it leads to when more is created.
LEMMA EvalKept ==
  ASSUME NEW t, NEW u, IsFileSystem(t), IsFileSystem(u), Extends(t, u),
         NEW p \in Seq(STRING), EvalSymlinks(t, p).status # "absent"
  PROVE  EvalSymlinks(u, p) = EvalSymlinks(t, p)
<1> DEFINE w == Walk(t, p)
           v == Walk(u, p)
           E == {n \in 0..MaxLinks : v[n] = w[n]}
<1>1. w[0] = p /\ (\A n \in 0..MaxLinks : w[n] \in Seq(STRING)) /\ \A n \in 1..MaxLinks : w[n] = PastLink(t, w[n - 1])
  BY WalkIs
<1>2. v[0] = p /\ (\A n \in 0..MaxLinks : v[n] \in Seq(STRING)) /\ \A n \in 1..MaxLinks : v[n] = PastLink(u, v[n - 1])
  BY WalkIs
<1>3. MaxLinks \in Nat /\ EvalSymlinks(t, p) = Ends(t, w[MaxLinks]) /\ EvalSymlinks(u, p) = Ends(u, v[MaxLinks])
  BY AccessAssumption DEF EvalSymlinks
<1>4. \A n \in 0..MaxLinks : ~Missed(t, w[n])
  <2> SUFFICES ASSUME NEW n \in 0..MaxLinks, Missed(t, w[n]) PROVE FALSE
    OBVIOUS
  <2>1. PastLink(t, w[n]) = w[n] /\ Ends(t, w[n]).status = "absent"
    BY <1>1, MissedEnds
  <2>2. w[MaxLinks] = w[n]
    BY <2>1, WalkStays
  <2> QED BY <2>1, <2>2, <1>3
<1> HIDE DEF w, v
<1>5. 0 \in E
  BY <1>1, <1>2, <1>3
<1>6. \A n \in 0..MaxLinks - 1 : n \in E => n + 1 \in E
  <2> SUFFICES ASSUME NEW n \in 0..MaxLinks - 1, v[n] = w[n] PROVE n + 1 \in E
    OBVIOUS
  <2>1. n \in 0..MaxLinks /\ n + 1 \in 1..MaxLinks /\ n + 1 \in 0..MaxLinks /\ (n + 1) - 1 = n
    BY <1>3
  <2>2. PastLink(u, w[n]) = PastLink(t, w[n])
    BY <2>1, <1>1, <1>4, SameStop
  <2>3. w[n + 1] = PastLink(t, w[n]) /\ v[n + 1] = PastLink(u, v[n])
    BY <2>1, <1>1, <1>2
  <2> QED BY <2>1, <2>2, <2>3
<1>7. MaxLinks \in E
  <2> HIDE DEF E
  <2>1. 0..MaxLinks \subseteq E
    BY <1>3, <1>5, <1>6, UpTo
  <2> QED BY <2>1, <1>3
<1>8. MaxLinks \in 0..MaxLinks /\ v[MaxLinks] = w[MaxLinks]
  BY <1>7
<1>9. Ends(u, w[MaxLinks]) = Ends(t, w[MaxLinks])
  BY <1>1, <1>4, <1>8, SameStop
<1>10. QED
  BY <1>3, <1>8, <1>9

\* A link on a path is read the same when names follow.
LEMMA LinkBelow ==
  ASSUME NEW t, IsFileSystem(t), NEW w \in Seq(STRING), NEW r \in Seq(STRING),
         Stop(t, w) <= Len(w), At(t, SubSeq(w, 1, Stop(t, w))) = "link"
  PROVE  PastLink(t, w \o r) = PastLink(t, w) \o r
<1> DEFINE n == Stop(t, w)
           here == SubSeq(w, 1, n)
           x == w \o r
<1>1. n \in 1..Len(w) + 1 /\ Leading(t, w, n - 1)
  BY StopIs
<1>2. n \in 1..Len(w) /\ At(t, here) = "link" /\ Len(w) \in Nat /\ Len(r) \in Nat
  BY <1>1
<1> HIDE DEF n
<1>0. n \in 0..Len(w) /\ \A m \in 1..n - 1 : m \in 0..Len(w)
  BY <1>2
<1>3. \A m \in 0..Len(w) : SubSeq(x, 1, m) = SubSeq(w, 1, m) /\ SubSeq(x, m + 1, Len(x)) = SubSeq(w, m + 1, Len(w)) \o r
  BY ConcatPrefix
<1>4. x \in Seq(STRING) /\ Len(x) = Len(w) + Len(r)
  BY ConcatProperties
<1> HIDE DEF x
<1>5. Leading(t, x, n - 1)
  BY <1>0, <1>1, <1>3 DEF Leading
<1>6. SubSeq(x, 1, n) = here /\ SubSeq(x, n + 1, Len(x)) = SubSeq(w, n + 1, Len(w)) \o r
  BY <1>0, <1>3
<1>7. n \in 1..Len(x) + 1 /\ n <= Len(x)
  BY <1>2, <1>4
<1>8. Stop(t, x) = n
  BY <1>2, <1>4, <1>5, <1>6, <1>7, StopAt
<1>9. here \in DOMAIN t /\ At(t, here) = t[here].kind
  BY <1>2, AtIs
<1>10. t[here].to \in Seq(STRING)
  BY <1>9 DEF IsFileSystem, FileNode
<1>11. PastLink(t, x) = t[here].to \o SubSeq(x, n + 1, Len(x))
  BY <1>2, <1>6, <1>7, <1>8 DEF PastLink
<1>12. PastLink(t, w) = t[here].to \o SubSeq(w, n + 1, Len(w))
  BY <1>2 DEF PastLink, n
<1>13. SubSeq(w, n + 1, Len(w)) \in Seq(STRING)
  <2>1. n \in 0..Len(w)
    BY <1>2
  <2> QED BY <2>1, RestOf
<1> DEFINE a == t[here].to
           b == SubSeq(w, n + 1, Len(w))
<1>14. a \in Seq(STRING) /\ b \in Seq(STRING)
  BY <1>10, <1>13
<1>15. PastLink(t, x) = a \o (b \o r) /\ PastLink(t, w) = a \o b
  BY <1>6, <1>11, <1>12
<1> HIDE DEF a, b
<1>16. (a \o b) \o r = a \o (b \o r)
  BY <1>14, Together
<1>17. QED
  BY <1>15, <1>16 DEF x

\* What a path leads to, names that follow lead on from there.
LEMMA EvalBelow ==
  ASSUME NEW t, IsFileSystem(t), NEW p \in Seq(STRING), NEW r \in Seq(STRING),
         NEW real \in Seq(STRING), EvalSymlinks(t, p) = Outcome("ok", real), Stands(t, real \o r)
  PROVE  EvalSymlinks(t, p \o r) = Outcome("ok", real \o r)
<1> DEFINE w == Walk(t, p)
           x == p \o r
           v == Walk(t, x)
           E == {n \in 0..MaxLinks : v[n] = w[n] \o r}
<1>0. x \in Seq(STRING)
  BY ConcatProperties
<1>1. w[0] = p /\ (\A n \in 0..MaxLinks : w[n] \in Seq(STRING)) /\ \A n \in 1..MaxLinks : w[n] = PastLink(t, w[n - 1])
  BY WalkIs
<1>2. v[0] = x /\ \A n \in 1..MaxLinks : v[n] = PastLink(t, v[n - 1])
  BY <1>0, WalkIs
<1>3. MaxLinks \in Nat /\ EvalSymlinks(t, p) = Ends(t, w[MaxLinks]) /\ EvalSymlinks(t, x) = Ends(t, v[MaxLinks])
  BY AccessAssumption DEF EvalSymlinks
<1>4. w[MaxLinks] = real
  <2>1. Ends(t, w[MaxLinks]).status = "ok" /\ Ends(t, w[MaxLinks]).path = real
    BY <1>3 DEF Outcome
  <2>2. w[MaxLinks] \in Seq(STRING)
    BY <1>1, <1>3
  <2> QED BY <2>1, <2>2, EndsIs
<1>5. PastLink(t, real \o r) = real \o r /\ Ends(t, real \o r) = Outcome("ok", real \o r)
  BY StandsStop
<1>6. \A n \in 0..MaxLinks : PastLink(t, w[n]) = w[n] => w[n] = real
  BY <1>4, WalkStays
<1> HIDE DEF w, v
<1>7. 0 \in E
  <2>1. 0 \in 0..MaxLinks
    BY <1>3
  <2>2. v[0] = w[0] \o r
    BY <1>1, <1>2
  <2> QED BY <2>1, <2>2
<1>8. \A n \in 0..MaxLinks - 1 : n \in E => n + 1 \in E
  <2> SUFFICES ASSUME NEW n \in 0..MaxLinks - 1, v[n] = w[n] \o r PROVE n + 1 \in E
    OBVIOUS
  <2>1. n \in 0..MaxLinks /\ n + 1 \in 1..MaxLinks /\ n + 1 \in 0..MaxLinks /\ (n + 1) - 1 = n
    BY <1>3
  <2>2. w[n + 1] = PastLink(t, w[n]) /\ v[n + 1] = PastLink(t, w[n] \o r) /\ w[n] \in Seq(STRING)
    BY <2>1, <1>1, <1>2
  <2>3. PastLink(t, w[n] \o r) = PastLink(t, w[n]) \o r
    <3>1. CASE Stop(t, w[n]) <= Len(w[n]) /\ At(t, SubSeq(w[n], 1, Stop(t, w[n]))) = "link"
      BY <3>1, <2>2, LinkBelow
    <3>2. CASE ~(Stop(t, w[n]) <= Len(w[n]) /\ At(t, SubSeq(w[n], 1, Stop(t, w[n]))) = "link")
      <4>1. PastLink(t, w[n]) = w[n]
        BY <3>2 DEF PastLink
      <4>2. w[n] = real
        BY <4>1, <2>1, <1>6
      <4> QED BY <4>1, <4>2, <1>5
    <3> QED BY <3>1, <3>2
  <2>4. v[n + 1] = w[n + 1] \o r
    BY <2>2, <2>3
  <2> QED BY <2>1, <2>4
<1>9. MaxLinks \in E
  <2> HIDE DEF E
  <2>1. 0..MaxLinks \subseteq E
    BY <1>3, <1>7, <1>8, UpTo
  <2> QED BY <2>1, <1>3
<1>10. v[MaxLinks] = real \o r
  BY <1>9, <1>4
<1>11. QED
  BY <1>3, <1>5, <1>10

\* The directory a path lies in, and its own name.
LEMMA FrontLast ==
  ASSUME NEW p \in Seq(STRING), p # <<>>
  PROVE  /\ Front(p) \in Seq(STRING) /\ Len(Front(p)) = Len(p) - 1 /\ Last(p) \in STRING
         /\ Append(Front(p), Last(p)) = p
         /\ \A n \in 0..Len(p) - 1 : SubSeq(Front(p), 1, n) = SubSeq(p, 1, n)
<1>1. Len(p) \in Nat /\ Len(p) # 0
  BY EmptySeq
<1>2. Front(p) \in Seq(STRING) /\ Len(Front(p)) = Len(p) - 1 /\ \A i \in 1..Len(p) - 1 : Front(p)[i] = p[i]
  BY FrontOf
<1>3. Last(p) \in STRING
  <2>1. Len(p) \in 1..Len(p)
    BY <1>1
  <2> QED BY <2>1, ElementOfSeq DEF Last
<1>4. Append(Front(p), Last(p)) = p
  <2> DEFINE a == Front(p)
             z == Last(p)
  <2>1. a \in Seq(STRING) /\ Len(a) = Len(p) - 1 /\ z \in STRING /\ z = p[Len(p)]
    BY <1>2, <1>3 DEF Last
  <2>2. \A i \in 1..Len(p) - 1 : a[i] = p[i]
    BY <1>2
  <2> HIDE DEF a, z
  <2>3. /\ Append(a, z) \in Seq(STRING) /\ Len(Append(a, z)) = Len(a) + 1
        /\ \A i \in 1..Len(a) : Append(a, z)[i] = a[i]
        /\ Append(a, z)[Len(a) + 1] = z
    BY <2>1, AppendProperties
  <2>4. \A i \in 1..Len(p) : Append(a, z)[i] = p[i]
    <3> TAKE i \in 1..Len(p)
    <3>1. i \in 1..Len(p) - 1 \/ i = Len(p)
      BY <1>1
    <3>2. CASE i \in 1..Len(p) - 1
      BY <3>2, <2>1, <2>2, <2>3
    <3>3. CASE i = Len(p)
      <4>1. Len(a) + 1 = Len(p)
        BY <2>1, <1>1
      <4> QED BY <3>3, <4>1, <2>1, <2>3
    <3> QED BY <3>1, <3>2, <3>3
  <2>5. Len(Append(a, z)) = Len(p)
    BY <2>1, <2>3, <1>1
  <2>6. Append(a, z) = p
    BY <2>3, <2>4, <2>5, SameSeq
  <2> QED BY <2>6 DEF a, z
<1>5. ASSUME NEW n \in 0..Len(p) - 1 PROVE SubSeq(Front(p), 1, n) = SubSeq(p, 1, n)
  <2>1. Len(p) - 1 \in 0..Len(p)
    BY <1>1
  <2> QED BY <2>1, PrefixOfPrefix DEF Front
<1>6. QED
  BY <1>2, <1>3, <1>4, <1>5

\* A path with one more name.
LEMMA AppendIs ==
  ASSUME NEW p \in Seq(STRING), NEW z \in STRING
  PROVE  /\ Append(p, z) \in Seq(STRING) /\ Append(p, z) # Slash /\ Len(Append(p, z)) = Len(p) + 1
         /\ Front(Append(p, z)) = p /\ Last(Append(p, z)) = z
         /\ \A n \in 0..Len(p) : SubSeq(Append(p, z), 1, n) = SubSeq(p, 1, n)
         /\ SubSeq(Append(p, z), 1, Len(p) + 1) = Append(p, z)
<1> DEFINE q == Append(p, z)
<1>1. q \in Seq(STRING) /\ Len(q) = Len(p) + 1
  BY AppendProperties
<1>8. \A i \in 1..Len(p) : q[i] = p[i]
  BY AppendProperties
<1>9. q[Len(p) + 1] = z
  BY AppendProperties
<1>2. Len(p) \in Nat
  OBVIOUS
<1> HIDE DEF q
<1>0. q # <<>>
  BY <1>1, <1>2, EmptySeq
<1>3. ASSUME NEW n \in 0..Len(p) PROVE SubSeq(q, 1, n) = SubSeq(p, 1, n)
  <2>1. n \in 0..Len(q) /\ \A i \in 1..n : q[i] = p[i]
    BY <1>1, <1>2, <1>8
  <2>2. SubSeq(q, 1, n) \in Seq(STRING) /\ Len(SubSeq(q, 1, n)) = n /\ \A i \in 1..n : SubSeq(q, 1, n)[i] = q[i]
    BY <1>1, <2>1, PrefixOf
  <2>3. SubSeq(p, 1, n) \in Seq(STRING) /\ Len(SubSeq(p, 1, n)) = n /\ \A i \in 1..n : SubSeq(p, 1, n)[i] = p[i]
    BY PrefixOf
  <2> QED BY <2>1, <2>2, <2>3, SameSeq
<1>4. Front(q) = p
  <2>1. Len(q) - 1 = Len(p) /\ Len(p) \in 0..Len(p)
    BY <1>1, <1>2
  <2>2. SubSeq(q, 1, Len(p)) = SubSeq(p, 1, Len(p))
    BY <1>3, <2>1
  <2> QED BY <2>1, <2>2, WholePrefix DEF Front
<1>5. Last(q) = z
  BY <1>1, <1>9 DEF Last
<1>6. SubSeq(q, 1, Len(p) + 1) = q
  BY <1>1, WholePrefix
<1>7. QED
  BY <1>0, <1>1, <1>3, <1>4, <1>5, <1>6 DEF q, Slash

\* What lies on the way to something that stands, stands.
LEMMA StandsPrefix ==
  ASSUME NEW t, NEW q, Stands(t, q), NEW p \in Seq(STRING), IsPrefix(p, q)
  PROVE  Stands(t, p)
<1>1. q \in Seq(STRING) /\ Leading(t, q, Len(q) - 1) /\ At(t, q) \in {"dir", "file"}
  BY DEF Stands
<1>2. Len(p) \in Nat /\ Len(q) \in Nat /\ Len(p) <= Len(q)
  BY <1>1 DEF IsPrefix
<1>3. SubSeq(q, 1, Len(p)) = p
  BY WholePrefix DEF IsPrefix
<1>4. \A m \in 0..Len(p) : SubSeq(p, 1, m) = SubSeq(q, 1, m)
  <2> TAKE m \in 0..Len(p)
  <2>1. Len(p) \in 0..Len(q)
    BY <1>2
  <2>2. SubSeq(SubSeq(q, 1, Len(p)), 1, m) = SubSeq(q, 1, m)
    BY <2>1, <1>1, PrefixOfPrefix
  <2> QED BY <2>2, <1>3
<1>5. Leading(t, p, Len(p) - 1)
  <2>1. \A m \in 1..Len(p) - 1 : m \in 0..Len(p) /\ m \in 1..Len(q) - 1
    BY <1>2
  <2> QED BY <2>1, <1>1, <1>4 DEF Leading
<1>6. At(t, p) \in {"dir", "file"}
  <2>1. CASE p = Slash
    BY <2>1 DEF At
  <2>2. CASE p # Slash /\ Len(p) = Len(q)
    <3>1. SubSeq(q, 1, Len(q)) = q
      BY <1>1, WholePrefix
    <3> QED BY <3>1, <2>2, <1>1, <1>3
  <2>3. CASE p # Slash /\ Len(p) # Len(q)
    <3>1. Len(p) # 0
      BY <2>3, EmptySeq DEF Slash
    <3>2. Len(p) \in 1..Len(q) - 1
      BY <3>1, <2>3, <1>2
    <3>3. At(t, SubSeq(q, 1, Len(p))) = "dir"
      BY <3>2, <1>1 DEF Leading
    <3> QED BY <3>3, <1>3
  <2> QED BY <2>1, <2>2, <2>3
<1>7. QED
  BY <1>5, <1>6 DEF Stands

\* A path begins what is put together from it, and that begins nothing else.
LEMMA PrefixConcat ==
  ASSUME NEW p \in Seq(STRING), NEW r \in Seq(STRING)
  PROVE  IsPrefix(p, p \o r)
<1>1. Len(p) \in Nat /\ Len(r) \in Nat /\ Len(p) \in 0..Len(p)
  OBVIOUS
<1>2. Len(p \o r) = Len(p) + Len(r) /\ SubSeq(p \o r, 1, Len(p)) = SubSeq(p, 1, Len(p))
  BY <1>1, ConcatPrefix
<1>3. QED
  BY <1>1, <1>2 DEF IsPrefix

\* What begins the beginning of a path begins the path.
LEMMA PrefixTransitive ==
  ASSUME NEW p \in Seq(STRING), NEW q \in Seq(STRING), NEW s \in Seq(STRING), IsPrefix(p, q), IsPrefix(q, s)
  PROVE  IsPrefix(p, s)
<1>1. /\ Len(p) \in Nat /\ Len(q) \in Nat /\ Len(s) \in Nat /\ Len(p) <= Len(q) /\ Len(q) <= Len(s)
      /\ SubSeq(p, 1, Len(p)) = SubSeq(q, 1, Len(p)) /\ SubSeq(q, 1, Len(q)) = SubSeq(s, 1, Len(q))
  BY DEF IsPrefix
<1>2. Len(q) \in 0..Len(s) /\ Len(p) \in 0..Len(q) /\ Len(q) \in 0..Len(q)
  BY <1>1
<1>3. SubSeq(SubSeq(s, 1, Len(q)), 1, Len(p)) = SubSeq(s, 1, Len(p))
  BY <1>2, PrefixOfPrefix
<1>4. SubSeq(SubSeq(q, 1, Len(q)), 1, Len(p)) = SubSeq(q, 1, Len(p))
  BY <1>2, PrefixOfPrefix
<1>5. QED
  BY <1>1, <1>3, <1>4 DEF IsPrefix

-----------------------------------------------------------------------------
(* The resolvers. *)

\* q is in a root that is there.
Inside(t, roots, q) ==
  \E i \in DOMAIN roots : EvalSymlinks(t, roots[i]).status = "ok" /\ IsPrefix(Real(t, roots[i]), q)

\* So is all below it, and it stays so when more is created.
LEMMA InsideBelow ==
  ASSUME NEW t, IsFileSystem(t), NEW roots \in Seq(Seq(STRING)), NEW q \in Seq(STRING), Inside(t, roots, q),
         NEW s \in Seq(STRING), IsPrefix(q, s)
  PROVE  Inside(t, roots, s)
<1>1. PICK i \in DOMAIN roots : EvalSymlinks(t, roots[i]).status = "ok" /\ IsPrefix(Real(t, roots[i]), q)
  BY DEF Inside
<1>2. roots[i] \in Seq(STRING)
  OBVIOUS
<1>3. Real(t, roots[i]) \in Seq(STRING)
  BY <1>2, EvalIs DEF Real
<1>4. IsPrefix(Real(t, roots[i]), s)
  BY <1>1, <1>3, PrefixTransitive
<1>5. QED
  BY <1>1, <1>4 DEF Inside

LEMMA InsideKept ==
  ASSUME NEW t, NEW u, IsFileSystem(t), IsFileSystem(u), Extends(t, u),
         NEW roots \in Seq(Seq(STRING)), NEW q, Inside(t, roots, q)
  PROVE  Inside(u, roots, q)
<1>1. PICK i \in DOMAIN roots : EvalSymlinks(t, roots[i]).status = "ok" /\ IsPrefix(Real(t, roots[i]), q)
  BY DEF Inside
<1>2. roots[i] \in Seq(STRING)
  OBVIOUS
<1>3. EvalSymlinks(u, roots[i]) = EvalSymlinks(t, roots[i])
  BY <1>1, <1>2, EvalKept
<1>4. QED
  BY <1>1, <1>3 DEF Inside, Real

\* What ResolveWithinRoots answers is there and in a root.
LEMMA WithinIs ==
  ASSUME NEW t, IsFileSystem(t), NEW roots \in Seq(Seq(STRING)), NEW p \in Seq(STRING),
         ResolveWithinRoots(t, roots, p) # NoPath
  PROVE  /\ EvalSymlinks(t, p) = Outcome("ok", ResolveWithinRoots(t, roots, p))
         /\ Stands(t, ResolveWithinRoots(t, roots, p))
         /\ Inside(t, roots, ResolveWithinRoots(t, roots, p))
<1> DEFINE r == EvalSymlinks(t, p)
<1>1. r.status = "ok" /\ ResolveWithinRoots(t, roots, p) = r.path
  BY DEF ResolveWithinRoots
<1>2. PICK i \in DOMAIN roots : IsPrefix(RealRoot(t, roots[i]), r.path)
  BY DEF ResolveWithinRoots, PathWithin
<1>3. r = Outcome("ok", r.path) /\ Stands(t, r.path)
  BY <1>1, EvalIs
<1>4. roots[i] \in Seq(STRING)
  OBVIOUS
<1> HIDE DEF r
<1>5. EvalSymlinks(t, roots[i]).status = "ok"
  <2> SUFFICES ASSUME EvalSymlinks(t, roots[i]).status # "ok" PROVE FALSE
    OBVIOUS
  <2>1. IsPrefix(roots[i], r.path)
    BY <1>2 DEF RealRoot
  <2>2. Stands(t, roots[i])
    BY <2>1, <1>3, <1>4, StandsPrefix
  <2>3. EvalSymlinks(t, roots[i]) = Outcome("ok", roots[i])
    BY <2>2, StandsEval
  <2> QED BY <2>3 DEF Outcome
<1>6. Inside(t, roots, r.path)
  BY <1>2, <1>5 DEF Inside, RealRoot
<1>7. QED
  BY <1>1, <1>3, <1>6 DEF r

\* And what is there and in a root is what it answers.
LEMMA InsideResolves ==
  ASSUME NEW t, NEW roots, NEW p, NEW q, EvalSymlinks(t, p) = Outcome("ok", q), Inside(t, roots, q)
  PROVE  ResolveWithinRoots(t, roots, p) = q
<1>1. EvalSymlinks(t, p).status = "ok" /\ EvalSymlinks(t, p).path = q
  BY DEF Outcome
<1>2. \E i \in DOMAIN roots : PathWithin(q, RealRoot(t, roots[i]))
  BY DEF Inside, RealRoot, PathWithin
<1>3. QED
  BY <1>1, <1>2 DEF ResolveWithinRoots

\* The greatest number of a set that has a bound.
LEMMA Greatest ==
  ASSUME NEW n \in Nat, NEW S, S \subseteq 0..n, S # {}
  PROVE  \E k \in S : \A j \in k + 1..n : j \notin S
<1> DEFINE T == {d \in 0..n : n - d \in S}
<1>1. PICK m \in S : TRUE
  OBVIOUS
<1>2. m \in 0..n /\ n - m \in 0..n /\ n - (n - m) = m
  OBVIOUS
<1>3. n - m \in T
  BY <1>1, <1>2
<1>4. T \subseteq Nat /\ T # {}
  BY <1>3
<1>5. PICK d \in T : \A e \in T : d <= e
  <2> HIDE DEF T
  <2> QED BY <1>4, Least
<1>6. \A j \in (n - d) + 1..n : j \notin S
  <2> SUFFICES ASSUME NEW j \in (n - d) + 1..n, j \in S PROVE FALSE
    OBVIOUS
  <2>1. j \in 0..n /\ n - j \in 0..n /\ n - (n - j) = j
    OBVIOUS
  <2>2. n - j \in T
    BY <2>1
  <2>3. d <= n - j
    BY <2>2, <1>5
  <2> QED BY <2>3, <1>5
<1>7. n - d \in S
  BY <1>5
<1>8. QED
  BY <1>6, <1>7

\* Where something is at a path that its names alone lead to.
LEMMA LstatIs ==
  ASSUME NEW t, IsFileSystem(t), NEW p \in Seq(STRING), p # Slash, NEW d \in Seq(STRING),
         EvalSymlinks(t, Front(p)) = Outcome("ok", d)
  PROVE  /\ Lstat(t, p).status = "absent" <=> At(t, d) = "dir" /\ At(t, Append(d, Last(p))) = "absent"
         /\ Lstat(t, p).status = "ok" <=> At(t, d) = "dir" /\ At(t, Append(d, Last(p))) # "absent"
         /\ Lstat(t, p).status = "ok" => Lstat(t, p).path = Append(d, Last(p))
<1>1. Lstat(t, p) = Looked(t, Outcome("ok", d), Last(p))
  BY DEF Lstat
<1>2. Lstat(t, p) = IF At(t, d) # "dir" THEN Outcome("notdir", Append(d, Last(p)))
                    ELSE Outcome(IF At(t, Append(d, Last(p))) = "absent" THEN "absent" ELSE "ok", Append(d, Last(p)))
  BY <1>1 DEF Looked, Outcome
<1>3. QED
  BY <1>2 DEF Outcome

\* The paths made of the names of p.
Over(p) == {q \in Seq(STRING) : \A i \in DOMAIN q : \E j \in DOMAIN p : q[i] = p[j]}

LEMMA OverAppend ==
  ASSUME NEW p \in Seq(STRING), NEW q \in Over(p), NEW n \in DOMAIN p
  PROVE  Append(q, p[n]) \in Over(p)
<1>1. q \in Seq(STRING) /\ p[n] \in STRING /\ DOMAIN q = 1..Len(q) /\ Len(q) \in Nat
  BY DEF Over
<1> DEFINE z == p[n]
           r == Append(q, z)
<1>2. /\ r \in Seq(STRING) /\ Len(r) = Len(q) + 1
      /\ \A i \in 1..Len(q) : r[i] = q[i]
      /\ r[Len(q) + 1] = z
  BY <1>1, AppendProperties
<1>3. \A i \in DOMAIN q : \E j \in DOMAIN p : q[i] = p[j]
  BY DEF Over
<1> HIDE DEF r
<1>4. DOMAIN r = 1..Len(q) + 1
  BY <1>1, <1>2
<1>5. ASSUME NEW i \in DOMAIN r PROVE \E j \in DOMAIN p : r[i] = p[j]
  <2>1. CASE i = Len(q) + 1
    BY <2>1, <1>2
  <2>2. CASE i # Len(q) + 1
    <3>1. i \in DOMAIN q /\ i \in 1..Len(q)
      BY <2>2, <1>1, <1>4
    <3>2. r[i] = q[i]
      BY <3>1, <1>2
    <3> QED BY <3>1, <3>2, <1>3
  <2> QED BY <2>1, <2>2
<1>6. r \in Over(p)
  BY <1>2, <1>5 DEF Over
<1>7. QED
  BY <1>6 DEF r

LEMMA OverFront ==
  ASSUME NEW p \in Seq(STRING), NEW q \in Over(p), q # Slash
  PROVE  Front(q) \in Over(p)
<1>1. q \in Seq(STRING) /\ DOMAIN q = 1..Len(q) /\ Len(q) \in Nat
  BY DEF Over
<1> DEFINE r == Front(q)
<1>2. r \in Seq(STRING) /\ Len(r) = Len(q) - 1 /\ \A i \in 1..Len(q) - 1 : r[i] = q[i]
  BY <1>1, FrontOf DEF Slash
<1>3. \A i \in DOMAIN q : \E j \in DOMAIN p : q[i] = p[j]
  BY DEF Over
<1> HIDE DEF r
<1>4. DOMAIN r = 1..Len(q) - 1
  BY <1>2
<1>5. \A i \in DOMAIN r : i \in DOMAIN q /\ r[i] = q[i]
  BY <1>1, <1>2, <1>4
<1>6. \A i \in DOMAIN r : \E j \in DOMAIN p : r[i] = p[j]
  BY <1>3, <1>5
<1>7. r \in Over(p)
  BY <1>2, <1>6 DEF Over
<1>8. QED
  BY <1>7 DEF r

\* Clean leaves out names and adds none.
LEMMA CleanIs ==
  ASSUME NEW p \in Seq(STRING)
  PROVE  Clean(p) \in Over(p)
<1> DEFINE len == Len(p)
           Taken(n, q) == IF p[n] # Up THEN Append(q, p[n]) ELSE IF q = Slash THEN Slash ELSE Front(q)
           step == [x \in (1..len) \X Over(p) |-> Taken(x[1], x[2])]
           Rec(g) == g = [n \in 0..len |-> IF n = 0 THEN Slash ELSE Taken(n, g[n - 1])]
<1>1. len \in Nat /\ DOMAIN p = 1..len
  OBVIOUS
<1>2. Slash \in Over(p)
  BY DEF Slash, Over
<1>3. \A n \in 1..len, q \in Over(p) : Taken(n, q) \in Over(p)
  BY <1>1, <1>2, OverAppend, OverFront
<1> HIDE DEF Taken
<1>4. /\ step \in [(1..len) \X Over(p) -> Over(p)]
      /\ \A n \in 1..len, q \in Over(p) : step[<<n, q>>] = Taken(n, q)
  BY <1>3
<1> HIDE DEF step, len
<1>5. PICK f \in [0..len -> Over(p)] : Follows(f, len, Slash, step)
  BY <1>1, <1>2, <1>4, Recursion
<1>6. \A n \in 1..len : f[n - 1] \in Over(p) /\ f[n] = Taken(n, f[n - 1])
  <2> TAKE n \in 1..len
  <2>1. n - 1 \in 0..len
    BY <1>1
  <2>2. f[n - 1] \in Over(p)
    BY <2>1
  <2> QED BY <1>4, <1>5, <2>2 DEF Follows
<1>7. Rec(f)
  <2>1. f = [n \in 0..len |-> f[n]]
    BY <1>5
  <2>2. \A n \in 0..len : f[n] = IF n = 0 THEN Slash ELSE Taken(n, f[n - 1])
    BY <1>5, <1>6 DEF Follows
  <2> QED BY <2>1, <2>2
<1> DEFINE g == CHOOSE h : Rec(h)
<1>8. Clean(p) = g[len]
  BY DEF Clean, len, Taken
<1>9. Rec(g)
  BY <1>7
<1> HIDE DEF g
<1>10. g[0] = Slash /\ \A n \in 1..len : g[n] = Taken(n, g[n - 1])
  BY <1>1, <1>9
<1>11. g[len] \in Over(p)
  <2> DEFINE E == {n \in 0..len : g[n] \in Over(p)}
  <2>1. 0 \in E
    BY <1>1, <1>2, <1>10
  <2>2. \A n \in 0..len - 1 : n \in E => n + 1 \in E
    <3> TAKE n \in 0..len - 1
    <3>1. n + 1 \in 1..len /\ (n + 1) - 1 = n /\ n + 1 \in 0..len
      BY <1>1
    <3> QED BY <1>3, <1>10, <3>1
  <2> HIDE DEF E
  <2>3. 0..len \subseteq E
    BY <1>1, <2>1, <2>2, UpTo
  <2> QED BY <2>3, <1>1 DEF E
<1>12. QED
  BY <1>8, <1>11

\* A prefix of an ordinary path and a path over one are ordinary.
LEMMA OverOrdinary ==
  ASSUME NEW p, Ordinary(p), NEW q \in Over(p)
  PROVE  Ordinary(q)
  BY DEF Ordinary, Over

LEMMA OrdinaryParts ==
  ASSUME NEW p, Ordinary(p)
  PROVE  /\ \A n \in 0..Len(p) : Ordinary(SubSeq(p, 1, n))
         /\ \A n \in 0..Len(p) : Ordinary(SubSeq(p, n + 1, Len(p)))
         /\ \A n \in 1..Len(p) : p[n] # TempName
         /\ p # Slash => Ordinary(Front(p)) /\ Last(p) # TempName
<1>1. p \in Seq(STRING) /\ Len(p) \in Nat /\ DOMAIN p = 1..Len(p) /\ \A i \in 1..Len(p) : p[i] # TempName
  BY DEF Ordinary
<1>2. ASSUME NEW n \in 0..Len(p) PROVE Ordinary(SubSeq(p, 1, n))
  <2> DEFINE q == SubSeq(p, 1, n)
  <2>1. q \in Seq(STRING) /\ Len(q) = n /\ \A i \in 1..n : q[i] = p[i]
    BY <1>1, PrefixOf
  <2> HIDE DEF q
  <2>2. DOMAIN q = 1..n /\ \A i \in 1..n : i \in 1..Len(p)
    BY <2>1
  <2>3. \A i \in DOMAIN q : q[i] # TempName
    BY <2>1, <2>2, <1>1
  <2>4. Ordinary(q)
    BY <2>1, <2>3 DEF Ordinary
  <2> QED BY <2>4 DEF q
<1>3. ASSUME NEW n \in 0..Len(p) PROVE Ordinary(SubSeq(p, n + 1, Len(p)))
  <2> DEFINE q == SubSeq(p, n + 1, Len(p))
  <2>1. q \in Seq(STRING) /\ Len(q) = Len(p) - n /\ \A i \in 1..Len(p) - n : q[i] = p[n + i]
    BY <1>1, RestOf
  <2> HIDE DEF q
  <2>2. DOMAIN q = 1..Len(p) - n /\ \A i \in 1..Len(p) - n : n + i \in 1..Len(p)
    BY <2>1, <1>1
  <2>3. \A i \in DOMAIN q : q[i] # TempName
    BY <2>1, <2>2, <1>1
  <2>4. Ordinary(q)
    BY <2>1, <2>3 DEF Ordinary
  <2> QED BY <2>4 DEF q
<1>4. ASSUME p # Slash PROVE Ordinary(Front(p)) /\ Last(p) # TempName
  <2>1. Len(p) # 0
    BY <1>1, <1>4, EmptySeq DEF Slash
  <2>2. Len(p) - 1 \in 0..Len(p) /\ Len(p) \in 1..Len(p)
    BY <2>1, <1>1
  <2>3. Ordinary(Front(p))
    BY <2>2, <1>2 DEF Front
  <2>4. Last(p) # TempName
    BY <2>2, <1>1 DEF Last
  <2> QED BY <2>3, <2>4
<1>5. QED
  BY <1>1, <1>2, <1>3, <1>4

LEMMA OrdinaryConcat ==
  ASSUME NEW p, NEW q, Ordinary(p), Ordinary(q)
  PROVE  Ordinary(p \o q)
<1>1. /\ p \in Seq(STRING) /\ Len(p) \in Nat /\ \A i \in 1..Len(p) : p[i] # TempName
      /\ q \in Seq(STRING) /\ Len(q) \in Nat /\ \A i \in 1..Len(q) : q[i] # TempName
  BY DEF Ordinary
<1> DEFINE r == p \o q
<1>2. /\ r \in Seq(STRING) /\ Len(r) = Len(p) + Len(q)
      /\ \A i \in 1..Len(p) : r[i] = p[i]
      /\ \A j \in 1..Len(q) : r[Len(p) + j] = q[j]
  BY <1>1, ConcatProperties
<1> HIDE DEF r
<1>3. DOMAIN r = 1..Len(p) + Len(q)
  BY <1>2, <1>1
<1>4. ASSUME NEW i \in DOMAIN r PROVE r[i] # TempName
  <2>1. CASE i <= Len(p)
    BY <2>1, <1>1, <1>2, <1>3
  <2>2. CASE i > Len(p)
    <3>1. i - Len(p) \in 1..Len(q) /\ Len(p) + (i - Len(p)) = i
      BY <2>2, <1>1, <1>3
    <3>2. r[Len(p) + (i - Len(p))] = q[i - Len(p)]
      BY <3>1, <1>2
    <3> QED BY <3>1, <3>2, <1>1
  <2> QED BY <2>1, <2>2, <1>1, <1>3
<1>5. Ordinary(r)
  BY <1>2, <1>4 DEF Ordinary
<1>6. QED
  BY <1>5 DEF r

LEMMA OrdinaryAppend ==
  ASSUME NEW p, NEW z \in STRING, Ordinary(p), z # TempName
  PROVE  Ordinary(Append(p, z))
<1>1. p \in Seq(STRING) /\ Len(p) \in Nat /\ \A i \in 1..Len(p) : p[i] # TempName
  BY DEF Ordinary
<1> DEFINE r == Append(p, z)
<1>2. /\ r \in Seq(STRING) /\ Len(r) = Len(p) + 1
      /\ \A i \in 1..Len(p) : r[i] = p[i]
      /\ r[Len(p) + 1] = z
  BY <1>1, AppendProperties
<1> HIDE DEF r
<1>3. DOMAIN r = 1..Len(p) + 1 /\ \A i \in 1..Len(p) + 1 : i \in 1..Len(p) \/ i = Len(p) + 1
  BY <1>1, <1>2
<1>4. \A i \in DOMAIN r : r[i] # TempName
  BY <1>1, <1>2, <1>3
<1>5. Ordinary(r)
  BY <1>2, <1>4 DEF Ordinary
<1>6. QED
  BY <1>5 DEF r

\* The path a request asks for.
LEMMA AbsIs ==
  ASSUME NEW r, r.parts \in Seq(STRING), NEW base \in Seq(STRING)
  PROVE  /\ Abs(r, base) \in Seq(STRING)
         /\ Ordinary(r.parts) /\ Ordinary(base) => Ordinary(Abs(r, base))
<1> DEFINE p == IF r.abs THEN r.parts ELSE base \o r.parts
<1>1. p \in Seq(STRING)
  BY ConcatProperties
<1>2. Ordinary(r.parts) /\ Ordinary(base) => Ordinary(p)
  BY OrdinaryConcat
<1>3. Abs(r, base) = Clean(p)
  BY DEF Abs
<1> HIDE DEF p
<1>4. Clean(p) \in Over(p)
  BY <1>1, CleanIs
<1>5. Clean(p) \in Seq(STRING)
  BY <1>4 DEF Over
<1>6. QED
  BY <1>2, <1>3, <1>4, <1>5, OverOrdinary

-----------------------------------------------------------------------------
(* What changes leave a file system one. *)

LEMMA PrefixFront ==
  ASSUME NEW p \in Seq(STRING), NEW q \in Seq(STRING), q # Slash
  PROVE  /\ IsPrefix(p, Front(q)) => IsPrefix(p, q)
         /\ IsPrefix(p, q) => p = q \/ IsPrefix(p, Front(q))
         /\ ~IsPrefix(q, Front(q))
<1>1. /\ Front(q) \in Seq(STRING) /\ Len(Front(q)) = Len(q) - 1
      /\ \A n \in 0..Len(q) - 1 : SubSeq(Front(q), 1, n) = SubSeq(q, 1, n)
  BY FrontLast DEF Slash
<1>2. Len(p) \in Nat /\ Len(q) \in Nat /\ Len(Front(q)) \in Nat /\ Len(q) # 0
  BY <1>1, EmptySeq DEF Slash
<1>3. SubSeq(p, 1, Len(p)) = p /\ SubSeq(q, 1, Len(q)) = q
  BY WholePrefix
<1>4. IsPrefix(p, Front(q)) => IsPrefix(p, q)
  BY <1>1, <1>2 DEF IsPrefix
<1>5. ASSUME IsPrefix(p, q) PROVE p = q \/ IsPrefix(p, Front(q))
  <2>1. Len(p) <= Len(q) /\ SubSeq(p, 1, Len(p)) = SubSeq(q, 1, Len(p))
    BY <1>5 DEF IsPrefix
  <2>2. CASE Len(p) = Len(q)
    BY <2>1, <2>2, <1>3
  <2>3. CASE Len(p) # Len(q)
    <3>1. Len(p) \in 0..Len(q) - 1
      BY <2>1, <2>3, <1>2
    <3>2. SubSeq(p, 1, Len(p)) = SubSeq(Front(q), 1, Len(p)) /\ Len(p) <= Len(Front(q))
      BY <3>1, <2>1, <1>1, <1>2
    <3> QED BY <3>2 DEF IsPrefix
  <2> QED BY <2>2, <2>3
<1>6. ~IsPrefix(q, Front(q))
  BY <1>1, <1>2 DEF IsPrefix
<1>7. QED
  BY <1>4, <1>5, <1>6

LEMMA PutAt ==
  ASSUME NEW t, NEW p, NEW node
  PROVE  /\ p # Slash => At(Put(t, p, node), p) = node.kind
         /\ \A q : q # p => At(Put(t, p, node), q) = At(t, q)
<1> DEFINE u == Put(t, p, node)
<1>1. /\ DOMAIN u = DOMAIN t \cup {p} /\ u[p] = node
      /\ \A q \in DOMAIN t : q # p => u[q] = t[q]
  BY DEF Put
<1> HIDE DEF u
<1>2. p # Slash => At(u, p) = node.kind
  BY <1>1 DEF At
<1>3. \A q : q # p => At(u, q) = At(t, q)
  BY <1>1 DEF At
<1>4. QED
  BY <1>2, <1>3 DEF u

LEMMA PutIs ==
  ASSUME NEW t, IsFileSystem(t), NEW p \in Seq(STRING), p # Slash, At(t, Front(p)) = "dir",
         NEW node \in FileNode, At(t, p) = "dir" => node.kind = "dir"
  PROVE  IsFileSystem(Put(t, p, node))
<1> DEFINE u == Put(t, p, node)
<1>1. /\ DOMAIN u = DOMAIN t \cup {p} /\ u[p] = node
      /\ \A q \in DOMAIN t : q # p => u[q] = t[q]
  BY DEF Put
<1>2. At(u, p) = node.kind
  BY PutAt
<1>3. \A q : q # p => At(u, q) = At(t, q)
  BY PutAt
<1> HIDE DEF u
<1>4. ASSUME NEW q \in DOMAIN u
      PROVE  q \in Seq(STRING) /\ q # Slash /\ u[q] \in FileNode /\ At(u, Front(q)) = "dir"
  <2>1. q \in Seq(STRING) /\ q # Slash /\ u[q] \in FileNode
    BY <1>1 DEF IsFileSystem
  <2>2. At(t, Front(q)) = "dir"
    BY <1>1 DEF IsFileSystem
  <2>3. At(u, Front(q)) = "dir"
    <3>1. CASE Front(q) = p
      BY <3>1, <2>2, <1>2
    <3>2. CASE Front(q) # p
      BY <3>2, <2>2, <1>3
    <3> QED BY <3>1, <3>2
  <2> QED BY <2>1, <2>3
<1>5. QED
  BY <1>4 DEF IsFileSystem, u

\* What is new changes nothing that was there.
LEMMA PutNew ==
  ASSUME NEW t, NEW p, p \notin DOMAIN t, NEW node
  PROVE  Extends(t, Put(t, p, node))
  BY DEF Extends, Put

Pruned(t, p, u) ==
  /\ \A q : q \in DOMAIN u <=> q \in DOMAIN t /\ ~IsPrefix(p, q)
  /\ \A q \in DOMAIN u : u[q] = t[q]

LEMMA DropIs ==
  ASSUME NEW t, IsFileSystem(t), NEW p \in Seq(STRING)
  PROVE  /\ IsFileSystem(Drop(t, p)) /\ Pruned(t, p, Drop(t, p))
         /\ \A q : ~IsPrefix(p, q) => At(Drop(t, p), q) = At(t, q)
<1> DEFINE u == Drop(t, p)
<1>1. /\ DOMAIN u = DOMAIN t \ Below(t, p) /\ \A q \in DOMAIN u : u[q] = t[q]
  BY DEF Drop
<1> HIDE DEF u
<1>2. \A q \in DOMAIN t : q \in DOMAIN u <=> ~IsPrefix(p, q)
  BY <1>1 DEF Below
<1>3. \A q : ~IsPrefix(p, q) => At(u, q) = At(t, q)
  BY <1>1, <1>2 DEF At
<1>4. ASSUME NEW q \in DOMAIN u
      PROVE  q \in Seq(STRING) /\ q # Slash /\ u[q] \in FileNode /\ At(u, Front(q)) = "dir"
  <2>1. q \in DOMAIN t /\ u[q] = t[q] /\ ~IsPrefix(p, q)
    BY <1>1, <1>2
  <2>2. q \in Seq(STRING) /\ q # Slash /\ u[q] \in FileNode /\ At(t, Front(q)) = "dir"
    BY <2>1 DEF IsFileSystem
  <2>3. ~IsPrefix(p, Front(q))
    BY <2>1, <2>2, PrefixFront
  <2> QED BY <2>2, <2>3, <1>3
<1>5. IsFileSystem(u)
  BY <1>4 DEF IsFileSystem
<1>6. Pruned(t, p, u)
  BY <1>1, <1>2 DEF Pruned
<1>7. QED
  BY <1>3, <1>5, <1>6 DEF u

\* Nothing lies in what is no directory.
LEMMA NothingBelow ==
  ASSUME NEW t, IsFileSystem(t), NEW p \in Seq(STRING), At(t, p) # "dir", NEW q \in DOMAIN t, IsPrefix(p, q)
  PROVE  q = p
<1>1. q \in Seq(STRING) /\ q # Slash /\ Leading(t, q, Len(q) - 1)
  BY WayDown
<1>2. Len(p) \in Nat /\ Len(q) \in Nat /\ Len(p) <= Len(q) /\ SubSeq(p, 1, Len(p)) = SubSeq(q, 1, Len(p))
  BY <1>1 DEF IsPrefix
<1>3. SubSeq(p, 1, Len(p)) = p /\ SubSeq(q, 1, Len(q)) = q
  BY <1>1, WholePrefix
<1>4. p # Slash
  BY DEF At
<1>5. Len(p) # 0
  BY <1>4, EmptySeq DEF Slash
<1>6. SUFFICES ASSUME Len(p) # Len(q) PROVE FALSE
  BY <1>2, <1>3
<1>7. Len(p) \in 1..Len(q) - 1
  BY <1>2, <1>5, <1>6
<1>8. At(t, SubSeq(q, 1, Len(p))) = "dir"
  BY <1>7, <1>1 DEF Leading
<1>9. QED
  BY <1>8, <1>2, <1>3

SameKinds(t, u) == DOMAIN u = DOMAIN t /\ \A q \in DOMAIN t : u[q].kind = t[q].kind /\ u[q].to = t[q].to

LEMMA SealIs ==
  ASSUME NEW t, IsFileSystem(t), NEW p \in DOMAIN t
  PROVE  IsFileSystem([t EXCEPT ![p].mode = "sealed"]) /\ SameKinds(t, [t EXCEPT ![p].mode = "sealed"])
<1> DEFINE u == [t EXCEPT ![p].mode = "sealed"]
<1>1. DOMAIN u = DOMAIN t
  OBVIOUS
<1>2. \A q \in DOMAIN t : t[q] \in FileNode
  BY DEF IsFileSystem
<1>3. \A q \in DOMAIN t : u[q] = IF q = p THEN [t[p] EXCEPT !.mode = "sealed"] ELSE t[q]
  OBVIOUS
<1> HIDE DEF u
<1>4. \A q \in DOMAIN t : u[q] \in FileNode /\ u[q].kind = t[q].kind /\ u[q].to = t[q].to
  BY <1>2, <1>3 DEF FileNode, Modes
<1>5. \A q : At(u, q) = At(t, q)
  BY <1>1, <1>4 DEF At
<1>6. IsFileSystem(u)
  BY <1>1, <1>4, <1>5 DEF IsFileSystem
<1>7. SameKinds(t, u)
  BY <1>1, <1>4 DEF SameKinds
<1>8. QED
  BY <1>6, <1>7 DEF u

LEMMA RestConcat ==
  ASSUME NEW p \in Seq(STRING), NEW x \in Seq(STRING)
  PROVE  SubSeq(p \o x, Len(p) + 1, Len(p \o x)) = x
<1> DEFINE s == p \o x
           y == SubSeq(s, Len(p) + 1, Len(s))
<1>1. Len(p) \in Nat /\ Len(x) \in Nat /\ Len(p) \in 0..Len(p)
  OBVIOUS
<1>2. s \in Seq(STRING) /\ Len(s) = Len(p) + Len(x) /\ SubSeq(s, 1, Len(p)) = SubSeq(p, 1, Len(p))
  BY <1>1, ConcatPrefix
<1> HIDE DEF s
<1>3. Len(p) \in 0..Len(s)
  BY <1>1, <1>2
<1>4. y \in Seq(STRING) /\ SubSeq(s, 1, Len(p)) \o y = s
  BY <1>2, <1>3, RestOf
<1> HIDE DEF y
<1>5. p \o y = p \o x
  BY <1>2, <1>4, WholePrefix DEF s
<1>6. y = x
  BY <1>4, <1>5, SameRest
<1>7. QED
  BY <1>6 DEF y, s

LEMMA FrontConcat ==
  ASSUME NEW p \in Seq(STRING), NEW x \in Seq(STRING), x # Slash
  PROVE  p \o x # Slash /\ Front(p \o x) = p \o Front(x) /\ Last(p \o x) = Last(x)
<1>1. Len(p) \in Nat /\ Len(x) \in Nat /\ Len(x) # 0
  BY EmptySeq DEF Slash
<1> DEFINE r == p \o x
           a == Front(r)
<1>2. /\ r \in Seq(STRING) /\ Len(r) = Len(p) + Len(x)
      /\ \A i \in 1..Len(p) : r[i] = p[i]
      /\ \A j \in 1..Len(x) : r[Len(p) + j] = x[j]
  BY ConcatProperties
<1> HIDE DEF r
<1>3. Len(r) # 0 /\ r # <<>>
  <2>1. Len(r) # 0
    BY <1>1, <1>2
  <2> QED BY <2>1, <1>2, EmptySeq
<1>4. /\ a \in Seq(STRING) /\ Len(a) = Len(r) - 1 /\ \A i \in 1..Len(r) - 1 : a[i] = r[i]
  BY <1>2, <1>3, FrontOf
<1>5. /\ Front(x) \in Seq(STRING) /\ Len(Front(x)) = Len(x) - 1 /\ \A i \in 1..Len(x) - 1 : Front(x)[i] = x[i]
  BY FrontOf DEF Slash
<1> DEFINE f == Front(x)
           b == p \o f
<1>6. /\ b \in Seq(STRING) /\ Len(b) = Len(p) + Len(f)
      /\ \A i \in 1..Len(p) : b[i] = p[i]
      /\ \A j \in 1..Len(f) : b[Len(p) + j] = f[j]
  <2>1. f \in Seq(STRING)
    BY <1>5
  <2> HIDE DEF f
  <2> QED BY <2>1, ConcatProperties
<1> HIDE DEF a, b, f
<1>7. Len(a) = Len(b) /\ Len(a) = Len(p) + Len(x) - 1
  BY <1>1, <1>2, <1>4, <1>5, <1>6 DEF f
<1>8. ASSUME NEW i \in 1..Len(a) PROVE a[i] = b[i]
  <2>1. i \in 1..Len(r) - 1 /\ a[i] = r[i]
    BY <1>1, <1>2, <1>4, <1>7
  <2>2. CASE i <= Len(p)
    <3>1. i \in 1..Len(p)
      BY <2>2, <1>1
    <3> QED BY <3>1, <2>1, <1>2, <1>6
  <2>3. CASE i > Len(p)
    <3>1. i - Len(p) \in 1..Len(x) - 1 /\ i - Len(p) \in 1..Len(x) /\ Len(p) + (i - Len(p)) = i
      BY <2>3, <1>1, <1>7
    <3>2. r[Len(p) + (i - Len(p))] = x[i - Len(p)]
      BY <3>1, <1>2
    <3>3. i - Len(p) \in 1..Len(f) /\ f[i - Len(p)] = x[i - Len(p)]
      BY <3>1, <1>5 DEF f
    <3>4. b[Len(p) + (i - Len(p))] = f[i - Len(p)]
      BY <3>3, <1>6
    <3> QED BY <2>1, <3>1, <3>2, <3>3, <3>4
  <2> QED BY <2>2, <2>3, <1>1
<1>9. a = b
  BY <1>4, <1>6, <1>7, <1>8, SameSeq
<1>10. Last(r) = Last(x)
  <2>1. Len(x) \in 1..Len(x)
    BY <1>1
  <2>2. r[Len(p) + Len(x)] = x[Len(x)]
    BY <2>1, <1>2
  <2> QED BY <2>2, <1>2 DEF Last
<1>11. QED
  BY <1>3, <1>9, <1>10 DEF a, b, f, r, Slash

\* A path that has a prefix is put together from it.
LEMMA PrefixRest ==
  ASSUME NEW p \in Seq(STRING), NEW s \in Seq(STRING), IsPrefix(p, s)
  PROVE  \E x \in Seq(STRING) : s = p \o x
<1>1. Len(p) \in Nat /\ Len(s) \in Nat /\ Len(p) <= Len(s) /\ SubSeq(p, 1, Len(p)) = SubSeq(s, 1, Len(p))
  BY DEF IsPrefix
<1>2. Len(p) \in 0..Len(s)
  BY <1>1
<1>3. SubSeq(s, Len(p) + 1, Len(s)) \in Seq(STRING) /\ SubSeq(s, 1, Len(p)) \o SubSeq(s, Len(p) + 1, Len(s)) = s
  BY <1>2, RestOf
<1>4. SubSeq(p, 1, Len(p)) = p
  BY WholePrefix
<1>5. QED
  BY <1>1, <1>3, <1>4

\* Where a moved subtree and all else is then.
Relocated(t, p, q, u) ==
  \A r \in DOMAIN u : \/ r \in DOMAIN t /\ u[r] = t[r]
                      \/ \E x \in Seq(STRING) : p \o x \in DOMAIN t /\ r = q \o x /\ u[r] = t[p \o x]

LEMMA MovedIs ==
  ASSUME NEW t, IsFileSystem(t), NEW p \in DOMAIN t, NEW q \in Seq(STRING), q # Slash,
         q \notin DOMAIN t, At(t, Front(q)) = "dir", ~IsPrefix(p, q)
  PROVE  IsFileSystem(Moved(t, p, q)) /\ Relocated(t, p, q, Moved(t, p, q))
<1> DEFINE u == Moved(t, p, q)
<1>1. p \in Seq(STRING) /\ p # Slash
  BY DEF IsFileSystem
<1>2. DOMAIN u = (DOMAIN t \ Below(t, p)) \cup {q \o SubSeq(s, Len(p) + 1, Len(s)) : s \in Below(t, p)}
  BY DEF Moved
<1>3. \A r \in DOMAIN u : u[r] = IF IsPrefix(q, r) THEN t[p \o SubSeq(r, Len(q) + 1, Len(r))] ELSE t[r]
  BY DEF Moved
<1> HIDE DEF u
<1>4. ASSUME NEW r \in DOMAIN t PROVE ~IsPrefix(q, r)
  <2> SUFFICES ASSUME IsPrefix(q, r) PROVE FALSE
    OBVIOUS
  <2>1. r \in Seq(STRING) /\ r # Slash /\ Leading(t, r, Len(r) - 1)
    BY WayDown
  <2>2. Stands(t, r) \/ At(t, r) = "link"
    <3>1. At(t, r) \in {"dir", "file", "link"}
      BY <2>1 DEF At, IsFileSystem, FileNode
    <3> QED BY <3>1, <2>1 DEF Stands
  <2>3. PICK x \in Seq(STRING) : r = q \o x
    BY <2>1, PrefixRest
  <2>4. x # Slash
    <3> SUFFICES ASSUME x = Slash PROVE FALSE
      OBVIOUS
    <3>1. q \o <<>> = q
      BY ConcatEmptySeq
    <3> QED BY <3>1, <2>3 DEF Slash
  <2>5. Len(q) \in Nat /\ Len(x) \in Nat /\ Len(x) # 0 /\ Len(q) # 0
    BY <2>4, EmptySeq DEF Slash
  <2>6. Len(r) = Len(q) + Len(x) /\ SubSeq(r, 1, Len(q)) = SubSeq(q, 1, Len(q))
    <3>1. Len(q) \in 0..Len(q)
      BY <2>5
    <3> QED BY <2>3, <3>1, ConcatPrefix
  <2>7. Len(q) \in 1..Len(r) - 1
    BY <2>5, <2>6
  <2>8. At(t, q) = "dir"
    BY <2>1, <2>6, <2>7, WholePrefix DEF Leading
  <2> QED BY <2>8 DEF At
<1>5. ASSUME NEW x \in Seq(STRING), p \o x \in DOMAIN t
      PROVE  q \o x \in DOMAIN u /\ u[q \o x] = t[p \o x]
  <2>1. p \o x \in Below(t, p)
    BY <1>1, <1>5, PrefixConcat DEF Below
  <2>2. SubSeq(p \o x, Len(p) + 1, Len(p \o x)) = x
    BY <1>1, RestConcat
  <2>3. q \o x \in DOMAIN u
    BY <1>2, <2>1, <2>2
  <2>4. IsPrefix(q, q \o x)
    BY PrefixConcat
  <2>5. SubSeq(q \o x, Len(q) + 1, Len(q \o x)) = x
    BY RestConcat
  <2> QED BY <1>3, <2>3, <2>4, <2>5
<1>6. ASSUME NEW r \in DOMAIN t, ~IsPrefix(p, r) PROVE r \in DOMAIN u /\ u[r] = t[r]
  <2>1. r \in DOMAIN u
    BY <1>2, <1>6 DEF Below
  <2> QED BY <2>1, <1>3, <1>4
<1>7. ASSUME NEW r \in DOMAIN u
      PROVE  \/ r \in DOMAIN t /\ ~IsPrefix(p, r)
             \/ \E x \in Seq(STRING) : p \o x \in DOMAIN t /\ r = q \o x
  <2>1. CASE r \in DOMAIN t \ Below(t, p)
    BY <2>1 DEF Below
  <2>2. CASE r \in {q \o SubSeq(s, Len(p) + 1, Len(s)) : s \in Below(t, p)}
    <3>1. PICK s \in Below(t, p) : r = q \o SubSeq(s, Len(p) + 1, Len(s))
      BY <2>2
    <3>2. s \in DOMAIN t /\ IsPrefix(p, s) /\ s \in Seq(STRING)
      BY DEF Below, IsFileSystem
    <3>3. PICK x \in Seq(STRING) : s = p \o x
      BY <1>1, <3>2, PrefixRest
    <3>4. SubSeq(s, Len(p) + 1, Len(s)) = x
      BY <1>1, <3>3, RestConcat
    <3> QED BY <3>1, <3>2, <3>3, <3>4
  <2> QED BY <2>1, <2>2, <1>2
<1>8. ASSUME NEW s, ~IsPrefix(p, s), At(t, s) = "dir" PROVE At(u, s) = "dir"
  BY <1>6, <1>8 DEF At
<1>9. ASSUME NEW r \in DOMAIN u
      PROVE  r \in Seq(STRING) /\ r # Slash /\ u[r] \in FileNode /\ At(u, Front(r)) = "dir"
  <2>1. CASE r \in DOMAIN t /\ ~IsPrefix(p, r)
    <3>1. r \in Seq(STRING) /\ r # Slash /\ u[r] \in FileNode /\ At(t, Front(r)) = "dir"
      BY <2>1, <1>6 DEF IsFileSystem
    <3>2. ~IsPrefix(p, Front(r))
      BY <2>1, <3>1, <1>1, PrefixFront
    <3> QED BY <3>1, <3>2, <1>8
  <2>2. CASE \E x \in Seq(STRING) : p \o x \in DOMAIN t /\ r = q \o x
    <3>1. PICK x \in Seq(STRING) : p \o x \in DOMAIN t /\ r = q \o x
      BY <2>2
    <3>2. u[r] \in FileNode /\ r \in Seq(STRING)
      BY <1>5, <3>1, ConcatProperties DEF IsFileSystem
    <3>3. CASE x = Slash
      <4>1. r = q
        BY <3>1, <3>3, ConcatEmptySeq DEF Slash
      <4>2. ~IsPrefix(p, Front(q))
        BY <1>1, PrefixFront
      <4> QED BY <4>1, <4>2, <3>2, <1>8
    <3>4. CASE x # Slash
      <4>1. Front(x) \in Seq(STRING)
        BY <3>4, FrontOf DEF Slash
      <4>2. r # Slash /\ Front(r) = q \o Front(x) /\ Front(p \o x) = p \o Front(x)
        BY <1>1, <3>1, <3>4, FrontConcat
      <4>3. At(t, p \o Front(x)) = "dir"
        BY <3>1, <4>2 DEF IsFileSystem
      <4>4. p \o Front(x) # Slash
        <5>1. p \o Front(x) = <<>> => p = <<>>
          BY <1>1, <4>1, ConcatEmptySeq
        <5> QED BY <5>1, <1>1 DEF Slash
      <4>5. p \o Front(x) \in DOMAIN t /\ t[p \o Front(x)].kind = "dir"
        BY <4>3, <4>4 DEF At
      <4>6. q \o Front(x) \in DOMAIN u /\ u[q \o Front(x)].kind = "dir"
        BY <1>5, <4>1, <4>5
      <4>7. At(u, Front(r)) = "dir"
        BY <4>2, <4>6 DEF At
      <4> QED BY <3>2, <4>2, <4>7
    <3> QED BY <3>3, <3>4
  <2> QED BY <2>1, <2>2, <1>7
<1>10. IsFileSystem(u)
  BY <1>9 DEF IsFileSystem
<1>11. Relocated(t, p, q, u)
  <2>1. ASSUME NEW r \in DOMAIN u
        PROVE  \/ r \in DOMAIN t /\ u[r] = t[r]
               \/ \E x \in Seq(STRING) : p \o x \in DOMAIN t /\ r = q \o x /\ u[r] = t[p \o x]
    BY <1>5, <1>6, <1>7
  <2> QED BY <2>1 DEF Relocated
<1>12. QED
  BY <1>10, <1>11 DEF u

-----------------------------------------------------------------------------
(* Where a push goes. *)

\* A walk ends at the first name that is not there.
LEMMA AbsentEval ==
  ASSUME NEW t, IsFileSystem(t), NEW w \in Seq(STRING), NEW n \in 1..Len(w), Leading(t, w, n - 1),
         At(t, SubSeq(w, 1, n)) = "absent"
  PROVE  EvalSymlinks(t, w) = Outcome("absent", SubSeq(w, 1, n))
<1>1. Len(w) \in Nat /\ n \in 1..Len(w) + 1 /\ n <= Len(w)
  OBVIOUS
<1>2. Stop(t, w) = n
  BY <1>1, StopAt
<1>3. Missed(t, w)
  BY <1>1, <1>2 DEF Missed
<1>4. PastLink(t, w) = w
  BY <1>3, MissedEnds
<1>5. Walk(t, w)[0] = w
  BY WalkIs
<1>6. 0 \in 0..MaxLinks
  BY AccessAssumption
<1>7. Walk(t, w)[MaxLinks] = w
  BY <1>4, <1>5, <1>6, WalkStays
<1>8. Ends(t, w) = Outcome("absent", SubSeq(w, 1, n))
  BY <1>1, <1>2 DEF Ends
<1>9. QED
  BY <1>7, <1>8 DEF EvalSymlinks

LEMMA EvalAbsent ==
  ASSUME NEW t, IsFileSystem(t), NEW p \in Seq(STRING), EvalSymlinks(t, p).status = "absent"
  PROVE  At(t, EvalSymlinks(t, p).path) = "absent"
<1> DEFINE w == Walk(t, p)[MaxLinks]
<1>1. MaxLinks \in 0..MaxLinks
  BY AccessAssumption
<1>2. w \in Seq(STRING)
  BY <1>1, WalkIs
<1>3. EvalSymlinks(t, p) = Ends(t, w)
  BY DEF EvalSymlinks
<1> HIDE DEF w
<1>4. Ends(t, w).status = "absent"
  BY <1>3
<1>5. PICK n \in 1..Len(w) : Ends(t, w).path = SubSeq(w, 1, n) /\ At(t, SubSeq(w, 1, n)) = "absent"
  BY <1>2, <1>4, EndsIs
<1>6. QED
  BY <1>3, <1>5

\* What is there resolves to the same when more is created.
LEMMA LstatKept ==
  ASSUME NEW t, NEW u, IsFileSystem(t), IsFileSystem(u), Extends(t, u),
         NEW p \in Seq(STRING), Lstat(t, p).status = "ok"
  PROVE  Lstat(u, p) = Lstat(t, p)
<1>1. CASE p = Slash
  BY <1>1 DEF Lstat
<1>2. CASE p # Slash
  <2> DEFINE d == EvalSymlinks(t, Front(p))
             z == Last(p)
  <2>1. Front(p) \in Seq(STRING) /\ z \in STRING
    BY <1>2, FrontLast DEF Slash
  <2>2. Lstat(t, p) = Looked(t, d, z) /\ Lstat(u, p) = Looked(u, EvalSymlinks(u, Front(p)), z)
    BY <1>2 DEF Lstat
  <2>3. d.status = "ok"
    BY <2>2 DEF Looked
  <2>4. EvalSymlinks(u, Front(p)) = d
    BY <2>1, <2>3, EvalKept
  <2> HIDE DEF d, z
  <2>5. At(t, d.path) = "dir" /\ At(t, Append(d.path, z)) # "absent"
    BY <2>2, <2>3 DEF Looked, Outcome
  <2>6. At(u, d.path) = "dir" /\ At(u, Append(d.path, z)) # "absent"
    BY <2>5, AtKept
  <2> QED BY <2>2, <2>3, <2>4, <2>5, <2>6 DEF Looked
<1>3. QED
  BY <1>1, <1>2

LEMMA AnchorIs ==
  ASSUME NEW t, NEW p \in Seq(STRING)
  PROVE  \E n \in 0..Len(p) :
           /\ Anchor(t, p) = SubSeq(p, 1, n) /\ Lstat(t, SubSeq(p, 1, n)).status # "absent"
           /\ \A j \in n + 1..Len(p) : Lstat(t, SubSeq(p, 1, j)).status = "absent"
<1> DEFINE Reached(n) == Lstat(t, SubSeq(p, 1, n)).status # "absent"
           S == {k \in 0..Len(p) : Reached(k)}
           Furthest(k) == Reached(k) /\ \A j \in k + 1..Len(p) : ~Reached(j)
           n == CHOOSE k \in 0..Len(p) : Furthest(k)
<1>1. Len(p) \in Nat /\ S \subseteq 0..Len(p)
  OBVIOUS
<1>2. 0 \in S
  <2>1. SubSeq(p, 1, 0) = Slash
    BY WholePrefix DEF Slash
  <2>2. Reached(0)
    BY <2>1 DEF Lstat, Outcome
  <2> HIDE DEF Reached
  <2> QED BY <2>2, <1>1
<1> HIDE DEF Reached
<1>3. PICK k \in S : \A j \in k + 1..Len(p) : j \notin S
  <2> HIDE DEF S
  <2> QED BY <1>1, <1>2, Greatest
<1>4. k \in 0..Len(p) /\ Furthest(k)
  <2>1. \A j \in k + 1..Len(p) : j \in 0..Len(p)
    BY <1>1, <1>3
  <2> QED BY <2>1, <1>3
<1> HIDE DEF Furthest
<1>5. n \in 0..Len(p) /\ Furthest(n)
  BY <1>4
<1>6. Anchor(t, p) = SubSeq(p, 1, n)
  BY DEF Anchor, Furthest, Reached
<1> HIDE DEF n
<1>7. QED
  BY <1>5, <1>6 DEF Furthest, Reached

\* The names of p from the nth on are missing in the directory real.
Rest(p, n) == SubSeq(p, n + 1, Len(p))
Fresh(t, real, x) ==
  /\ Stands(t, real) /\ x \in Seq(STRING)
  /\ x = Slash \/ (At(t, real) = "dir" /\ At(t, Append(real, x[1])) = "absent")
Sited(t, roots, p, n, real) ==
  /\ n \in 0..Len(p) /\ real \in Seq(STRING)
  /\ EvalSymlinks(t, SubSeq(p, 1, n)) = Outcome("ok", real)
  /\ Inside(t, roots, real) /\ Fresh(t, real, Rest(p, n))

LEMMA ParentIs ==
  ASSUME NEW t, IsFileSystem(t), NEW roots \in Seq(Seq(STRING)), NEW p \in Seq(STRING),
         ResolveNewParent(t, roots, p) # NoPath
  PROVE  \E n \in 0..Len(p), real \in Seq(STRING) :
           /\ Sited(t, roots, p, n, real)
           /\ ResolveNewParent(t, roots, p) = real \o Rest(p, n)
<1>1. PICK n \in 0..Len(p) :
           /\ Anchor(t, p) = SubSeq(p, 1, n) /\ Lstat(t, SubSeq(p, 1, n)).status # "absent"
           /\ \A j \in n + 1..Len(p) : Lstat(t, SubSeq(p, 1, j)).status = "absent"
  BY AnchorIs
<1> DEFINE probe == SubSeq(p, 1, n)
           real == ResolveWithinRoots(t, roots, probe)
<1>2. probe \in Seq(STRING) /\ Len(probe) = n
  BY PrefixOf
<1>3. real # NoPath /\ ResolveNewParent(t, roots, p) = real \o SubSeq(p, n + 1, Len(p))
  BY <1>1, <1>2 DEF ResolveNewParent
<1>4. EvalSymlinks(t, probe) = Outcome("ok", real) /\ Stands(t, real) /\ Inside(t, roots, real)
  <2> HIDE DEF probe
  <2> QED BY <1>2, <1>3, WithinIs
<1>5. real \in Seq(STRING)
  BY <1>4 DEF Stands
<1> HIDE DEF real
<1>6. Rest(p, n) \in Seq(STRING)
  BY RestOf DEF Rest
<1>7. ASSUME Rest(p, n) # Slash PROVE At(t, real) = "dir" /\ At(t, Append(real, Rest(p, n)[1])) = "absent"
  <2>1. Len(p) \in Nat /\ n # Len(p)
    <3>1. n = Len(p) => Len(Rest(p, n)) = 0
      BY RestOf DEF Rest
    <3> QED BY <3>1, <1>6, <1>7, EmptySeq DEF Slash
  <2>2. n + 1 \in 1..Len(p) /\ n + 1 \in n + 1..Len(p) /\ 1 \in 1..Len(p) - n
    BY <2>1
  <2> DEFINE q == SubSeq(p, 1, n + 1)
  <2>3. q \in Seq(STRING) /\ q # Slash /\ Len(q) = n + 1
    BY <2>2, PrefixNamed
  <2>4. Front(q) = probe
    <3>1. (n + 1) - 1 = n
      OBVIOUS
    <3> QED BY <2>2, <3>1, FrontOfPrefix
  <2>5. Last(q) = Rest(p, n)[1]
    <3>1. q[n + 1] = p[n + 1]
      <4>1. n + 1 \in 0..Len(p) /\ n + 1 \in 1..n + 1
        BY <2>2
      <4> QED BY <4>1, PrefixOf
    <3>2. Rest(p, n)[1] = p[n + 1]
      BY <2>2, RestOf DEF Rest
    <3> QED BY <3>1, <3>2, <2>3 DEF Last
  <2>6. Lstat(t, q).status = "absent"
    BY <1>1, <2>2
  <2> HIDE DEF q, probe
  <2>7. At(t, real) = "dir" /\ At(t, Append(real, Last(q))) = "absent"
    BY <2>3, <2>4, <2>6, <1>4, <1>5, LstatIs
  <2> QED BY <2>5, <2>7
<1>8. Sited(t, roots, p, n, real)
  BY <1>4, <1>5, <1>6, <1>7 DEF Sited, Fresh
<1>9. QED
  BY <1>3, <1>5, <1>8 DEF Rest

\* The prefixes of a path that is put together, from where the second part begins.
LEMMA PrefixAppend ==
  ASSUME NEW s \in Seq(STRING), NEW n \in 1..Len(s)
  PROVE  SubSeq(s, 1, n) = Append(SubSeq(s, 1, n - 1), s[n]) /\ SubSeq(s, 1, n - 1) \in Seq(STRING) /\ s[n] \in STRING
<1> DEFINE q == SubSeq(s, 1, n)
<1>1. q \in Seq(STRING) /\ q # Slash /\ Len(q) = n
  BY PrefixNamed
<1>2. Front(q) = SubSeq(s, 1, n - 1)
  BY FrontOfPrefix
<1>3. n \in 0..Len(s) /\ n \in 1..n
  OBVIOUS
<1>4. q[n] = s[n]
  BY <1>3, PrefixOf
<1>5. Append(Front(q), Last(q)) = q /\ Front(q) \in Seq(STRING)
  BY <1>1, FrontLast DEF Slash
<1>6. QED
  BY <1>1, <1>2, <1>4, <1>5 DEF Last

LEMMA ConcatFirst ==
  ASSUME NEW p \in Seq(STRING), NEW x \in Seq(STRING), x # Slash
  PROVE  /\ Len(p) + 1 \in 1..Len(p \o x) /\ SubSeq(p \o x, 1, Len(p) + 1) = Append(p, x[1])
         /\ SubSeq(p \o x, 1, Len(p)) = p
<1> DEFINE s == p \o x
<1>1. Len(p) \in Nat /\ Len(x) \in Nat /\ Len(x) # 0
  BY EmptySeq DEF Slash
<1>2. /\ s \in Seq(STRING) /\ Len(s) = Len(p) + Len(x)
      /\ \A j \in 1..Len(x) : s[Len(p) + j] = x[j]
  BY ConcatProperties
<1>3. SubSeq(s, 1, Len(p)) = p
  <2>1. Len(p) \in 0..Len(p)
    BY <1>1
  <2>2. SubSeq(s, 1, Len(p)) = SubSeq(p, 1, Len(p))
    BY <2>1, ConcatPrefix
  <2> QED BY <2>2, WholePrefix
<1> HIDE DEF s
<1>4. Len(p) + 1 \in 1..Len(s) /\ 1 \in 1..Len(x) /\ (Len(p) + 1) - 1 = Len(p)
  BY <1>1, <1>2
<1>5. SubSeq(s, 1, Len(p) + 1) = Append(SubSeq(s, 1, Len(p)), s[Len(p) + 1])
  BY <1>2, <1>4, PrefixAppend
<1>6. QED
  BY <1>2, <1>3, <1>4, <1>5 DEF s

\* Nothing is there from the first missing name on.
LEMMA FreshAbsent ==
  ASSUME NEW t, IsFileSystem(t), NEW real \in Seq(STRING), NEW x, Fresh(t, real, x),
         NEW j \in Len(real) + 1..Len(real \o x)
  PROVE  /\ EvalSymlinks(t, SubSeq(real \o x, 1, j)) = Outcome("absent", Append(real, x[1]))
         /\ At(t, SubSeq(real \o x, 1, j)) = "absent" /\ x # Slash
<1> DEFINE s == real \o x
           w == SubSeq(s, 1, j)
           k == Len(real) + 1
           missing == Append(real, x[1])
<1>1. x \in Seq(STRING) /\ Len(real) \in Nat /\ Len(x) \in Nat
  BY DEF Fresh
<1>2. s \in Seq(STRING) /\ Len(s) = Len(real) + Len(x)
  BY <1>1, ConcatProperties
<1>3. Len(x) # 0 /\ x # Slash
  <2>1. Len(x) # 0
    BY <1>1, <1>2
  <2> QED BY <2>1, <1>1, EmptySeq DEF Slash
<1>4. At(t, real) = "dir" /\ At(t, missing) = "absent" /\ Leading(t, real, Len(real) - 1)
  BY <1>3 DEF Fresh, Stands
<1>5. k \in 1..Len(s) /\ SubSeq(s, 1, k) = missing /\ SubSeq(s, 1, Len(real)) = real
  BY <1>1, <1>3, ConcatFirst
<1> HIDE DEF s, missing
<1>6. j \in 1..Len(s) /\ j \in 0..Len(s) /\ k \in 1..j /\ k \in 0..j
  BY <1>1, <1>2 DEF s
<1>7. w \in Seq(STRING) /\ w # Slash /\ Len(w) = j
  BY <1>2, <1>6, PrefixNamed
<1>8. \A m \in 0..j : SubSeq(w, 1, m) = SubSeq(s, 1, m)
  BY <1>2, <1>6, PrefixOfPrefix
<1> HIDE DEF w
<1>9. Leading(t, w, k - 1)
  <2> SUFFICES ASSUME NEW m \in 1..Len(real) PROVE At(t, SubSeq(w, 1, m)) = "dir"
    BY <1>1 DEF Leading
  <2>1. m \in 0..j /\ m \in 0..Len(real) /\ Len(real) \in 0..Len(s)
    BY <1>1, <1>6
  <2>2. SubSeq(w, 1, m) = SubSeq(real, 1, m)
    BY <2>1, <1>2, <1>5, <1>8, PrefixOfPrefix
  <2>3. CASE m = Len(real)
    BY <2>2, <2>3, <1>4, WholePrefix
  <2>4. CASE m # Len(real)
    <3>1. m \in 1..Len(real) - 1
      BY <2>4, <1>1
    <3> QED BY <3>1, <2>2, <1>4 DEF Leading
  <2> QED BY <2>3, <2>4
<1>10. SubSeq(w, 1, k) = missing
  BY <1>5, <1>6, <1>8
<1>11. EvalSymlinks(t, w) = Outcome("absent", missing)
  BY <1>4, <1>6, <1>7, <1>9, <1>10, AbsentEval
<1>12. At(t, w) = "absent"
  <2> SUFFICES ASSUME At(t, w) # "absent" PROVE FALSE
    OBVIOUS
  <2>1. w \in DOMAIN t
    BY <1>7 DEF At
  <2>2. Leading(t, w, Len(w) - 1)
    BY <2>1, WayDown
  <2>3. CASE k = j
    BY <2>3, <1>4, <1>7, <1>10, WholePrefix
  <2>4. CASE k # j
    <3>1. k \in 1..Len(w) - 1
      BY <2>4, <1>1, <1>6, <1>7
    <3> QED BY <3>1, <2>2, <1>10, <1>4 DEF Leading
  <2> QED BY <2>3, <2>4
<1>13. QED
  BY <1>3, <1>11, <1>12 DEF w, s, missing

\* The directory a push takes its permissions from.
LEMMA NearestIs ==
  ASSUME NEW t, IsFileSystem(t), NEW real \in Seq(STRING), NEW x, Fresh(t, real, x),
         NearestExistingDir(t, real \o x) # NoPath
  PROVE  NearestExistingDir(t, real \o x) = real /\ At(t, real) = "dir"
<1> DEFINE p == real \o x
           Found(n) == EvalSymlinks(t, SubSeq(p, 1, n)).status # "absent"
           Furthest(k) == Found(k) /\ \A j \in k + 1..Len(p) : ~Found(j)
           n == CHOOSE k \in 0..Len(p) : Furthest(k)
           d == EvalSymlinks(t, SubSeq(p, 1, n))
<1>1. x \in Seq(STRING) /\ Len(real) \in Nat /\ Len(x) \in Nat /\ Stands(t, real)
  BY DEF Fresh
<1>2. p \in Seq(STRING) /\ Len(p) = Len(real) + Len(x) /\ SubSeq(p, 1, Len(real)) = real
  <2>1. Len(real) \in 0..Len(real)
    BY <1>1
  <2>2. SubSeq(p, 1, Len(real)) = SubSeq(real, 1, Len(real)) /\ p \in Seq(STRING) /\ Len(p) = Len(real) + Len(x)
    BY <2>1, <1>1, ConcatPrefix
  <2> QED BY <2>2, WholePrefix
<1>3. Len(real) \in 0..Len(p)
  BY <1>1, <1>2
<1>4. EvalSymlinks(t, real) = Outcome("ok", real)
  BY <1>1, StandsEval
<1>5. Furthest(Len(real))
  <2>1. Found(Len(real))
    <3>1. EvalSymlinks(t, SubSeq(p, 1, Len(real))) = Outcome("ok", real)
      <4> HIDE DEF p
      <4> QED BY <1>2, <1>4
    <3> HIDE DEF p
    <3> QED BY <3>1 DEF Outcome
  <2>2. \A j \in Len(real) + 1..Len(p) : ~Found(j)
    <3> TAKE j \in Len(real) + 1..Len(p)
    <3>1. EvalSymlinks(t, SubSeq(p, 1, j)) = Outcome("absent", Append(real, x[1]))
      BY FreshAbsent
    <3> QED BY <3>1 DEF Outcome
  <2> QED BY <2>1, <2>2
<1>6. NearestExistingDir(t, p) = IF d.status = "ok" /\ At(t, d.path) = "dir" THEN d.path ELSE NoPath
  BY DEF NearestExistingDir
<1> HIDE DEF p, Found
<1>7. n \in 0..Len(p) /\ Furthest(n)
  <2> HIDE DEF Furthest
  <2> QED BY <1>3, <1>5
<1> HIDE DEF n
<1>8. n = Len(real)
  <2>1. ~(n > Len(real))
    BY <1>1, <1>5, <1>7, <1>2
  <2>2. ~(n < Len(real))
    BY <1>1, <1>3, <1>5, <1>7
  <2> QED BY <2>1, <2>2, <1>1, <1>7
<1>9. d = Outcome("ok", real)
  BY <1>2, <1>4, <1>8
<1>10. QED
  BY <1>6, <1>9 DEF Outcome, p

\* What is there stands where it is.
LEMMA ThereStands ==
  ASSUME NEW t, IsFileSystem(t), NEW q \in Seq(STRING), At(t, q) \in {"dir", "file"}
  PROVE  Stands(t, q)
<1>1. CASE q = Slash
  <2>1. Len(q) = 0
    BY <1>1, EmptySeq DEF Slash
  <2> QED BY <2>1 DEF Stands, Leading
<1>2. CASE q # Slash
  <2>1. q \in DOMAIN t
    BY <1>2 DEF At
  <2> QED BY <2>1, WayDown DEF Stands
<1>3. QED
  BY <1>1, <1>2

\* Resolved again when the missing directories are there, the parent is what it was.
LEMMA ParentAgain ==
  ASSUME NEW t, NEW u, IsFileSystem(t), IsFileSystem(u), Extends(t, u),
         NEW roots \in Seq(Seq(STRING)), NEW p \in Seq(STRING), NEW n, NEW real,
         Sited(t, roots, p, n, real), Rest(p, n) # Slash, At(u, real \o Rest(p, n)) = "dir"
  PROVE  ResolveNewParent(u, roots, p) = real \o Rest(p, n)
<1> DEFINE x == Rest(p, n)
           probe == SubSeq(p, 1, n)
           y == real \o x
<1>1. /\ n \in 0..Len(p) /\ real \in Seq(STRING) /\ EvalSymlinks(t, probe) = Outcome("ok", real)
      /\ Inside(t, roots, real) /\ x \in Seq(STRING) /\ x # Slash
  BY DEF Sited, Fresh
<1>2. probe \in Seq(STRING) /\ p = probe \o x
  BY <1>1, PrefixOf, RestOf DEF Rest
<1>3. y \in Seq(STRING) /\ y # Slash /\ Front(y) = real \o Front(x) /\ Last(y) = Last(x)
  <2> HIDE DEF x
  <2>1. y \in Seq(STRING)
    BY <1>1, ConcatProperties
  <2>2. real \o x # Slash /\ Front(real \o x) = real \o Front(x) /\ Last(real \o x) = Last(x)
    BY <1>1, FrontConcat
  <2> QED BY <2>1, <2>2
<1>4. p # Slash /\ Front(p) = probe \o Front(x) /\ Last(p) = Last(x)
  <2> HIDE DEF x, probe
  <2>1. probe \o x # Slash /\ Front(probe \o x) = probe \o Front(x) /\ Last(probe \o x) = Last(x)
    BY <1>1, <1>2, FrontConcat
  <2> QED BY <2>1, <1>2
<1>5. Front(x) \in Seq(STRING) /\ Front(y) \in Seq(STRING) /\ Front(p) \in Seq(STRING) /\ Append(Front(y), Last(y)) = y
  BY <1>1, <1>3, <1>4, FrontLast DEF Slash
<1>6. At(u, y) = "dir"
  OBVIOUS
<1> HIDE DEF probe, x
<1>7. EvalSymlinks(u, probe) = Outcome("ok", real)
  <2>1. EvalSymlinks(t, probe).status # "absent"
    BY <1>1 DEF Outcome
  <2> QED BY <2>1, <1>1, <1>2, EvalKept
<1>8. Stands(u, y) /\ y \in DOMAIN u
  <2>1. y \in DOMAIN u
    BY <1>3, <1>6 DEF At
  <2> QED BY <2>1, <1>3, <1>6, ThereStands
<1>9. At(u, Front(y)) = "dir" /\ Stands(u, Front(y))
  <2>1. At(u, Front(y)) = "dir"
    BY <1>8 DEF IsFileSystem
  <2> QED BY <2>1, <1>5, ThereStands
<1>10. EvalSymlinks(u, p) = Outcome("ok", y)
  BY <1>1, <1>2, <1>7, <1>8, EvalBelow
<1>11. EvalSymlinks(u, Front(p)) = Outcome("ok", Front(y))
  <2>1. Stands(u, real \o Front(x))
    BY <1>3, <1>9
  <2>2. EvalSymlinks(u, probe \o Front(x)) = Outcome("ok", real \o Front(x))
    BY <2>1, <1>1, <1>2, <1>5, <1>7, EvalBelow
  <2> QED BY <2>2, <1>3, <1>4
<1> HIDE DEF y
<1>12. Lstat(u, p).status = "ok"
  <2>1. At(u, Append(Front(y), Last(p))) # "absent"
    BY <1>3, <1>4, <1>5, <1>6
  <2> QED BY <2>1, <1>4, <1>5, <1>9, <1>11, LstatIs
<1>13. Anchor(u, p) = p
  <2>1. PICK k \in 0..Len(p) :
           /\ Anchor(u, p) = SubSeq(p, 1, k)
           /\ \A j \in k + 1..Len(p) : Lstat(u, SubSeq(p, 1, j)).status = "absent"
    BY AnchorIs
  <2>2. SubSeq(p, 1, Len(p)) = p /\ Len(p) \in Nat
    BY WholePrefix
  <2>3. ~(Len(p) \in k + 1..Len(p))
    <3> SUFFICES ASSUME Len(p) \in k + 1..Len(p) PROVE FALSE
      OBVIOUS
    <3>1. Lstat(u, p).status = "absent"
      BY <2>1, <2>2
    <3> QED BY <3>1, <1>12
  <2>4. k \in 0..Len(p) /\ Len(p) \in Nat
    BY <2>1
  <2>5. k = Len(p)
    BY <2>3, <2>4
  <2> QED BY <2>1, <2>2, <2>5
<1>14. Inside(u, roots, y)
  <2>1. Inside(u, roots, real)
    BY <1>1, InsideKept
  <2>2. IsPrefix(real, y)
    BY <1>1, PrefixConcat DEF y
  <2> QED BY <2>1, <2>2, <1>1, <1>3, InsideBelow
<1>15. ResolveWithinRoots(u, roots, p) = y
  BY <1>10, <1>14, InsideResolves
<1>16. y \o SubSeq(p, Len(p) + 1, Len(p)) = y
  <2>1. Len(p) \in Nat /\ Len(p) \in 0..Len(p) /\ Len(p) - Len(p) = 0
    OBVIOUS
  <2>2. SubSeq(p, Len(p) + 1, Len(p)) \in Seq(STRING) /\ Len(SubSeq(p, Len(p) + 1, Len(p))) = 0
    BY <2>1, RestOf
  <2>3. SubSeq(p, Len(p) + 1, Len(p)) = <<>>
    BY <2>2, EmptySeq
  <2> QED BY <2>3, <1>3, ConcatEmptySeq
<1>17. ~(Len(p) - Len(p) > MaxMissing)
  BY AccessAssumption
<1>18. ResolveNewParent(u, roots, p) = y
  BY <1>12, <1>13, <1>15, <1>16, <1>17 DEF ResolveNewParent
<1>19. QED
  BY <1>18 DEF y, x

\* The path a push asks for.
Asked(pol, r) == Abs(r, IF pol.roots = <<>> THEN Cwd ELSE Head(pol.roots))

LEMMA AskedIs ==
  ASSUME NEW pol, pol.roots \in Seq(Seq(STRING)), NEW r, r.parts \in Seq(STRING)
  PROVE  /\ Asked(pol, r) \in Seq(STRING)
         /\ Ordinary(r.parts) /\ (\A i \in DOMAIN pol.roots : Ordinary(pol.roots[i])) => Ordinary(Asked(pol, r))
<1> DEFINE base == IF pol.roots = <<>> THEN Cwd ELSE Head(pol.roots)
<1>1. Cwd \in Seq(STRING) /\ Ordinary(Cwd)
  BY AccessAssumption DEF Ordinary
<1>2. pol.roots # <<>> => 1 \in DOMAIN pol.roots /\ Head(pol.roots) = pol.roots[1]
  BY EmptySeq
<1>3. base \in Seq(STRING)
  BY <1>1, <1>2
<1>4. (\A i \in DOMAIN pol.roots : Ordinary(pol.roots[i])) => Ordinary(base)
  BY <1>1, <1>2
<1> HIDE DEF base
<1>5. /\ Abs(r, base) \in Seq(STRING)
      /\ Ordinary(r.parts) /\ Ordinary(base) => Ordinary(Abs(r, base))
  BY <1>3, AbsIs
<1>6. QED
  BY <1>4, <1>5 DEF Asked, base

LEMMA WritePathIs ==
  ASSUME NEW t, IsFileSystem(t), NEW pol, pol.roots \in Seq(Seq(STRING)), NEW r, r.parts \in Seq(STRING),
         ResolveWritePath(t, pol, r) # NoPath
  PROVE  /\ Asked(pol, r) \in Seq(STRING) /\ Asked(pol, r) # Slash
         /\ Front(Asked(pol, r)) \in Seq(STRING) /\ Last(Asked(pol, r)) \in STRING
         /\ ResolveNewParent(t, pol.roots, Front(Asked(pol, r))) # NoPath
         /\ ResolveWritePath(t, pol, r) =
              Append(ResolveNewParent(t, pol.roots, Front(Asked(pol, r))), Last(Asked(pol, r)))
         /\ At(t, ResolveWritePath(t, pol, r)) # "link"
<1>1. Asked(pol, r) \in Seq(STRING)
  BY AskedIs
<1>2. /\ Asked(pol, r) # Slash
      /\ ResolveNewParent(t, pol.roots, Front(Asked(pol, r))) # NoPath
      /\ ResolveWritePath(t, pol, r) =
              Append(ResolveNewParent(t, pol.roots, Front(Asked(pol, r))), Last(Asked(pol, r)))
      /\ At(t, ResolveWritePath(t, pol, r)) # "link"
  BY DEF ResolveWritePath, Asked
<1>3. QED
  BY <1>1, <1>2, FrontLast DEF Slash

LEMMA WritePathAgain ==
  ASSUME NEW t, NEW u, NEW pol, NEW r, ResolveWritePath(t, pol, r) # NoPath,
         ResolveNewParent(u, pol.roots, Front(Asked(pol, r))) = ResolveNewParent(t, pol.roots, Front(Asked(pol, r))),
         At(u, ResolveWritePath(t, pol, r)) # "link"
  PROVE  ResolveWritePath(u, pol, r) = ResolveWritePath(t, pol, r)
  BY DEF ResolveWritePath, Asked

-----------------------------------------------------------------------------
(* Creating directories. *)

\* What os.MkdirAll has done so far, begun in t.
Grown(t, m, mode, by) ==
  /\ IsFileSystem(m.tree) /\ Extends(t, m.tree)
  /\ m = Progress(m.tree, m.at, m.ok) /\ m.ok \in BOOLEAN
  /\ m.at \in Seq(STRING) /\ At(m.tree, m.at) = "dir"
  /\ \A q \in DOMAIN m.tree : q \notin DOMAIN t => m.tree[q] = Node("dir", Slash, mode, by)
NamesOrdinary(t) == \A q \in DOMAIN t : Ordinary(q)

LEMMA GrownAtFirst ==
  ASSUME NEW t, IsFileSystem(t), NEW mode, NEW by
  PROVE  Grown(t, Progress(t, Slash, TRUE), mode, by)
<1>1. Slash \in Seq(STRING) /\ At(t, Slash) = "dir"
  BY DEF Slash, At
<1>2. Extends(t, t)
  BY DEF Extends
<1>3. QED
  BY <1>1, <1>2 DEF Grown, Progress

\* One step of it: nothing, a step into what is there, or a new directory.
LEMMA EnterCases ==
  ASSUME NEW m, IsFileSystem(m.tree), NEW name, NEW mode, NEW by, m.at \in Seq(STRING), name \in STRING,
         m.ok \in BOOLEAN
  PROVE  \/ Enter(m, name, mode, by) = m /\ ~m.ok
         \/ /\ m.ok /\ Enter(m, name, mode, by) = Progress(m.tree, m.at, FALSE)
         \/ \E q \in Seq(STRING) : /\ m.ok /\ At(m.tree, q) = "dir"
                                   /\ Enter(m, name, mode, by) = Progress(m.tree, q, TRUE)
         \/ /\ m.ok /\ At(m.tree, Append(m.at, name)) = "absent" /\ Writable(m.tree, m.at)
            /\ Enter(m, name, mode, by) =
                 Progress(Put(m.tree, Append(m.at, name), Node("dir", Slash, mode, by)), Append(m.at, name), TRUE)
<1> DEFINE new == Append(m.at, name)
           found == EvalSymlinks(m.tree, new)
<1>1. new \in Seq(STRING)
  BY AppendIs
<1>2. found.path \in Seq(STRING)
  BY <1>1, EvalIs
<1>3. found = Outcome("absent", new) => At(m.tree, new) = "absent"
  <2> SUFFICES ASSUME found = Outcome("absent", new) PROVE At(m.tree, new) = "absent"
    OBVIOUS
  <2>1. found.status = "absent" /\ found.path = new
    BY DEF Outcome
  <2> HIDE DEF new
  <2> QED BY <2>1, <1>1, EvalAbsent
<1>4. Enter(m, name, mode, by) =
        IF ~m.ok THEN m
        ELSE IF found.status = "ok" /\ At(m.tree, found.path) = "dir"
        THEN Progress(m.tree, found.path, TRUE)
        ELSE IF found = Outcome("absent", new) /\ Writable(m.tree, m.at)
        THEN Progress(Put(m.tree, new, Node("dir", Slash, mode, by)), new, TRUE)
        ELSE Progress(m.tree, m.at, FALSE)
  BY DEF Enter
<1> HIDE DEF found, new
<1>5. CASE ~m.ok
  BY <1>5, <1>4
<1>6. CASE m.ok /\ found.status = "ok" /\ At(m.tree, found.path) = "dir"
  BY <1>6, <1>2, <1>4
<1>7. CASE m.ok /\ ~(found.status = "ok" /\ At(m.tree, found.path) = "dir")
           /\ found = Outcome("absent", new) /\ Writable(m.tree, m.at)
  <2>1. Enter(m, name, mode, by) = Progress(Put(m.tree, new, Node("dir", Slash, mode, by)), new, TRUE)
    BY <1>4, <1>7
  <2>2. At(m.tree, new) = "absent"
    BY <1>3, <1>7
  <2> QED BY <2>1, <2>2, <1>7 DEF new
<1>8. CASE m.ok /\ ~(found.status = "ok" /\ At(m.tree, found.path) = "dir")
           /\ ~(found = Outcome("absent", new) /\ Writable(m.tree, m.at))
  <2>1. Enter(m, name, mode, by) = Progress(m.tree, m.at, FALSE)
    BY <1>4, <1>8
  <2> QED BY <2>1, <1>8
<1>9. QED
  BY <1>5, <1>6, <1>7, <1>8

LEMMA EnterIs ==
  ASSUME NEW t, NEW m, NEW mode \in Modes, NEW by \in {"owner", "push"}, Grown(t, m, mode, by), NEW name \in STRING
  PROVE  /\ Grown(t, Enter(m, name, mode, by), mode, by)
         /\ NamesOrdinary(m.tree) /\ name # TempName => NamesOrdinary(Enter(m, name, mode, by).tree)
<1> DEFINE e == Enter(m, name, mode, by)
           new == Append(m.at, name)
           node == Node("dir", Slash, mode, by)
           u == Put(m.tree, new, node)
<1>1. /\ IsFileSystem(m.tree) /\ Extends(t, m.tree) /\ m.ok \in BOOLEAN
      /\ m.at \in Seq(STRING) /\ At(m.tree, m.at) = "dir"
      /\ \A q \in DOMAIN m.tree : q \notin DOMAIN t => m.tree[q] = node
  BY DEF Grown
<1>2. \/ e = m
      \/ e = Progress(m.tree, m.at, FALSE)
      \/ \E q \in Seq(STRING) : At(m.tree, q) = "dir" /\ e = Progress(m.tree, q, TRUE)
      \/ At(m.tree, new) = "absent" /\ Writable(m.tree, m.at) /\ e = Progress(u, new, TRUE)
  <2>1. \/ e = m /\ ~m.ok
        \/ m.ok /\ e = Progress(m.tree, m.at, FALSE)
        \/ \E q \in Seq(STRING) : m.ok /\ At(m.tree, q) = "dir" /\ e = Progress(m.tree, q, TRUE)
        \/ m.ok /\ At(m.tree, new) = "absent" /\ Writable(m.tree, m.at) /\ e = Progress(u, new, TRUE)
    BY <1>1, EnterCases, Zenon
  <2> HIDE DEF e, u, new
  <2> QED BY <2>1, Zenon
<1> HIDE DEF e
<1>3. CASE e = m
  BY <1>3 DEF e
<1>4. CASE \E q \in Seq(STRING), ok \in BOOLEAN : At(m.tree, q) = "dir" /\ e = Progress(m.tree, q, ok)
  <2>1. PICK q \in Seq(STRING), ok \in BOOLEAN : At(m.tree, q) = "dir" /\ e = Progress(m.tree, q, ok)
    BY <1>4
  <2>2. e.tree = m.tree /\ e.at = q /\ e.ok = ok /\ e = Progress(m.tree, q, ok)
    BY <2>1 DEF Progress
  <2>3. Grown(t, e, mode, by)
    BY <1>1, <2>1, <2>2 DEF Grown
  <2> QED BY <2>2, <2>3 DEF e
<1>5. CASE At(m.tree, new) = "absent" /\ Writable(m.tree, m.at) /\ e = Progress(u, new, TRUE)
  <2>1. new \in Seq(STRING) /\ new # Slash /\ Front(new) = m.at
    BY <1>1, AppendIs
  <2>2. node \in FileNode /\ node.kind = "dir"
    BY DEF Node, FileNode, Slash
  <2>3. new \notin DOMAIN m.tree
    BY <1>1, <1>5, <2>1, AtIs
  <2>0. At(m.tree, Front(new)) = "dir" /\ At(m.tree, new) # "dir"
    BY <1>1, <1>5, <2>1
  <2> HIDE DEF new, node
  <2>4. /\ IsFileSystem(u) /\ DOMAIN u = DOMAIN m.tree \cup {new} /\ u[new] = node /\ At(u, new) = "dir"
        /\ \A q \in DOMAIN m.tree : q # new => u[q] = m.tree[q]
    <3>1. IsFileSystem(u)
      BY <1>1, <2>0, <2>1, <2>2, PutIs
    <3>2. DOMAIN u = DOMAIN m.tree \cup {new} /\ u[new] = node /\ \A q \in DOMAIN m.tree : q # new => u[q] = m.tree[q]
      BY DEF Put
    <3>3. At(u, new) = node.kind
      BY <2>1, PutAt
    <3> QED BY <3>1, <3>2, <3>3, <2>2
  <2>5. e.tree = u /\ e.at = new /\ e.ok = TRUE
    BY <1>5 DEF Progress
  <2> HIDE DEF u
  <2>6. Extends(t, u)
    BY <1>1, <2>3, <2>4 DEF Extends
  <2>7. \A q \in DOMAIN u : q \notin DOMAIN t => u[q] = node
    BY <1>1, <2>4
  <2>8. Grown(t, e, mode, by)
    BY <1>5, <2>1, <2>4, <2>5, <2>6, <2>7 DEF Grown, node
  <2>9. ASSUME NamesOrdinary(m.tree), name # TempName PROVE NamesOrdinary(u)
    <3>1. Ordinary(m.at)
      <4>1. CASE m.at = Slash
        <5>1. DOMAIN Slash = {} /\ Slash \in Seq(STRING)
          BY DEF Slash
        <5> QED BY <4>1, <5>1 DEF Ordinary
      <4>2. CASE m.at # Slash
        BY <4>2, <1>1, <2>9 DEF At, NamesOrdinary
      <4> QED BY <4>1, <4>2
    <3>2. Ordinary(new)
      BY <3>1, <2>9, OrdinaryAppend DEF new
    <3> QED BY <3>2, <2>4, <2>9 DEF NamesOrdinary
  <2> QED BY <2>5, <2>8, <2>9 DEF e
<1>6. QED
  BY <1>1, <1>2, <1>3, <1>4, <1>5

\* os.MkdirAll goes from name to name, and everything it makes is a directory.
Steps(g, t, p, mode, by) ==
  /\ g[0] = Progress(t, Slash, TRUE)
  /\ \A n \in 1..Len(p) : g[n] = Enter(g[n - 1], p[n], mode, by)

LEMMA MkdirIs ==
  ASSUME NEW t, IsFileSystem(t), NEW p \in Seq(STRING), NEW mode \in Modes, NEW by \in {"owner", "push"}
  PROVE  \E g : /\ Steps(g, t, p, mode, by) /\ MkdirAll(t, p, mode, by) = g[Len(p)]
                /\ \A n \in 0..Len(p) : Grown(t, g[n], mode, by)
<1> DEFINE len == Len(p)
           Systems == UNION {[S -> FileNode] : S \in SUBSET Seq(STRING)}
           V == {m \in [tree : {t} \cup Systems, at : Seq(STRING), ok : BOOLEAN] : Grown(t, m, mode, by)}
           base == Progress(t, Slash, TRUE)
           Do(n, m) == Enter(m, p[n], mode, by)
           step == [x \in (1..len) \X V |-> Do(x[1], x[2])]
           Rec(g) == g = [n \in 0..len |-> IF n = 0 THEN base ELSE Do(n, g[n - 1])]
<1>1. len \in Nat /\ \A n \in 1..len : p[n] \in STRING
  OBVIOUS
<1>2. base \in V
  <2>1. base \in [tree : {t} \cup Systems, at : Seq(STRING), ok : BOOLEAN]
    <3> HIDE DEF Systems
    <3> QED BY DEF Progress, Slash
  <2>2. Grown(t, base, mode, by)
    BY GrownAtFirst
  <2> HIDE DEF base, Systems
  <2> QED BY <2>1, <2>2
<1>3. ASSUME NEW n \in 1..len, NEW m \in V PROVE Do(n, m) \in V
  <2> DEFINE name == p[n]
             new == Append(m.at, name)
             node == Node("dir", Slash, mode, by)
  <2>1. Grown(t, m, mode, by) /\ m.tree \in {t} \cup Systems
    OBVIOUS
  <2>2. name \in STRING
    BY <1>1
  <2> HIDE DEF Systems, name
  <2>3. Grown(t, Enter(m, name, mode, by), mode, by)
    BY <2>1, <2>2, EnterIs
  <2>4. Enter(m, name, mode, by).tree \in {t} \cup Systems
    <3>1. IsFileSystem(m.tree) /\ m.at \in Seq(STRING) /\ m.ok \in BOOLEAN
      BY <2>1 DEF Grown
    <3>2. CASE Enter(m, name, mode, by).tree = m.tree
      BY <3>2, <2>1
    <3>3. CASE Enter(m, name, mode, by).tree = Put(m.tree, new, node)
      <4>1. new \in Seq(STRING)
        BY <3>1, <2>2, AppendIs
      <4>2. \A q \in DOMAIN m.tree : q \in Seq(STRING) /\ m.tree[q] \in FileNode
        BY <3>1 DEF IsFileSystem
      <4>3. node \in FileNode
        BY DEF Node, FileNode, Slash
      <4> HIDE DEF new, node
      <4> DEFINE S == DOMAIN m.tree \cup {new}
                 u == Put(m.tree, new, node)
      <4>4. u = [q \in S |-> IF q = new THEN node ELSE m.tree[q]]
        BY DEF Put
      <4>5. S \in SUBSET Seq(STRING)
        BY <4>1, <4>2
      <4>6. \A q \in S : (IF q = new THEN node ELSE m.tree[q]) \in FileNode
        BY <4>2, <4>3
      <4> HIDE DEF S, u
      <4>7. u \in [S -> FileNode]
        BY <4>4, <4>6
      <4>8. u \in Systems
        BY <4>5, <4>7 DEF Systems
      <4> QED BY <3>3, <4>8 DEF u
    <3> DEFINE e == Enter(m, name, mode, by)
    <3>4. \/ e = m
          \/ e = Progress(m.tree, m.at, FALSE)
          \/ \E q \in Seq(STRING) : e = Progress(m.tree, q, TRUE)
          \/ e = Progress(Put(m.tree, new, node), new, TRUE)
      BY <3>1, <2>2, EnterCases
    <3> HIDE DEF e
    <3>5. e.tree = m.tree \/ e.tree = Put(m.tree, new, node)
      BY <3>4 DEF Progress
    <3> QED BY <3>2, <3>3, <3>5 DEF e
  <2> DEFINE e == Enter(m, name, mode, by)
  <2> HIDE DEF e
  <2>5. e.at \in Seq(STRING) /\ e.ok \in BOOLEAN /\ e = Progress(e.tree, e.at, e.ok)
    BY <2>3 DEF Grown, e
  <2>6. e \in [tree : {t} \cup Systems, at : Seq(STRING), ok : BOOLEAN]
    BY <2>4, <2>5 DEF Progress, e
  <2> QED BY <2>3, <2>6 DEF e, name
<1> HIDE DEF Do, V, base
<1>4. /\ step \in [(1..len) \X V -> V]
      /\ \A n \in 1..len, m \in V : step[<<n, m>>] = Do(n, m)
  BY <1>3
<1> HIDE DEF step, len
<1>5. PICK f \in [0..len -> V] : Follows(f, len, base, step)
  BY <1>1, <1>2, <1>4, Recursion
<1>6. \A n \in 1..len : f[n - 1] \in V /\ f[n] = Do(n, f[n - 1])
  <2> TAKE n \in 1..len
  <2>1. n - 1 \in 0..len
    BY <1>1
  <2>2. f[n - 1] \in V
    BY <2>1
  <2> QED BY <1>4, <1>5, <2>2 DEF Follows
<1>7. Rec(f)
  <2>1. f = [n \in 0..len |-> f[n]]
    BY <1>5
  <2>2. \A n \in 0..len : f[n] = IF n = 0 THEN base ELSE Do(n, f[n - 1])
    BY <1>5, <1>6 DEF Follows
  <2> QED BY <2>1, <2>2
<1> DEFINE g == CHOOSE h : Rec(h)
<1>8. MkdirAll(t, p, mode, by) = g[len]
  BY DEF MkdirAll, len, base, Do
<1>9. Rec(g)
  BY <1>7
<1> HIDE DEF g
<1>10. g[0] = base /\ \A n \in 1..len : g[n] = Do(n, g[n - 1])
  BY <1>1, <1>9
<1>11. \A n \in 0..len : g[n] \in V
  <2> DEFINE E == {n \in 0..len : g[n] \in V}
  <2>1. 0 \in E
    BY <1>1, <1>2, <1>10
  <2>2. \A n \in 0..len - 1 : n \in E => n + 1 \in E
    <3> TAKE n \in 0..len - 1
    <3>1. n + 1 \in 1..len /\ (n + 1) - 1 = n /\ n + 1 \in 0..len
      BY <1>1
    <3> QED BY <1>3, <1>10, <3>1
  <2> HIDE DEF E
  <2>3. 0..len \subseteq E
    BY <1>1, <2>1, <2>2, UpTo
  <2> QED BY <2>3 DEF E
<1>12. Steps(g, t, p, mode, by)
  BY <1>10 DEF Steps, len, base, Do
<1>13. \A n \in 0..len : Grown(t, g[n], mode, by)
  BY <1>11 DEF V
<1>14. QED
  BY <1>8, <1>12, <1>13 DEF len

-----------------------------------------------------------------------------
(* Types. *)

\* What a request holds.
LEMMA AskIs ==
  ASSUME NEW a \in Asks
  PROVE  /\ a.path.parts \in Seq(STRING) /\ Ordinary(a.path.parts)
         /\ a.policy.reads \in Seq(Seq(STRING)) /\ a.policy.write.roots \in Seq(Seq(STRING))
         /\ \A i \in DOMAIN a.policy.write.roots : Ordinary(a.policy.write.roots[i])
<1>1. a \in Request /\ Ordinary(a.path.parts)
  BY AccessAssumption
<1>2. \A i \in DOMAIN a.policy.write.roots : Ordinary(a.policy.write.roots[i])
  BY AccessAssumption
<1>3. a.path.parts \in Seq(STRING)
  BY <1>1 DEF Request
<1>4. a.policy.reads \in Seq(Seq(STRING)) /\ a.policy.write.roots \in Seq(Seq(STRING))
  BY <1>1 DEF Request
<1>5. QED
  BY <1>1, <1>2, <1>3, <1>4

\* What stands has an ordinary name where all names are.
LEMMA StandsOrdinary ==
  ASSUME NEW t, NamesOrdinary(t), NEW q, Stands(t, q)
  PROVE  Ordinary(q)
<1>1. CASE q = Slash
  <2>1. DOMAIN Slash = {} /\ Slash \in Seq(STRING)
    BY DEF Slash
  <2> QED BY <1>1, <2>1 DEF Ordinary
<1>2. CASE q # Slash
  <2>1. q \in DOMAIN t
    BY <1>2 DEF Stands, At
  <2> QED BY <2>1 DEF NamesOrdinary
<1>3. QED
  BY <1>1, <1>2

\* The destination of a push is an ordinary path.
LEMMA DestinationIs ==
  ASSUME NEW t, IsFileSystem(t), NamesOrdinary(t), NEW a \in Asks,
         ResolveWritePath(t, a.policy.write, a.path) # NoPath
  PROVE  /\ Ordinary(ResolveWritePath(t, a.policy.write, a.path))
         /\ ResolveWritePath(t, a.policy.write, a.path) # Slash
<1> DEFINE pol == a.policy.write
           r == a.path
           abs == Asked(pol, r)
           dst == ResolveWritePath(t, pol, r)
<1>1. /\ r.parts \in Seq(STRING) /\ Ordinary(r.parts) /\ pol.roots \in Seq(Seq(STRING))
      /\ \A i \in DOMAIN pol.roots : Ordinary(pol.roots[i])
  BY AskIs
<1>2. abs \in Seq(STRING) /\ Ordinary(abs)
  <2> HIDE DEF pol, r
  <2> QED BY <1>1, AskedIs
<1> DEFINE parent == ResolveNewParent(t, pol.roots, Front(abs))
           z == Last(abs)
<1>3. /\ abs # Slash /\ Front(abs) \in Seq(STRING) /\ z \in STRING /\ parent # NoPath /\ dst = Append(parent, z)
  <2> HIDE DEF pol, r
  <2>1. dst # NoPath
    BY DEF pol, r
  <2> HIDE DEF dst
  <2> QED BY <1>1, <2>1, WritePathIs DEF dst
<1>4. Ordinary(Front(abs)) /\ z # TempName
  <2> HIDE DEF abs
  <2> QED BY <1>2, <1>3, OrdinaryParts
<1> HIDE DEF pol, r, abs
<1>5. PICK n \in 0..Len(Front(abs)), real \in Seq(STRING) :
           /\ Sited(t, pol.roots, Front(abs), n, real)
           /\ parent = real \o Rest(Front(abs), n)
  BY <1>1, <1>3, ParentIs
<1>6. Ordinary(real)
  <2>1. Stands(t, real)
    BY <1>5 DEF Sited, Fresh
  <2> QED BY <2>1, StandsOrdinary
<1>7. Ordinary(Rest(Front(abs), n))
  BY <1>4, OrdinaryParts DEF Rest
<1>8. Ordinary(parent)
  BY <1>5, <1>6, <1>7, OrdinaryConcat
<1> HIDE DEF parent, z, dst
<1>9. Ordinary(dst)
  BY <1>3, <1>4, <1>8, OrdinaryAppend
<1>10. dst # Slash
  <2>1. parent \in Seq(STRING)
    BY <1>8 DEF Ordinary
  <2> QED BY <2>1, <1>3, AppendIs
<1>11. QED
  BY <1>9, <1>10 DEF dst, pol, r

\* The directories a push makes have ordinary names.
LEMMA MkdirTyped ==
  ASSUME NEW t, IsFileSystem(t), NEW p, Ordinary(p), NEW mode \in Modes, NEW by \in {"owner", "push"}
  PROVE  /\ Grown(t, MkdirAll(t, p, mode, by), mode, by)
         /\ NamesOrdinary(t) => NamesOrdinary(MkdirAll(t, p, mode, by).tree)
<1>1. p \in Seq(STRING) /\ Len(p) \in Nat /\ \A n \in 1..Len(p) : p[n] # TempName /\ p[n] \in STRING
  BY DEF Ordinary
<1>2. PICK g : /\ Steps(g, t, p, mode, by) /\ MkdirAll(t, p, mode, by) = g[Len(p)]
               /\ \A n \in 0..Len(p) : Grown(t, g[n], mode, by)
  BY <1>1, MkdirIs
<1>3. Len(p) \in 0..Len(p)
  BY <1>1
<1>4. ASSUME NamesOrdinary(t) PROVE NamesOrdinary(g[Len(p)].tree)
  <2> DEFINE E == {n \in 0..Len(p) : NamesOrdinary(g[n].tree)}
  <2>1. 0 \in E
    <3>1. g[0].tree = t
      BY <1>2 DEF Steps, Progress
    <3>2. 0 \in 0..Len(p)
      BY <1>1
    <3> QED BY <3>1, <3>2, <1>4
  <2>2. \A n \in 0..Len(p) - 1 : n \in E => n + 1 \in E
    <3> SUFFICES ASSUME NEW n \in 0..Len(p) - 1, NamesOrdinary(g[n].tree) PROVE n + 1 \in E
      OBVIOUS
    <3>1. n + 1 \in 1..Len(p) /\ (n + 1) - 1 = n /\ n + 1 \in 0..Len(p) /\ n \in 0..Len(p)
      BY <1>1
    <3>2. g[n + 1] = Enter(g[n], p[n + 1], mode, by)
      BY <1>2, <3>1 DEF Steps
    <3>3. NamesOrdinary(Enter(g[n], p[n + 1], mode, by).tree)
      BY <1>1, <1>2, <3>1, EnterIs
    <3> QED BY <3>1, <3>2, <3>3
  <2> HIDE DEF E
  <2>3. 0..Len(p) \subseteq E
    BY <1>1, <2>1, <2>2, UpTo
  <2> QED BY <2>3, <1>3 DEF E
<1>5. QED
  BY <1>2, <1>3, <1>4

-----------------------------------------------------------------------------

\* Nobody has named a file as staging files are named before one is staged; and
\* the destination never has such a name.
Unstaged == pc \notin {"content", "place"} \cup Ended
Writing == pc \in {"check", "perm", "mkdir", "recheck", "stage", "content", "place"}
AccessTyped ==
  /\ AccessTypeOK
  /\ Unstaged => NamesOrdinary(tree)
  /\ Writing => Ordinary(at) /\ at # Slash

LEMMA AccessTypedAtFirst == ASSUME AccessInit PROVE AccessTyped
<1>1. tree \in Trees /\ op \in Asks /\ pc = "gate" /\ at = NoPath /\ perm = "open"
      /\ quiet = TRUE /\ sure = TRUE /\ edits = 0
  BY DEF AccessInit
<1>2. IsFileSystem(tree) /\ NamesOrdinary(tree)
  BY <1>1, AccessAssumption DEF NamesOrdinary
<1>3. edits \in 0..MaxEdits /\ at \in Seq(STRING)
  BY <1>1, AccessAssumption
<1>4. AccessTypeOK
  BY <1>1, <1>2, <1>3 DEF AccessTypeOK, Modes
<1>5. QED
  BY <1>1, <1>2, <1>4 DEF AccessTyped, Writing

LEMMA OwnerTyped ==
  ASSUME AccessTyped, NEW t, OwnerEdits(t), IsFileSystem(t), NamesOrdinary(tree) => NamesOrdinary(t)
  PROVE  AccessTyped'
<1>1. /\ edits < MaxEdits /\ edits' = edits + 1 /\ tree' = t /\ quiet' = FALSE /\ sure' = FALSE
      /\ op' = op /\ pc' = pc /\ at' = at /\ perm' = perm
  BY DEF OwnerEdits
<1>2. edits' \in 0..MaxEdits
  BY <1>1, AccessAssumption DEF AccessTyped, AccessTypeOK
<1>3. AccessTypeOK'
  BY <1>1, <1>2 DEF AccessTyped, AccessTypeOK
<1>4. Unstaged' => NamesOrdinary(tree')
  BY <1>1 DEF AccessTyped, Unstaged, Ended
<1>5. Writing' => Ordinary(at') /\ at' # Slash
  BY <1>1 DEF AccessTyped, Writing
<1>6. QED
  BY <1>3, <1>4, <1>5 DEF AccessTyped

ServeSteps == {"gate", "open", "check", "perm", "mkdir", "recheck", "stage", "content", "place"} \cup Ended

\* A step that leaves the tree alone.
LEMMA GotoTyped ==
  ASSUME AccessTyped, NEW step \in ServeSteps, Goto(step), Unstaged, at' \in Seq(STRING), sure' \in BOOLEAN,
         step \in {"check", "perm", "mkdir", "recheck", "stage", "content", "place"} => Ordinary(at') /\ at' # Slash
  PROVE  AccessTyped'
<1>1. pc' = step /\ tree' = tree /\ op' = op /\ perm' = perm /\ quiet' = quiet /\ edits' = edits
  BY DEF Goto
<1>2. AccessTypeOK'
  BY <1>1 DEF AccessTyped, AccessTypeOK, ServeSteps
<1>3. NamesOrdinary(tree')
  BY <1>1 DEF AccessTyped
<1>4. Writing' => Ordinary(at') /\ at' # Slash
  BY <1>1 DEF Writing
<1>5. QED
  BY <1>2, <1>3, <1>4 DEF AccessTyped

LEMMA RefuseTyped ==
  ASSUME AccessTyped, Refuse, Unstaged
  PROVE  AccessTyped'
<1>1. Goto("refused") /\ at' = at /\ sure' = sure
  BY DEF Refuse
<1>2. at' \in Seq(STRING) /\ sure' \in BOOLEAN
  BY <1>1 DEF AccessTyped, AccessTypeOK
<1>3. QED
  BY <1>1, <1>2, GotoTyped DEF ServeSteps, Ended

LEMMA OwnerPaths ==
  ASSUME NEW p \in Movable \cup Targets \cup Made
  PROVE  p \in Seq(STRING) /\ p # Slash /\ Ordinary(p)
  BY AccessAssumption DEF Ordinary

\* A new file, directory or link under an ordinary name.
LEMMA PutTyped ==
  ASSUME NEW t, IsFileSystem(t), NEW p, Ordinary(p), p # Slash, At(t, Front(p)) = "dir", At(t, p) # "dir",
         NEW node \in FileNode
  PROVE  IsFileSystem(Put(t, p, node)) /\ (NamesOrdinary(t) => NamesOrdinary(Put(t, p, node)))
<1>1. p \in Seq(STRING)
  BY DEF Ordinary
<1>2. IsFileSystem(Put(t, p, node))
  BY <1>1, PutIs
<1>3. DOMAIN Put(t, p, node) = DOMAIN t \cup {p}
  BY DEF Put
<1>4. QED
  BY <1>2, <1>3 DEF NamesOrdinary

LEMMA OwnerStepTyped == ASSUME AccessTyped, Owner PROVE AccessTyped'
<1>1. IsFileSystem(tree)
  BY DEF AccessTyped, AccessTypeOK
<1>2. CASE OwnerRemoves
  <2>1. PICK p \in Movable \cap DOMAIN tree : OwnerEdits(Drop(tree, p))
    BY <1>2 DEF OwnerRemoves
  <2> DEFINE u == Drop(tree, p)
  <2>2. IsFileSystem(u) /\ Pruned(tree, p, u)
    BY <1>1, OwnerPaths, DropIs
  <2> HIDE DEF u
  <2>3. NamesOrdinary(tree) => NamesOrdinary(u)
    BY <2>2 DEF NamesOrdinary, Pruned
  <2> QED BY <2>1, <2>2, <2>3, OwnerTyped DEF u
<1>3. CASE OwnerMoves
  <2>1. PICK p \in Movable \cap DOMAIN tree, q \in Targets \ DOMAIN tree :
            At(tree, Front(q)) = "dir" /\ ~IsPrefix(p, q) /\ OwnerEdits(Moved(tree, p, q))
    BY <1>3 DEF OwnerMoves
  <2> DEFINE u == Moved(tree, p, q)
  <2>2. p \in Seq(STRING) /\ q \in Seq(STRING) /\ q # Slash /\ Ordinary(q)
    BY OwnerPaths
  <2>3. IsFileSystem(u) /\ Relocated(tree, p, q, u)
    BY <1>1, <2>1, <2>2, MovedIs
  <2> HIDE DEF u
  <2>4. ASSUME NamesOrdinary(tree), NEW r \in DOMAIN u PROVE Ordinary(r)
    <3>1. CASE r \in DOMAIN tree
      BY <3>1, <2>4 DEF NamesOrdinary
    <3>2. CASE \E x \in Seq(STRING) : p \o x \in DOMAIN tree /\ r = q \o x
      <4>1. PICK x \in Seq(STRING) : p \o x \in DOMAIN tree /\ r = q \o x
        BY <3>2
      <4> DEFINE s == p \o x
      <4>2. Ordinary(s)
        BY <4>1, <2>4 DEF NamesOrdinary
      <4>3. SubSeq(s, Len(p) + 1, Len(s)) = x
        BY <2>2, RestConcat
      <4>4. Len(p) \in 0..Len(s)
        <5>1. Len(s) = Len(p) + Len(x)
          BY <2>2, ConcatProperties
        <5>2. Len(p) \in Nat /\ Len(x) \in Nat
          BY <2>2
        <5> HIDE DEF s
        <5> QED BY <5>1, <5>2
      <4> HIDE DEF s
      <4>5. Ordinary(x)
        BY <4>2, <4>3, <4>4, OrdinaryParts
      <4> QED BY <4>1, <4>5, <2>2, OrdinaryConcat
    <3> QED BY <2>3, <3>1, <3>2 DEF Relocated
  <2>5. NamesOrdinary(tree) => NamesOrdinary(u)
    BY <2>4 DEF NamesOrdinary
  <2> QED BY <2>1, <2>3, <2>5, OwnerTyped DEF u
<1>4. CASE OwnerLinks
  <2>1. PICK p \in Movable \ DOMAIN tree, to \in Links :
            At(tree, Front(p)) = "dir" /\ OwnerEdits(Put(tree, p, Node("link", to, "open", "owner")))
    BY <1>4 DEF OwnerLinks
  <2> DEFINE node == Node("link", to, "open", "owner")
  <2>2. node \in FileNode
    BY AccessAssumption DEF Node, FileNode, Modes
  <2>3. p # Slash /\ Ordinary(p) /\ At(tree, p) # "dir"
    BY OwnerPaths DEF At
  <2> HIDE DEF node
  <2>4. IsFileSystem(Put(tree, p, node)) /\ (NamesOrdinary(tree) => NamesOrdinary(Put(tree, p, node)))
    BY <1>1, <2>1, <2>2, <2>3, PutTyped
  <2> QED BY <2>1, <2>4, OwnerTyped DEF node
<1>5. CASE OwnerMakes
  <2>1. PICK p \in Made \ DOMAIN tree, kind \in {"dir", "file"} :
            At(tree, Front(p)) = "dir" /\ OwnerEdits(Put(tree, p, Node(kind, Slash, "open", "owner")))
    BY <1>5 DEF OwnerMakes
  <2> DEFINE node == Node(kind, Slash, "open", "owner")
  <2>2. node \in FileNode
    BY DEF Node, FileNode, Modes, Slash
  <2>3. p # Slash /\ Ordinary(p) /\ At(tree, p) # "dir"
    BY OwnerPaths DEF At
  <2> HIDE DEF node
  <2>4. IsFileSystem(Put(tree, p, node)) /\ (NamesOrdinary(tree) => NamesOrdinary(Put(tree, p, node)))
    BY <1>1, <2>1, <2>2, <2>3, PutTyped
  <2> QED BY <2>1, <2>4, OwnerTyped DEF node
<1>6. CASE OwnerSeals
  <2>1. PICK p \in Movable \cap DOMAIN tree : OwnerEdits([tree EXCEPT ![p].mode = "sealed"])
    BY <1>6 DEF OwnerSeals
  <2> DEFINE u == [tree EXCEPT ![p].mode = "sealed"]
  <2>2. IsFileSystem(u) /\ SameKinds(tree, u)
    BY <1>1, SealIs
  <2> HIDE DEF u
  <2>3. NamesOrdinary(tree) => NamesOrdinary(u)
    BY <2>2 DEF NamesOrdinary, SameKinds
  <2> QED BY <2>1, <2>2, <2>3, OwnerTyped DEF u
<1>7. QED
  BY <1>2, <1>3, <1>4, <1>5, <1>6 DEF Owner

\* What ResolveWithinRoots and EvalSymlinks answer is a path.
LEMMA WithinTyped ==
  ASSUME NEW t, IsFileSystem(t), NEW roots, NEW p \in Seq(STRING)
  PROVE  ResolveWithinRoots(t, roots, p) \in Seq(STRING) /\ Real(t, p) \in Seq(STRING)
<1>1. EvalSymlinks(t, p).path \in Seq(STRING)
  BY EvalIs
<1>2. NoPath \in Seq(STRING)
  BY AccessAssumption
<1>3. QED
  BY <1>1, <1>2 DEF ResolveWithinRoots, Real

LEMMA ReadTyped == ASSUME AccessTyped, GateRead \/ OpenRead PROVE AccessTyped'
<1>1. IsFileSystem(tree) /\ op \in Asks /\ at \in Seq(STRING) /\ sure \in BOOLEAN
  BY DEF AccessTyped, AccessTypeOK
<1>2. CASE GateRead
  <2> DEFINE p == ResolveWithinRoots(tree, op.policy.reads, Abs(op.path, Cwd))
  <2>1. Unstaged
    BY <1>2 DEF GateRead, Unstaged, Ended
  <2>2. p \in Seq(STRING)
    <3>1. Cwd \in Seq(STRING) /\ op.path.parts \in Seq(STRING)
      BY <1>1, AskIs, AccessAssumption DEF Ordinary
    <3> DEFINE r == op.path
    <3>2. Abs(r, Cwd) \in Seq(STRING)
      <4> HIDE DEF r
      <4> QED BY <3>1, AbsIs DEF r
    <3> QED BY <1>1, <3>2, WithinTyped
  <2>3. Refuse \/ (Goto("served") /\ at' = at /\ sure' = sure) \/ (Goto("open") /\ at' = p /\ sure' = TRUE)
    BY <1>2 DEF GateRead, Resolving
  <2> HIDE DEF p
  <2>4. CASE Refuse
    BY <2>1, <2>4, RefuseTyped
  <2>5. CASE Goto("served") /\ at' = at /\ sure' = sure
    BY <1>1, <2>1, <2>5, GotoTyped DEF ServeSteps, Ended
  <2>6. CASE Goto("open") /\ at' = p /\ sure' = TRUE
    BY <2>1, <2>2, <2>6, GotoTyped DEF ServeSteps
  <2> QED BY <2>3, <2>4, <2>5, <2>6
<1>3. CASE OpenRead
  <2>1. Unstaged
    BY <1>3 DEF OpenRead, Unstaged, Ended
  <2>2. Refuse \/ (Goto("served") /\ at' = Real(tree, at) /\ sure' = sure)
    BY <1>3 DEF OpenRead
  <2>3. CASE Refuse
    BY <2>1, <2>3, RefuseTyped
  <2>4. CASE Goto("served") /\ at' = Real(tree, at) /\ sure' = sure
    <3>1. at' \in Seq(STRING) /\ sure' \in BOOLEAN
      BY <1>1, <2>4, WithinTyped
    <3> QED BY <2>1, <2>4, <3>1, GotoTyped DEF ServeSteps, Ended
  <2> QED BY <2>2, <2>3, <2>4
<1>4. QED
  BY <1>2, <1>3

LEMMA AdmitTyped == ASSUME AccessTyped, GateWrite \/ Check \/ Recheck PROVE AccessTyped'
<1>1. IsFileSystem(tree) /\ op \in Asks /\ at \in Seq(STRING) /\ sure \in BOOLEAN
  BY DEF AccessTyped, AccessTypeOK
<1>2. Unstaged
  BY DEF GateWrite, Check, Recheck, Unstaged, Ended
<1>3. CASE GateWrite
  <2> DEFINE p == ResolveWritePath(tree, op.policy.write, op.path)
  <2>1. Refuse \/ (p # NoPath /\ Goto("check") /\ at' = p /\ sure' = TRUE)
    BY <1>3 DEF GateWrite, Resolving
  <2>2. CASE p # NoPath /\ Goto("check") /\ at' = p /\ sure' = TRUE
    <3>1. Ordinary(at') /\ at' # Slash
      BY <1>1, <1>2, <2>2, DestinationIs DEF AccessTyped
    <3>2. at' \in Seq(STRING) /\ sure' \in BOOLEAN
      BY <2>2, <3>1 DEF Ordinary
    <3> QED BY <1>2, <2>2, <3>1, <3>2, GotoTyped DEF ServeSteps
  <2> QED BY <1>2, <2>1, <2>2, RefuseTyped
<1>4. CASE Check \/ Recheck
  <2>1. Refuse \/ (Goto("perm") /\ at' = at /\ sure' = sure) \/ (Goto("stage") /\ at' = at /\ sure' = TRUE)
    BY <1>4 DEF Check, Recheck
  <2>2. Ordinary(at) /\ at # Slash
    BY <1>4 DEF Check, Recheck, AccessTyped, Writing
  <2>3. CASE Refuse
    BY <1>2, <2>3, RefuseTyped
  <2>4. CASE Goto("perm") /\ at' = at /\ sure' = sure
    BY <1>1, <1>2, <2>2, <2>4, GotoTyped DEF ServeSteps
  <2>5. CASE Goto("stage") /\ at' = at /\ sure' = TRUE
    BY <1>1, <1>2, <2>2, <2>5, GotoTyped DEF ServeSteps
  <2> QED BY <2>1, <2>3, <2>4, <2>5
<1>5. QED
  BY <1>3, <1>4

LEMMA InheritTyped == ASSUME AccessTyped, InheritPerm PROVE AccessTyped'
<1> DEFINE d == NearestExistingDir(tree, Front(at))
<1>1. Unstaged /\ Writing
  BY DEF InheritPerm, Unstaged, Ended, Writing
<1>2. Refuse \/ (/\ d # NoPath /\ perm' = ModeAt(tree, d) /\ pc' = "mkdir"
                 /\ tree' = tree /\ op' = op /\ at' = at /\ quiet' = quiet /\ sure' = sure /\ edits' = edits)
  BY DEF InheritPerm
<1>3. d # NoPath => At(tree, d) = "dir"
  BY DEF NearestExistingDir
<1> HIDE DEF d
<1>4. CASE Refuse
  BY <1>1, <1>4, RefuseTyped
<1>5. CASE /\ d # NoPath /\ perm' = ModeAt(tree, d) /\ pc' = "mkdir"
           /\ tree' = tree /\ op' = op /\ at' = at /\ quiet' = quiet /\ sure' = sure /\ edits' = edits
  <2>1. IsFileSystem(tree)
    BY DEF AccessTyped, AccessTypeOK
  <2>2. ModeAt(tree, d) \in Modes
    <3>1. CASE d = Slash
      BY <3>1 DEF ModeAt, Modes
    <3>2. CASE d # Slash
      <4>1. d \in DOMAIN tree
        BY <1>3, <1>5, <3>2 DEF At
      <4>2. tree[d] \in FileNode
        BY <2>1, <4>1 DEF IsFileSystem
      <4>3. tree[d].mode \in Modes
        BY <4>2 DEF FileNode
      <4> QED BY <3>2, <4>3 DEF ModeAt
    <3> QED BY <3>1, <3>2
  <2>3. AccessTypeOK'
    BY <1>5, <2>2 DEF AccessTyped, AccessTypeOK
  <2>4. NamesOrdinary(tree') /\ Ordinary(at') /\ at' # Slash
    BY <1>1, <1>5 DEF AccessTyped
  <2> QED BY <2>3, <2>4 DEF AccessTyped
<1>6. QED
  BY <1>2, <1>4, <1>5

LEMMA ParentsTyped == ASSUME AccessTyped, MakeParents PROVE AccessTyped'
<1> DEFINE made == MkdirAll(tree, Front(at), perm, "push")
<1>1. /\ pc = "mkdir" /\ tree' = made.tree /\ pc' \in {"recheck", "refused"}
      /\ op' = op /\ at' = at /\ perm' = perm /\ quiet' = quiet /\ sure' = sure /\ edits' = edits
  BY DEF MakeParents
<1>2. IsFileSystem(tree) /\ perm \in Modes /\ NamesOrdinary(tree) /\ Ordinary(at) /\ at # Slash
  BY <1>1 DEF AccessTyped, AccessTypeOK, Unstaged, Ended, Writing
<1>3. Ordinary(Front(at))
  BY <1>2, OrdinaryParts
<1>4. Grown(tree, made, perm, "push") /\ NamesOrdinary(made.tree)
  BY <1>2, <1>3, MkdirTyped
<1> HIDE DEF made
<1>5. AccessTypeOK'
  BY <1>1, <1>4 DEF AccessTyped, AccessTypeOK, Grown, Ended
<1>6. NamesOrdinary(tree') /\ Ordinary(at') /\ at' # Slash
  BY <1>1, <1>2, <1>4
<1>7. QED
  BY <1>5, <1>6 DEF AccessTyped

\* A staging file is the first of its name.
LEMMA StageTyped == ASSUME AccessTyped, Stage PROVE AccessTyped'
<1> DEFINE d == EvalSymlinks(tree, Front(at))
           node == Node("file", Slash, "private", "push")
<1>1. pc = "stage" /\ (Refuse \/ (/\ Writable(tree, d.path) /\ tree' = Put(tree, Temp(d.path), node) /\ pc' = "content"
                               /\ op' = op /\ at' = at /\ perm' = perm /\ quiet' = quiet /\ sure' = sure /\ edits' = edits))
  BY DEF Stage
<1>2. IsFileSystem(tree) /\ NamesOrdinary(tree) /\ Ordinary(at) /\ at # Slash /\ Unstaged
  BY <1>1 DEF AccessTyped, AccessTypeOK, Unstaged, Ended, Writing
<1>3. d.path \in Seq(STRING)
  <2>1. Front(at) \in Seq(STRING)
    BY <1>2, FrontLast DEF Ordinary, Slash
  <2> QED BY <1>2, <2>1, EvalIs
<1> HIDE DEF d
<1>4. CASE Refuse
  BY <1>2, <1>4, RefuseTyped
<1>5. CASE /\ Writable(tree, d.path) /\ tree' = Put(tree, Temp(d.path), node) /\ pc' = "content"
           /\ op' = op /\ at' = at /\ perm' = perm /\ quiet' = quiet /\ sure' = sure /\ edits' = edits
  <2> DEFINE p == Temp(d.path)
  <2>1. TempName \in STRING
    BY AccessAssumption
  <2>2. p \in Seq(STRING) /\ p # Slash /\ Front(p) = d.path /\ Last(p) = TempName
    BY <1>3, <2>1, AppendIs DEF Temp
  <2>3. At(tree, Front(p)) = "dir"
    BY <1>5, <2>2 DEF Writable
  <2> HIDE DEF p
  <2>4. At(tree, p) # "dir"
    <3>1. ~Ordinary(p)
      BY <2>2, OrdinaryParts
    <3>2. p \notin DOMAIN tree
      BY <1>2, <3>1 DEF NamesOrdinary
    <3> QED BY <2>2, <3>2 DEF At
  <2>5. node \in FileNode
    BY DEF Node, FileNode, Modes, Slash
  <2> HIDE DEF node
  <2>6. IsFileSystem(Put(tree, p, node))
    BY <1>2, <2>2, <2>3, <2>4, <2>5, PutIs
  <2>7. IsFileSystem(tree')
    BY <1>5, <2>6 DEF p
  <2>8. AccessTypeOK'
    BY <1>5, <2>7 DEF AccessTyped, AccessTypeOK
  <2>9. Ordinary(at') /\ at' # Slash /\ ~Unstaged'
    BY <1>2, <1>5 DEF Unstaged
  <2> QED BY <2>8, <2>9 DEF AccessTyped
<1>6. QED
  BY <1>1, <1>4, <1>5

LEMMA RemoveTempIs ==
  ASSUME NEW t, IsFileSystem(t), Front(at) \in Seq(STRING)
  PROVE  IsFileSystem(RemoveTemp(t))
<1> DEFINE f == EvalSymlinks(t, Temp(Front(at)))
<1>1. TempName \in STRING
  BY AccessAssumption
<1>2. Temp(Front(at)) \in Seq(STRING)
  BY <1>1, AppendIs DEF Temp
<1>3. f.path \in Seq(STRING)
  BY <1>2, EvalIs
<1>4. RemoveTemp(t) = Drop(t, f.path) \/ RemoveTemp(t) = t
  BY DEF RemoveTemp
<1> HIDE DEF f
<1>5. QED
  BY <1>3, <1>4, DropIs

LEMMA LandTyped == ASSUME AccessTyped, Content \/ Place PROVE AccessTyped'
<1>1. IsFileSystem(tree) /\ Ordinary(at) /\ at # Slash /\ perm \in Modes
  BY DEF Content, Place, AccessTyped, AccessTypeOK, Writing
<1>2. at \in Seq(STRING) /\ Front(at) \in Seq(STRING) /\ Last(at) \in STRING
  BY <1>1, FrontLast DEF Ordinary, Slash
<1>3. pc' \in {"place", "failed", "done"}
      /\ op' = op /\ at' = at /\ perm' = perm /\ quiet' = quiet /\ sure' = sure /\ edits' = edits
  BY DEF Content, Place
<1>4. SUFFICES IsFileSystem(tree')
  <2>1. ASSUME IsFileSystem(tree') PROVE AccessTypeOK'
    BY <2>1, <1>3 DEF AccessTyped, AccessTypeOK, Ended
  <2>2. ~Unstaged' /\ Ordinary(at') /\ at' # Slash
    BY <1>1, <1>3 DEF Unstaged, Ended
  <2> QED BY <2>1, <2>2 DEF AccessTyped
<1>5. CASE tree' = tree \/ tree' = RemoveTemp(tree)
  BY <1>1, <1>2, <1>5, RemoveTempIs
<1> DEFINE d == EvalSymlinks(tree, Front(at))
           dst == Append(d.path, Last(at))
           tmp == Temp(d.path)
           node == Node("file", Slash, perm, "push")
           u == Drop(tree, tmp)
<1>6. CASE /\ At(tree, tmp) = "file" /\ Writable(tree, d.path) /\ At(tree, dst) # "dir"
           /\ tree' = Put(u, dst, node)
  <2>1. d.path \in Seq(STRING)
    BY <1>1, <1>2, EvalIs
  <2>2. TempName \in STRING
    BY AccessAssumption
  <2> HIDE DEF d
  <2>3. tmp \in Seq(STRING) /\ tmp # Slash /\ Front(tmp) = d.path
    BY <2>1, <2>2, AppendIs DEF Temp
  <2>4. dst \in Seq(STRING) /\ dst # Slash /\ Front(dst) = d.path
    BY <1>2, <2>1, AppendIs
  <2> HIDE DEF tmp, dst
  <2>5. IsFileSystem(u) /\ \A q : ~IsPrefix(tmp, q) => At(u, q) = At(tree, q)
    BY <1>1, <2>3, DropIs
  <2>6. Pruned(tree, tmp, u)
    BY <1>1, <2>3, DropIs
  <2> HIDE DEF u
  <2>7. At(u, Front(dst)) = "dir"
    <3>1. ~IsPrefix(tmp, Front(tmp))
      BY <2>3, PrefixFront
    <3> QED BY <1>6, <2>3, <2>4, <2>5, <3>1 DEF Writable
  <2>8. At(u, dst) # "dir"
    BY <1>6, <2>6 DEF At, Pruned
  <2>9. node \in FileNode
    BY <1>1 DEF Node, FileNode, Slash
  <2> HIDE DEF node
  <2> QED BY <1>6, <2>4, <2>5, <2>7, <2>8, <2>9, PutIs
<1>7. QED
  BY <1>5, <1>6 DEF Content, Place

LEMMA AccessTypedStep == ASSUME AccessTyped, [AccessNext]_accessVars PROVE AccessTyped'
<1>1. CASE UNCHANGED accessVars
  BY <1>1 DEF AccessTyped, AccessTypeOK, Unstaged, Writing, accessVars
<1>2. CASE AccessNext
  BY <1>2, OwnerStepTyped, ReadTyped, AdmitTyped, InheritTyped, ParentsTyped, StageTyped, LandTyped
     DEF AccessNext, Serve
<1>3. QED
  BY <1>1, <1>2

LEMMA AccessTypedAlways == AccessSpec => []AccessTyped
<1>1. AccessInit => AccessTyped
  BY AccessTypedAtFirst
<1>2. AccessTyped /\ [AccessNext]_accessVars => AccessTyped'
  BY AccessTypedStep
<1>3. QED
  BY <1>1, <1>2, PTL DEF AccessSpec

\* Types: at every step of serveFS and of its owner the tree is a file system,
\* and the request, the resolved path and the mode of a push are what they say.
THEOREM AccessTypes == AccessSpec => []AccessTypeOK
<1>1. AccessTyped => AccessTypeOK
  BY DEF AccessTyped
<1>2. QED
  BY <1>1, AccessTypedAlways, PTL

-----------------------------------------------------------------------------
(* The parents of a destination. *)

\* A name that is missing in a directory.
LEMMA AbsentName ==
  ASSUME NEW t, IsFileSystem(t), NEW d \in Seq(STRING), NEW z \in STRING, At(t, d) = "dir", At(t, Append(d, z)) = "absent"
  PROVE  EvalSymlinks(t, Append(d, z)) = Outcome("absent", Append(d, z))
<1> DEFINE w == Append(d, z)
           k == Len(d) + 1
<1>1. /\ w \in Seq(STRING) /\ Len(w) = k /\ Len(d) \in Nat /\ SubSeq(w, 1, k) = w
      /\ \A n \in 0..Len(d) : SubSeq(w, 1, n) = SubSeq(d, 1, n)
  BY AppendIs
<1> HIDE DEF w
<1>2. k \in 1..Len(w) /\ k - 1 = Len(d)
  BY <1>1
<1>3. Leading(t, w, k - 1)
  <2> SUFFICES ASSUME NEW i \in 1..Len(d) PROVE At(t, SubSeq(w, 1, i)) = "dir"
    BY <1>2 DEF Leading
  <2>1. SubSeq(w, 1, i) = SubSeq(d, 1, i)
    BY <1>1
  <2>2. CASE i = Len(d)
    BY <2>1, <2>2, WholePrefix
  <2>3. CASE i # Len(d)
    <3>1. i \in 1..Len(d) - 1
      BY <2>3, <1>1
    <3>2. Stands(t, d)
      BY ThereStands
    <3> QED BY <2>1, <3>1, <3>2 DEF Stands, Leading
  <2> QED BY <2>2, <2>3
<1> HIDE DEF k
<1>4. At(t, SubSeq(w, 1, k)) = "absent"
  BY <1>1 DEF w
<1>5. EvalSymlinks(t, w) = Outcome("absent", w)
  <2>1. EvalSymlinks(t, w) = Outcome("absent", SubSeq(w, 1, k))
    BY <1>1, <1>2, <1>3, <1>4, AbsentEval
  <2> QED BY <2>1, <1>1
<1>6. QED
  BY <1>5 DEF w

\* A step onto a name that is there, and onto one that is not.
LEMMA EnterThere ==
  ASSUME NEW m, m.ok = TRUE, NEW name, NEW mode, NEW by, NEW new, new = Append(m.at, name),
         EvalSymlinks(m.tree, new) = Outcome("ok", new)
  PROVE  Enter(m, name, mode, by) =
           IF At(m.tree, new) = "dir" THEN Progress(m.tree, new, TRUE) ELSE Progress(m.tree, m.at, FALSE)
<1> DEFINE found == EvalSymlinks(m.tree, new)
<1>1. found.status = "ok" /\ found.path = new /\ found # Outcome("absent", new)
  BY DEF Outcome
<1>2. Enter(m, name, mode, by) =
        IF found.status = "ok" /\ At(m.tree, found.path) = "dir"
        THEN Progress(m.tree, found.path, TRUE)
        ELSE IF found = Outcome("absent", new) /\ Writable(m.tree, m.at)
        THEN Progress(Put(m.tree, new, Node("dir", Slash, mode, by)), new, TRUE)
        ELSE Progress(m.tree, m.at, FALSE)
  BY DEF Enter
<1> HIDE DEF found
<1>3. QED
  BY <1>1, <1>2

LEMMA EnterMissing ==
  ASSUME NEW m, m.ok = TRUE, NEW name, NEW mode, NEW by, NEW new, new = Append(m.at, name),
         EvalSymlinks(m.tree, new) = Outcome("absent", new)
  PROVE  Enter(m, name, mode, by) =
           IF Writable(m.tree, m.at) THEN Progress(Put(m.tree, new, Node("dir", Slash, mode, by)), new, TRUE)
           ELSE Progress(m.tree, m.at, FALSE)
<1> DEFINE found == EvalSymlinks(m.tree, new)
<1>1. found.status # "ok" /\ found = Outcome("absent", new)
  BY DEF Outcome
<1>2. Enter(m, name, mode, by) =
        IF found.status = "ok" /\ At(m.tree, found.path) = "dir"
        THEN Progress(m.tree, found.path, TRUE)
        ELSE IF found = Outcome("absent", new) /\ Writable(m.tree, m.at)
        THEN Progress(Put(m.tree, new, Node("dir", Slash, mode, by)), new, TRUE)
        ELSE Progress(m.tree, m.at, FALSE)
  BY DEF Enter
<1> HIDE DEF found
<1>3. QED
  BY <1>1, <1>2

\* How far os.MkdirAll has come, after n names of p, when the first len names lead to real
\* and nothing is there beyond it.
Reached(t, p, len, mode, n, m) ==
  /\ \A q \in DOMAIN m.tree : q \notin DOMAIN t => \E k \in len + 1..n : q = SubSeq(p, 1, k)
  /\ m.ok => m.at = SubSeq(p, 1, n)
  /\ m.ok /\ n > len => /\ ModeAt(t, SubSeq(p, 1, len)) # "sealed"
                        /\ SubSeq(p, 1, n) \in DOMAIN m.tree /\ SubSeq(p, 1, n) \notin DOMAIN t
  /\ ~m.ok /\ mode = ModeAt(t, SubSeq(p, 1, len)) => m.tree = t
  /\ n <= len => m.tree = t

\* Up to real: every name is there.
LEMMA ReachThere ==
  ASSUME NEW t, IsFileSystem(t), NEW p \in Seq(STRING), NEW len \in 0..Len(p), Stands(t, SubSeq(p, 1, len)),
         NEW mode \in Modes, NEW by \in {"owner", "push"}, NEW m, Grown(t, m, mode, by),
         NEW n \in 0..Len(p) - 1, n < len, m.ok = TRUE, Reached(t, p, len, mode, n, m)
  PROVE  Reached(t, p, len, mode, n + 1, Enter(m, p[n + 1], mode, by))
<1> DEFINE new == SubSeq(p, 1, n + 1)
           e == Enter(m, p[n + 1], mode, by)
<1>1. m.tree = t /\ m.at = SubSeq(p, 1, n)
  BY DEF Reached
<1>2. Len(p) \in Nat /\ n + 1 \in 1..Len(p) /\ (n + 1) - 1 = n /\ n + 1 \in 0..len /\ n + 1 \in 0..Len(p) /\ n + 1 <= len
  OBVIOUS
<1>3. new = Append(m.at, p[n + 1])
  BY <1>1, <1>2, PrefixAppend
<1>4. new \in Seq(STRING) /\ Len(new) = n + 1 /\ SubSeq(p, 1, len) \in Seq(STRING) /\ Len(SubSeq(p, 1, len)) = len
  BY <1>2, PrefixOf
<1>5. IsPrefix(new, SubSeq(p, 1, len))
  <2>1. SubSeq(SubSeq(p, 1, len), 1, n + 1) = SubSeq(p, 1, n + 1)
    BY <1>2, PrefixOfPrefix
  <2>2. SubSeq(new, 1, n + 1) = new
    BY <1>4, WholePrefix
  <2> QED BY <2>1, <2>2, <1>2, <1>4 DEF IsPrefix
<1>6. Stands(t, new)
  BY <1>4, <1>5, StandsPrefix
<1>7. EvalSymlinks(m.tree, new) = Outcome("ok", new)
  BY <1>1, <1>6, StandsEval
<1> HIDE DEF new
<1>8. e = IF At(m.tree, new) = "dir" THEN Progress(m.tree, new, TRUE) ELSE Progress(m.tree, m.at, FALSE)
  BY <1>3, <1>7, EnterThere
<1> HIDE DEF e
<1>9. e.tree = t /\ (e.ok => e.at = new)
  BY <1>1, <1>8 DEF Progress
<1>10. ~(n + 1 > len)
  BY <1>2
<1>11. Reached(t, p, len, mode, n + 1, e)
  BY <1>9, <1>10 DEF Reached, new
<1>12. QED
  BY <1>11 DEF e

\* From there on: no name is there, so each is made or none.
LEMMA ReachBeyond ==
  ASSUME NEW t, IsFileSystem(t), NEW p \in Seq(STRING), NEW len \in 0..Len(p),
         \A j \in len + 1..Len(p) : SubSeq(p, 1, j) \notin DOMAIN t,
         NEW mode \in Modes, NEW by \in {"owner", "push"}, NEW m, Grown(t, m, mode, by),
         NEW n \in 0..Len(p) - 1, n >= len, m.ok = TRUE, Reached(t, p, len, mode, n, m)
  PROVE  Reached(t, p, len, mode, n + 1, Enter(m, p[n + 1], mode, by))
<1> DEFINE new == SubSeq(p, 1, n + 1)
           e == Enter(m, p[n + 1], mode, by)
           node == Node("dir", Slash, mode, by)
           u == Put(m.tree, new, node)
<1>1. /\ m.at = SubSeq(p, 1, n)
      /\ \A q \in DOMAIN m.tree : q \notin DOMAIN t => \E k \in len + 1..n : q = SubSeq(p, 1, k)
      /\ n > len => /\ ModeAt(t, SubSeq(p, 1, len)) # "sealed"
                    /\ SubSeq(p, 1, n) \in DOMAIN m.tree /\ SubSeq(p, 1, n) \notin DOMAIN t
      /\ n <= len => m.tree = t
  BY DEF Reached
<1>2. /\ IsFileSystem(m.tree) /\ m.at \in Seq(STRING) /\ At(m.tree, m.at) = "dir"
      /\ \A q \in DOMAIN m.tree : q \notin DOMAIN t => m.tree[q] = node
  BY DEF Grown
<1>3. Len(p) \in Nat /\ n + 1 \in 1..Len(p) /\ (n + 1) - 1 = n /\ n + 1 \in 0..Len(p) /\ n \in 0..Len(p) /\ n + 1 \in len + 1..Len(p)
      /\ n \in 0..n + 1 /\ n + 1 > len
  OBVIOUS
<1>4. new = Append(m.at, p[n + 1])
  BY <1>1, <1>3, PrefixAppend
<1>5. new \in Seq(STRING) /\ Len(new) = n + 1 /\ new # Slash
  BY <1>3, PrefixNamed
<1>6. new \notin DOMAIN t
  BY <1>3
<1>7. new \notin DOMAIN m.tree
  <2> SUFFICES ASSUME new \in DOMAIN m.tree PROVE FALSE
    OBVIOUS
  <2>1. PICK k \in len + 1..n : new = SubSeq(p, 1, k)
    BY <1>1, <1>6
  <2>2. k \in 0..Len(p) /\ k < n + 1
    BY <1>3
  <2>3. Len(SubSeq(p, 1, k)) = k
    BY <2>2, PrefixOf
  <2> QED BY <2>1, <2>2, <2>3, <1>5
<1>8. EvalSymlinks(m.tree, new) = Outcome("absent", new)
  <2>1. At(m.tree, new) = "absent" /\ p[n + 1] \in STRING
    BY <1>3, <1>5, <1>7, PrefixAppend DEF At
  <2> DEFINE tr == m.tree
             d == m.at
             z == p[n + 1]
  <2>2. /\ IsFileSystem(tr) /\ d \in Seq(STRING) /\ z \in STRING /\ At(tr, d) = "dir"
        /\ new = Append(d, z) /\ At(tr, Append(d, z)) = "absent"
    BY <1>2, <1>4, <2>1
  <2> HIDE DEF new, tr, d, z
  <2>3. EvalSymlinks(tr, Append(d, z)) = Outcome("absent", Append(d, z))
    BY <2>2, AbsentName
  <2> QED BY <2>2, <2>3 DEF tr
<1> HIDE DEF new
<1>9. e = IF Writable(m.tree, m.at) THEN Progress(u, new, TRUE) ELSE Progress(m.tree, m.at, FALSE)
  <2> DEFINE z == p[n + 1]
  <2>1. new = Append(m.at, z) /\ EvalSymlinks(m.tree, new) = Outcome("absent", new)
    BY <1>4, <1>8
  <2> HIDE DEF z
  <2>2. Enter(m, z, mode, by) =
           IF Writable(m.tree, m.at) THEN Progress(Put(m.tree, new, Node("dir", Slash, mode, by)), new, TRUE)
           ELSE Progress(m.tree, m.at, FALSE)
    BY <2>1, EnterMissing
  <2> QED BY <2>2 DEF z
<1>10. DOMAIN u = DOMAIN m.tree \cup {new}
  BY DEF Put
<1> HIDE DEF e, u
<1>11. CASE Writable(m.tree, m.at)
  <2>1. e.tree = u /\ e.at = new /\ e.ok = TRUE
    BY <1>9, <1>11 DEF Progress
  <2>2. \A q \in DOMAIN u : q \notin DOMAIN t => \E k \in len + 1..n + 1 : q = SubSeq(p, 1, k)
    <3> SUFFICES ASSUME NEW q \in DOMAIN u, q \notin DOMAIN t PROVE \E k \in len + 1..n + 1 : q = SubSeq(p, 1, k)
      OBVIOUS
    <3>1. CASE q = new
      <4>1. n + 1 \in len + 1..n + 1
        BY <1>3
      <4> QED BY <3>1, <4>1 DEF new
    <3>2. CASE q # new
      <4>1. PICK k \in len + 1..n : q = SubSeq(p, 1, k)
        BY <3>2, <1>1, <1>10
      <4>2. k \in len + 1..n + 1
        BY <1>3
      <4> QED BY <4>1, <4>2
    <3> QED BY <3>1, <3>2
  <2>3. ModeAt(t, SubSeq(p, 1, len)) # "sealed"
    <3>1. CASE n > len
      BY <3>1, <1>1
    <3>2. CASE n = len
      <4>1. m.tree = t /\ m.at = SubSeq(p, 1, len)
        BY <3>2, <1>1, <1>3
      <4> QED BY <4>1, <1>11 DEF Writable
    <3> QED BY <3>1, <3>2
  <2>4. ~(n + 1 <= len)
    BY <1>3
  <2>5. Reached(t, p, len, mode, n + 1, e)
    BY <2>1, <2>2, <2>3, <2>4, <1>6, <1>10 DEF Reached, new
  <2> QED BY <2>5 DEF e
<1>12. CASE ~Writable(m.tree, m.at)
  <2>1. e.tree = m.tree /\ e.ok = FALSE
    BY <1>9, <1>12 DEF Progress
  <2>2. \A q \in DOMAIN m.tree : q \notin DOMAIN t => \E k \in len + 1..n + 1 : q = SubSeq(p, 1, k)
    <3> SUFFICES ASSUME NEW q \in DOMAIN m.tree, q \notin DOMAIN t PROVE \E k \in len + 1..n + 1 : q = SubSeq(p, 1, k)
      OBVIOUS
    <3>1. PICK k \in len + 1..n : q = SubSeq(p, 1, k)
      BY <1>1
    <3>2. k \in len + 1..n + 1
      BY <1>3
    <3> QED BY <3>1, <3>2
  <2>3. ASSUME mode = ModeAt(t, SubSeq(p, 1, len)) PROVE m.tree = t
    <3>1. ~(n > len)
      <4> SUFFICES ASSUME n > len PROVE FALSE
        OBVIOUS
      <4>1. m.at \in DOMAIN m.tree /\ m.tree[m.at] = node /\ mode # "sealed"
        BY <1>1, <1>2, <2>3
      <4>2. m.tree[m.at].mode = mode
        BY <4>1 DEF Node
      <4>3. ModeAt(m.tree, m.at) # "sealed"
        BY <4>1, <4>2 DEF ModeAt
      <4> QED BY <4>3, <1>2, <1>12 DEF Writable
    <3> QED BY <3>1, <1>1, <1>3
  <2>4. ~(n + 1 <= len)
    BY <1>3
  <2>5. Reached(t, p, len, mode, n + 1, e)
    BY <2>1, <2>2, <2>3, <2>4 DEF Reached
  <2> QED BY <2>5 DEF e
<1>13. QED
  BY <1>11, <1>12

\* After a failure nothing more is done.
LEMMA ReachNoMore ==
  ASSUME NEW t, NEW p, NEW len \in Nat, NEW mode, NEW by, NEW n \in Nat, NEW m, m.ok = FALSE,
         Reached(t, p, len, mode, n, m), NEW name
  PROVE  Reached(t, p, len, mode, n + 1, Enter(m, name, mode, by))
<1>1. Enter(m, name, mode, by) = m
  BY DEF Enter
<1>2. \A q \in DOMAIN m.tree : q \notin DOMAIN t => \E k \in len + 1..n + 1 : q = SubSeq(p, 1, k)
  <2> SUFFICES ASSUME NEW q \in DOMAIN m.tree, q \notin DOMAIN t
               PROVE  \E k \in len + 1..n + 1 : q = SubSeq(p, 1, k)
    OBVIOUS
  <2>1. PICK k \in len + 1..n : q = SubSeq(p, 1, k)
    BY DEF Reached
  <2>2. k \in len + 1..n + 1
    OBVIOUS
  <2> QED BY <2>1, <2>2
<1>3. n + 1 <= len => m.tree = t
  <2>1. n + 1 <= len => n <= len
    OBVIOUS
  <2> QED BY <2>1 DEF Reached
<1>4. ~m.ok /\ mode = ModeAt(t, SubSeq(p, 1, len)) => m.tree = t
  BY DEF Reached
<1>5. QED
  BY <1>1, <1>2, <1>3, <1>4 DEF Reached

\* What os.MkdirAll does where nothing is there beyond real.
LEMMA MadeBelow ==
  ASSUME NEW t, IsFileSystem(t), NEW real \in Seq(STRING), NEW x, Fresh(t, real, x),
         NEW mode \in Modes, NEW by \in {"owner", "push"}
  PROVE  LET p == real \o x  m == MkdirAll(t, p, mode, by) IN
         /\ p \in Seq(STRING) /\ SubSeq(p, 1, Len(real)) = real /\ Len(p) = Len(real) + Len(x)
         /\ Grown(t, m, mode, by) /\ Reached(t, p, Len(real), mode, Len(p), m)
<1> DEFINE p == real \o x
           m == MkdirAll(t, p, mode, by)
           len == Len(real)
<1>1. x \in Seq(STRING) /\ Len(x) \in Nat /\ len \in Nat /\ Stands(t, real)
  BY DEF Fresh
<1>2. p \in Seq(STRING) /\ Len(p) = len + Len(x) /\ SubSeq(p, 1, len) = real
  <2>1. len \in 0..len
    BY <1>1
  <2>2. SubSeq(p, 1, len) = SubSeq(real, 1, len) /\ p \in Seq(STRING) /\ Len(p) = len + Len(x)
    BY <2>1, <1>1, ConcatPrefix
  <2> QED BY <2>2, WholePrefix
<1>3. \A j \in len + 1..Len(p) : SubSeq(p, 1, j) \notin DOMAIN t
  <2> TAKE j \in len + 1..Len(p)
  <2>1. At(t, SubSeq(p, 1, j)) = "absent"
    BY FreshAbsent
  <2> QED BY <2>1, AtIs
<1>4. len \in 0..Len(p) /\ Len(p) \in Nat /\ Len(p) \in 0..Len(p)
  <2> HIDE DEF p, len
  <2> QED BY <1>1, <1>2
<1>0. Stands(t, SubSeq(p, 1, len))
  <2> HIDE DEF p, len
  <2> QED BY <1>1, <1>2
<1> HIDE DEF p
<1>5. PICK g : /\ Steps(g, t, p, mode, by) /\ MkdirAll(t, p, mode, by) = g[Len(p)]
               /\ \A n \in 0..Len(p) : Grown(t, g[n], mode, by)
  <2>1. p \in Seq(STRING)
    BY <1>2
  <2> QED BY <2>1, MkdirIs
<1> HIDE DEF len
<1>6. Reached(t, p, len, mode, 0, g[0])
  <2>1. g[0].tree = t /\ g[0].at = Slash /\ g[0].ok = TRUE
    BY <1>5 DEF Steps, Progress
  <2>2. SubSeq(p, 1, 0) = Slash
    BY <1>2, WholePrefix DEF Slash
  <2>3. ~(0 > len)
    BY <1>1
  <2> QED BY <2>1, <2>2, <2>3 DEF Reached
<1> DEFINE E == {n \in 0..Len(p) : Reached(t, p, len, mode, n, g[n])}
<1>7. \A n \in 0..Len(p) - 1 : n \in E => n + 1 \in E
  <2> SUFFICES ASSUME NEW n \in 0..Len(p) - 1, Reached(t, p, len, mode, n, g[n])
               PROVE  Reached(t, p, len, mode, n + 1, g[n + 1])
    BY <1>4
  <2>1. n + 1 \in 1..Len(p) /\ (n + 1) - 1 = n /\ n \in 0..Len(p) /\ n \in Nat
    BY <1>4
  <2> DEFINE h == g[n]
             e == Enter(h, p[n + 1], mode, by)
  <2>2. g[n + 1] = e
    BY <1>5, <2>1 DEF Steps
  <2>3. Grown(t, h, mode, by) /\ Reached(t, p, len, mode, n, h)
    BY <1>5, <2>1
  <2>4. h.ok \in BOOLEAN
    BY <2>3 DEF Grown
  <2> HIDE DEF h
  <2>5. CASE h.ok = FALSE
    BY <1>1, <2>1, <2>2, <2>3, <2>5, ReachNoMore
  <2>6. CASE h.ok = TRUE /\ n < len
    BY <1>0, <1>2, <1>4, <2>2, <2>3, <2>6, ReachThere
  <2>7. CASE h.ok = TRUE /\ n >= len
    BY <1>2, <1>3, <1>4, <2>2, <2>3, <2>7, ReachBeyond
  <2>8. n < len \/ n >= len
    BY <1>1, <2>1
  <2> QED BY <2>4, <2>5, <2>6, <2>7, <2>8
<1>8. 0 \in E
  BY <1>4, <1>6
<1> HIDE DEF E
<1>9. 0..Len(p) \subseteq E
  BY <1>4, <1>7, <1>8, UpTo
<1>10. Reached(t, p, len, mode, Len(p), g[Len(p)])
  BY <1>4, <1>9 DEF E
<1>11. Grown(t, g[Len(p)], mode, by)
  BY <1>4, <1>5
<1>12. Grown(t, m, mode, by) /\ Reached(t, p, len, mode, Len(p), m)
  <2>1. m = g[Len(p)]
    BY <1>5
  <2> HIDE DEF m
  <2> QED BY <2>1, <1>10, <1>11
<1>13. QED
  BY <1>2, <1>12 DEF p, m, len

-----------------------------------------------------------------------------
(* What was resolved stays so. *)

\* Where a push goes: into a directory of a root, by way of names that are all missing.
LEMMA DestinationSite ==
  ASSUME NEW t, IsFileSystem(t), NEW a \in Asks, NEW dst,
         dst = ResolveWritePath(t, a.policy.write, a.path), dst # NoPath
  PROVE  \E real \in Seq(STRING), n \in Nat :
           LET p == Front(Asked(a.policy.write, a.path)) IN
           /\ p \in Seq(STRING) /\ Sited(t, a.policy.write.roots, p, n, real)
           /\ Front(dst) = real \o Rest(p, n) /\ Front(dst) \in Seq(STRING) /\ At(t, dst) # "link"
           /\ ResolveNewParent(t, a.policy.write.roots, p) = Front(dst)
<1> DEFINE pol == a.policy.write
           r == a.path
           roots == pol.roots
           p == Front(Asked(pol, r))
           z == Last(Asked(pol, r))
           parent == ResolveNewParent(t, roots, p)
<1>1. r.parts \in Seq(STRING) /\ roots \in Seq(Seq(STRING))
  BY AskIs
<1>2. ResolveWritePath(t, pol, r) # NoPath /\ dst = ResolveWritePath(t, pol, r)
  OBVIOUS
<1>3. p \in Seq(STRING) /\ z \in STRING /\ parent # NoPath /\ dst = Append(parent, z) /\ At(t, dst) # "link"
  <2> HIDE DEF r, pol
  <2>1. /\ p \in Seq(STRING) /\ z \in STRING /\ parent # NoPath
        /\ ResolveWritePath(t, pol, r) = Append(parent, z)
        /\ At(t, ResolveWritePath(t, pol, r)) # "link"
    BY <1>1, <1>2, WritePathIs
  <2> QED BY <2>1, <1>2
<1> HIDE DEF p, z, roots
<1>4. PICK n \in 0..Len(p), real \in Seq(STRING) : Sited(t, roots, p, n, real) /\ parent = real \o Rest(p, n)
  BY <1>1, <1>3, ParentIs
<1>5. n \in Nat /\ Rest(p, n) \in Seq(STRING)
  BY <1>4 DEF Sited, Fresh
<1>6. parent \in Seq(STRING)
  BY <1>4, <1>5, ConcatProperties
<1> HIDE DEF parent
<1>7. Front(dst) = parent
  BY <1>3, <1>6, AppendIs
<1>8. /\ p \in Seq(STRING) /\ Sited(t, roots, p, n, real)
      /\ Front(dst) = real \o Rest(p, n) /\ Front(dst) \in Seq(STRING) /\ At(t, dst) # "link"
      /\ ResolveNewParent(t, roots, p) = Front(dst)
  BY <1>3, <1>4, <1>6, <1>7 DEF parent
<1>9. QED
  BY <1>5, <1>8 DEF p, roots

Destination(t) == ResolveWritePath(t, op.policy.write, op.path)

\* What is known of the path an operation was resolved to: while the owner did
\* nothing since, it still resolves to what it was, and a staging file is in a root.
Resolved ==
  /\ quiet => sure
  /\ Writing => at # NoPath
  /\ pc = "open" /\ sure =>
       at = ResolveWithinRoots(tree, op.policy.reads, Abs(op.path, Cwd)) /\ at # NoPath
  /\ pc \in {"check", "perm", "mkdir", "stage"} /\ sure => at = Destination(tree)
  /\ pc \in {"content", "place"} /\ sure =>
       EvalSymlinks(tree, Front(at)) = Outcome("ok", Front(at)) /\ Inside(tree, op.policy.write.roots, Front(at))

LEMMA ResolvedAtFirst == ASSUME AccessInit PROVE Resolved
  BY DEF AccessInit, Resolved, Writing

\* The directory a staging file is created in is the parent of the destination, and in a root.
LEMMA StagedIn ==
  ASSUME AccessTyped, Resolved, sure = TRUE, pc = "stage", EvalSymlinks(tree, Front(at)).status = "ok"
  PROVE  /\ Front(at) \in Seq(STRING) /\ Stands(tree, Front(at))
         /\ EvalSymlinks(tree, Front(at)) = Outcome("ok", Front(at))
         /\ Inside(tree, op.policy.write.roots, Front(at))
<1> DEFINE p == Front(Asked(op.policy.write, op.path))
           roots == op.policy.write.roots
<1>1. IsFileSystem(tree) /\ op \in Asks
  BY DEF AccessTyped, AccessTypeOK
<1>2. at = ResolveWritePath(tree, op.policy.write, op.path) /\ at # NoPath
  BY DEF Resolved, Destination, Writing
<1>3. PICK real \in Seq(STRING), n \in Nat :
           /\ Sited(tree, roots, p, n, real)
           /\ Front(at) = real \o Rest(p, n)
  BY <1>1, <1>2, DestinationSite
<1> HIDE DEF p, roots
<1> DEFINE x == Rest(p, n)
<1>4. Fresh(tree, real, x) /\ Stands(tree, real) /\ x \in Seq(STRING) /\ Inside(tree, roots, real)
  BY <1>3 DEF Sited, Fresh
<1> HIDE DEF x
<1>5. x = Slash
  <2> SUFFICES ASSUME x # Slash PROVE FALSE
    OBVIOUS
  <2> DEFINE y == real \o x
  <2>1. y \in Seq(STRING) /\ Len(y) = Len(real) + Len(x) /\ Len(real) \in Nat /\ Len(x) \in Nat /\ Len(x) # 0
    BY <1>4, ConcatProperties, EmptySeq DEF Slash
  <2>2. Len(y) \in Len(real) + 1..Len(y) /\ SubSeq(y, 1, Len(y)) = y
    <3> HIDE DEF y
    <3> QED BY <2>1, WholePrefix
  <2>3. EvalSymlinks(tree, SubSeq(y, 1, Len(y))) = Outcome("absent", Append(real, x[1]))
    BY <1>1, <1>4, <2>2, FreshAbsent
  <2>4. Front(at) = y
    BY <1>3 DEF x
  <2> HIDE DEF y
  <2>5. EvalSymlinks(tree, Front(at)) = Outcome("absent", Append(real, x[1]))
    BY <2>2, <2>3, <2>4
  <2>6. Outcome("absent", Append(real, x[1])).status = "absent"
    BY DEF Outcome
  <2> QED BY <2>5, <2>6
<1>6. Front(at) = real
  BY <1>3, <1>5, ConcatEmptySeq DEF x, Slash
<1>7. EvalSymlinks(tree, real) = Outcome("ok", real)
  BY <1>1, <1>4, StandsEval
<1>8. QED
  BY <1>4, <1>6, <1>7 DEF roots

LEMMA ResolvedStage == ASSUME AccessTyped, Resolved, Stage PROVE Resolved'
<1> DEFINE d == EvalSymlinks(tree, Front(at))
           node == Node("file", Slash, "private", "push")
<1>1. pc = "stage" /\ (Refuse \/ (/\ d.status = "ok" /\ tree' = Put(tree, Temp(d.path), node) /\ pc' = "content"
                               /\ op' = op /\ at' = at /\ perm' = perm /\ quiet' = quiet /\ sure' = sure))
  BY DEF Stage
<1>2. IsFileSystem(tree) /\ op \in Asks /\ NamesOrdinary(tree) /\ sure \in BOOLEAN
  BY <1>1 DEF AccessTyped, AccessTypeOK, Unstaged, Ended
<1>3. CASE Refuse
  BY <1>3 DEF Refuse, Goto, Resolved, Writing
<1>4. CASE /\ d.status = "ok" /\ tree' = Put(tree, Temp(d.path), node) /\ pc' = "content"
           /\ op' = op /\ at' = at /\ perm' = perm /\ quiet' = quiet /\ sure' = sure
  <2>1. (quiet' => sure') /\ at' # NoPath
    BY <1>1, <1>4 DEF Resolved, Writing
  <2>2. ASSUME sure = TRUE
        PROVE  EvalSymlinks(tree', Front(at)) = Outcome("ok", Front(at)) /\ Inside(tree', op.policy.write.roots, Front(at))
    <3>1. /\ Front(at) \in Seq(STRING) /\ Stands(tree, Front(at))
          /\ d = Outcome("ok", Front(at)) /\ Inside(tree, op.policy.write.roots, Front(at))
      BY <1>1, <1>4, <2>2, StagedIn
    <3> DEFINE q == Temp(Front(at))
               roots == op.policy.write.roots
    <3>2. d.path = Front(at)
      BY <3>1 DEF Outcome
    <3>3. tree' = Put(tree, q, node)
      BY <1>4, <3>2
    <3>4. q \notin DOMAIN tree
      <4>1. TempName \in STRING
        BY AccessAssumption
      <4>2. q # Slash /\ Last(q) = TempName
        BY <3>1, <4>1, AppendIs DEF Temp
      <4> HIDE DEF q
      <4>3. ~Ordinary(q)
        BY <4>2, OrdinaryParts
      <4> QED BY <4>3, <1>2 DEF NamesOrdinary
    <3> HIDE DEF q, node
    <3>5. Extends(tree, tree')
      BY <3>3, <3>4, PutNew
    <3>6. AccessTyped'
      BY StageTyped
    <3>7. IsFileSystem(tree') /\ roots \in Seq(Seq(STRING))
      BY <3>6, <1>2, AskIs DEF AccessTyped, AccessTypeOK
    <3> HIDE DEF roots
    <3>8. EvalSymlinks(tree', Front(at)) = EvalSymlinks(tree, Front(at))
      <4>1. EvalSymlinks(tree, Front(at)).status # "absent"
        BY <1>4
      <4> QED BY <4>1, <1>2, <3>1, <3>5, <3>7, EvalKept
    <3>9. Inside(tree', roots, Front(at))
      BY <1>2, <3>1, <3>5, <3>7, InsideKept DEF roots
    <3> QED BY <3>1, <3>8, <3>9 DEF roots
  <2> QED BY <1>2, <1>4, <2>1, <2>2 DEF Resolved
<1>5. QED
  BY <1>1, <1>3, <1>4

LEMMA ResolvedStep == ASSUME AccessTyped, Resolved, [AccessNext]_accessVars PROVE Resolved'
<1>1. CASE UNCHANGED accessVars
  BY <1>1 DEF Resolved, Writing, Destination, accessVars
<1>2. CASE Owner
  <2>1. quiet' = FALSE /\ sure' = FALSE /\ pc' = pc /\ at' = at
    BY <1>2 DEF Owner, OwnerRemoves, OwnerMoves, OwnerLinks, OwnerMakes, OwnerSeals, OwnerEdits
  <2> QED BY <2>1 DEF Resolved, Writing
<1>3. ASSUME Refuse PROVE Resolved'
  BY <1>3 DEF Refuse, Goto, Resolved, Writing
<1>4. CASE GateRead
  <2> DEFINE p == ResolveWithinRoots(tree, op.policy.reads, Abs(op.path, Cwd))
  <2>1. Refuse \/ (Goto("served") /\ at' = at /\ sure' = sure) \/ (p # NoPath /\ Goto("open") /\ at' = p /\ sure' = TRUE)
    BY <1>4 DEF GateRead, Resolving
  <2>2. CASE Goto("served") /\ at' = at /\ sure' = sure
    BY <2>2 DEF Goto, Resolved, Writing
  <2>3. CASE p # NoPath /\ Goto("open") /\ at' = p /\ sure' = TRUE
    BY <2>3 DEF Goto, Resolved, Writing
  <2> QED BY <2>1, <2>2, <2>3, <1>3
<1>5. CASE OpenRead
  <2>1. Refuse \/ (Goto("served") /\ sure' = sure)
    BY <1>5 DEF OpenRead
  <2>2. CASE Goto("served") /\ sure' = sure
    BY <2>2 DEF Goto, Resolved, Writing
  <2> QED BY <2>1, <2>2, <1>3
<1>6. CASE GateWrite
  <2>1. Refuse \/ (Destination(tree) # NoPath /\ Goto("check") /\ at' = Destination(tree) /\ sure' = TRUE)
    BY <1>6 DEF GateWrite, Resolving, Destination
  <2>2. CASE Destination(tree) # NoPath /\ Goto("check") /\ at' = Destination(tree) /\ sure' = TRUE
    BY <2>2 DEF Goto, Resolved, Writing, Destination
  <2> QED BY <2>1, <2>2, <1>3
<1>7. CASE Check
  <2>1. pc = "check" /\ (Refuse \/ (Goto("perm") /\ at' = at /\ sure' = sure))
    BY <1>7 DEF Check
  <2>2. CASE Goto("perm") /\ at' = at /\ sure' = sure
    BY <2>1, <2>2 DEF Goto, Resolved, Writing, Destination
  <2> QED BY <2>1, <2>2, <1>3
<1>8. CASE InheritPerm
  <2>1. pc = "perm" /\ (Refuse \/ (pc' = "mkdir" /\ tree' = tree /\ op' = op /\ at' = at /\ quiet' = quiet /\ sure' = sure))
    BY <1>8 DEF InheritPerm
  <2>2. CASE pc' = "mkdir" /\ tree' = tree /\ op' = op /\ at' = at /\ quiet' = quiet /\ sure' = sure
    BY <2>1, <2>2 DEF Resolved, Writing, Destination
  <2> QED BY <2>1, <2>2, <1>3
<1>9. CASE MakeParents
  BY <1>9 DEF MakeParents, Resolved, Writing
<1>10. CASE Recheck
  <2>1. pc = "recheck" /\ (Refuse \/ (Destination(tree) = at /\ Goto("stage") /\ at' = at /\ sure' = TRUE))
    BY <1>10 DEF Recheck, Destination
  <2>2. CASE Destination(tree) = at /\ Goto("stage") /\ at' = at /\ sure' = TRUE
    BY <2>1, <2>2 DEF Goto, Resolved, Writing, Destination
  <2> QED BY <2>1, <2>2, <1>3
<1>11. CASE Stage
  BY <1>11, ResolvedStage
<1>12. CASE Content
  <2>1. /\ pc = "content" /\ op' = op /\ at' = at /\ quiet' = quiet /\ sure' = sure
        /\ (pc' = "place" /\ tree' = tree) \/ pc' = "failed"
    BY <1>12 DEF Content
  <2>2. CASE pc' = "failed"
    BY <2>1, <2>2 DEF Resolved, Writing
  <2>3. CASE pc' = "place" /\ tree' = tree
    BY <2>1, <2>3 DEF Resolved, Writing
  <2> QED BY <2>1, <2>2, <2>3
<1>13. CASE Place
  <2>1. pc' \in {"done", "failed"} /\ quiet' = quiet /\ sure' = sure
    BY <1>13 DEF Place
  <2> QED BY <2>1 DEF Resolved, Writing
<1>14. QED
  BY <1>1, <1>2, <1>4, <1>5, <1>6, <1>7, <1>8, <1>9, <1>10, <1>11, <1>12, <1>13 DEF AccessNext, Serve

LEMMA ResolvedAlways == AccessSpec => [](AccessTyped /\ Resolved)
<1>1. AccessInit => AccessTyped /\ Resolved
  BY AccessTypedAtFirst, ResolvedAtFirst
<1>2. AccessTyped /\ Resolved /\ [AccessNext]_accessVars => (AccessTyped /\ Resolved)'
  BY AccessTypedStep, ResolvedStep
<1>3. QED
  BY <1>1, <1>2, PTL DEF AccessSpec

\* What is in a root is in a writable root of the policy.
LEMMA InsideIs ==
  ASSUME NEW roots, NEW q, Inside(tree, roots, q)
  PROVE  InsideRoots(q, roots)
  BY DEF Inside, InsideRoots, PathWithin, RealRoot

\* A read opens what was resolved.
LEMMA ReadsStep ==
  ASSUME AccessTyped, Resolved, AccessNext, pc = "open", pc' = "served", sure = TRUE
  PROVE  InsideRoots(at', op.policy.reads)
<1>1. at' = Real(tree, at)
  <2>1. OpenRead
    BY DEF AccessNext, Serve, GateRead, GateWrite, Check, InheritPerm, MakeParents, Recheck, Stage, Content, Place,
           Owner, OwnerRemoves, OwnerMoves, OwnerLinks, OwnerMakes, OwnerSeals, OwnerEdits
  <2> QED BY <2>1 DEF OpenRead, Refuse, Goto
<1>2. IsFileSystem(tree) /\ op \in Asks
  BY DEF AccessTyped, AccessTypeOK
<1> DEFINE roots == op.policy.reads
           r == op.path
           p == Abs(r, Cwd)
<1>3. at = ResolveWithinRoots(tree, roots, p) /\ at # NoPath
  BY DEF Resolved
<1>4. roots \in Seq(Seq(STRING)) /\ p \in Seq(STRING)
  <2>1. Cwd \in Seq(STRING) /\ r.parts \in Seq(STRING) /\ roots \in Seq(Seq(STRING))
    BY <1>2, AskIs, AccessAssumption DEF Ordinary
  <2> HIDE DEF r, roots
  <2> QED BY <2>1, AbsIs
<1> HIDE DEF p, roots
<1>5. Stands(tree, at) /\ Inside(tree, roots, at)
  BY <1>2, <1>3, <1>4, WithinIs
<1>6. Real(tree, at) = at
  <2>1. EvalSymlinks(tree, at) = Outcome("ok", at)
    BY <1>2, <1>5, StandsEval
  <2> QED BY <2>1 DEF Real, Outcome
<1>7. QED
  BY <1>1, <1>5, <1>6, InsideIs DEF roots

\* What a step adds to the tree is all that it adds to what was pushed.
LEMMA PushedNew ==
  ASSUME NEW p \in Pushed' \ Pushed, p \in DOMAIN tree => tree'[p] = tree[p]
  PROVE  p \in DOMAIN tree' /\ p \notin DOMAIN tree /\ tree'[p].by = "push"
  BY DEF Pushed

\* The directories a push makes are in the directory it resolved to.
LEMMA ParentsConfined ==
  ASSUME AccessTyped, Resolved, MakeParents, sure = TRUE, NEW p \in Pushed' \ Pushed
  PROVE  Inside(tree, op.policy.write.roots, p)
<1> DEFINE made == MkdirAll(tree, Front(at), perm, "push")
           ask == Front(Asked(op.policy.write, op.path))
           roots == op.policy.write.roots
<1>1. pc = "mkdir" /\ tree' = made.tree
  BY DEF MakeParents
<1>2. IsFileSystem(tree) /\ op \in Asks /\ perm \in Modes /\ at = ResolveWritePath(tree, op.policy.write, op.path) /\ at # NoPath
  BY <1>1 DEF AccessTyped, AccessTypeOK, Resolved, Destination, Writing
<1>3. roots \in Seq(Seq(STRING))
  BY <1>2, AskIs
<1>4. PICK real \in Seq(STRING), n \in Nat : Sited(tree, roots, ask, n, real) /\ Front(at) = real \o Rest(ask, n)
  BY <1>2, DestinationSite
<1> HIDE DEF ask, roots
<1> DEFINE x == Rest(ask, n)
           y == real \o x
<1>5. Fresh(tree, real, x) /\ Inside(tree, roots, real)
  BY <1>4 DEF Sited
<1> HIDE DEF x
<1>6. /\ y \in Seq(STRING) /\ SubSeq(y, 1, Len(real)) = real
      /\ Grown(tree, MkdirAll(tree, y, perm, "push"), perm, "push")
      /\ Reached(tree, y, Len(real), perm, Len(y), MkdirAll(tree, y, perm, "push"))
  BY <1>2, <1>5, MadeBelow
<1>7. Front(at) = y
  BY <1>4 DEF x
<1> HIDE DEF y
<1>8. Grown(tree, made, perm, "push") /\ Reached(tree, y, Len(real), perm, Len(y), made)
  BY <1>6, <1>7
<1> HIDE DEF made
<1>9. p \in DOMAIN tree' /\ p \notin DOMAIN tree
  <2>1. p \in DOMAIN tree => tree'[p] = tree[p]
    BY <1>1, <1>8 DEF Grown, Extends
  <2> QED BY <2>1, PushedNew
<1>10. PICK k \in Len(real) + 1..Len(y) : p = SubSeq(y, 1, k)
  BY <1>1, <1>8, <1>9 DEF Reached
<1>11. Len(real) \in Nat /\ Len(y) \in Nat /\ Len(real) <= k /\ k \in 0..Len(y) /\ Len(real) \in 0..k
  BY <1>6
<1>12. p \in Seq(STRING) /\ Len(p) = k
  BY <1>6, <1>10, <1>11, PrefixOf
<1>13. SubSeq(p, 1, Len(real)) = real
  BY <1>6, <1>10, <1>11, PrefixOfPrefix
<1>14. IsPrefix(real, p)
  <2>1. SubSeq(real, 1, Len(real)) = real
    BY WholePrefix
  <2> QED BY <2>1, <1>11, <1>12, <1>13 DEF IsPrefix
<1>15. Inside(tree, roots, p)
  BY <1>2, <1>3, <1>5, <1>12, <1>14, InsideBelow
<1>16. QED
  BY <1>15 DEF roots

\* So is the staging file.
LEMMA StagedConfined ==
  ASSUME AccessTyped, Resolved, Stage, sure = TRUE, NEW p \in Pushed' \ Pushed
  PROVE  Inside(tree, op.policy.write.roots, p) /\ p = Temp(Front(at))
<1> DEFINE d == EvalSymlinks(tree, Front(at))
           node == Node("file", Slash, "private", "push")
           roots == op.policy.write.roots
<1>1. pc = "stage" /\ (Refuse \/ (d.status = "ok" /\ tree' = Put(tree, Temp(d.path), node)))
  BY DEF Stage
<1>2. IsFileSystem(tree) /\ op \in Asks /\ roots \in Seq(Seq(STRING)) /\ TempName \in STRING
  BY AskIs, AccessAssumption DEF AccessTyped, AccessTypeOK
<1>3. ~Refuse
  BY DEF Refuse, Goto, Pushed
<1>4. d.status = "ok" /\ tree' = Put(tree, Temp(d.path), node)
  BY <1>1, <1>3
<1>5. /\ Front(at) \in Seq(STRING) /\ d = Outcome("ok", Front(at)) /\ Inside(tree, roots, Front(at))
  BY <1>1, <1>4, StagedIn
<1>6. d.path = Front(at)
  BY <1>5 DEF Outcome
<1> HIDE DEF d, roots
<1> DEFINE q == Temp(Front(at))
<1>7. q \in Seq(STRING) /\ q # Slash /\ Front(q) = Front(at)
  BY <1>2, <1>5, AppendIs DEF Temp
<1> HIDE DEF q
<1>8. tree' = Put(tree, q, node)
  BY <1>4, <1>6 DEF q
<1>9. p = q
  <2> SUFFICES ASSUME p # q PROVE FALSE
    OBVIOUS
  <2>1. p \in DOMAIN tree => tree'[p] = tree[p]
    BY <1>8 DEF Put
  <2>2. p \in DOMAIN tree' /\ p \notin DOMAIN tree
    BY <2>1, PushedNew
  <2> QED BY <2>2, <1>8 DEF Put
<1>10. IsPrefix(Front(at), q)
  <2>1. IsPrefix(Front(q), Front(q))
    BY <1>5, <1>7 DEF IsPrefix
  <2> QED BY <2>1, <1>5, <1>7, PrefixFront
<1>11. Inside(tree, roots, q)
  BY <1>2, <1>5, <1>7, <1>10, InsideBelow
<1>12. QED
  BY <1>9, <1>11 DEF q, roots

\* And the file that lands.
LEMMA PlacedConfined ==
  ASSUME AccessTyped, Resolved, Place, sure = TRUE, NEW p \in Pushed' \ Pushed
  PROVE  Inside(tree, op.policy.write.roots, p) /\ p = at
<1> DEFINE d == EvalSymlinks(tree, Front(at))
           dst == Append(d.path, Last(at))
           tmp == Temp(d.path)
           node == Node("file", Slash, perm, "push")
           u == Drop(tree, tmp)
           roots == op.policy.write.roots
<1>1. pc = "place" /\ (tree' = RemoveTemp(tree) \/ tree' = Put(u, dst, node))
  BY DEF Place
<1>2. IsFileSystem(tree) /\ op \in Asks /\ roots \in Seq(Seq(STRING)) /\ TempName \in STRING /\ Ordinary(at) /\ at # Slash
  BY <1>1, AskIs, AccessAssumption DEF AccessTyped, AccessTypeOK, Writing
<1>3. at \in Seq(STRING) /\ Front(at) \in Seq(STRING) /\ Last(at) \in STRING /\ Append(Front(at), Last(at)) = at
  BY <1>2, FrontLast DEF Ordinary, Slash
<1>4. d = Outcome("ok", Front(at)) /\ Inside(tree, roots, Front(at))
  BY <1>1 DEF Resolved
<1>5. d.path = Front(at)
  BY <1>4 DEF Outcome
<1> HIDE DEF d, roots
<1>6. dst = at /\ tmp \in Seq(STRING)
  BY <1>2, <1>3, <1>5, AppendIs DEF Temp
<1> HIDE DEF dst, tmp, node
<1>7. tree' # RemoveTemp(tree)
  <2> SUFFICES ASSUME tree' = RemoveTemp(tree) PROVE FALSE
    OBVIOUS
  <2> DEFINE f == EvalSymlinks(tree, Temp(Front(at)))
  <2>1. tree' = tree \/ tree' = Drop(tree, f.path)
    BY DEF RemoveTemp
  <2> HIDE DEF f
  <2>2. p \in DOMAIN tree' => p \in DOMAIN tree /\ tree'[p] = tree[p]
    BY <2>1 DEF Drop
  <2>3. p \in DOMAIN tree'
    BY DEF Pushed
  <2>4. p \notin DOMAIN tree
    BY <2>2, <2>3, PushedNew
  <2> QED BY <2>2, <2>3, <2>4
<1>8. p = dst
  <2> SUFFICES ASSUME p # dst PROVE FALSE
    OBVIOUS
  <2>1. p \in DOMAIN tree' => p \in DOMAIN u /\ tree'[p] = u[p]
    BY <1>1, <1>7 DEF Put
  <2>2. p \in DOMAIN u => p \in DOMAIN tree /\ u[p] = tree[p]
    BY DEF Drop
  <2> HIDE DEF u
  <2>3. p \in DOMAIN tree'
    BY DEF Pushed
  <2>4. p \notin DOMAIN tree
    BY <2>1, <2>2, <2>3, PushedNew
  <2> QED BY <2>1, <2>2, <2>3, <2>4
<1>9. IsPrefix(Front(at), at)
  <2>1. IsPrefix(Front(at), Front(at))
    BY <1>3 DEF IsPrefix
  <2> QED BY <2>1, <1>2, <1>3, PrefixFront
<1>10. Inside(tree, roots, at)
  BY <1>2, <1>3, <1>4, <1>9, InsideBelow
<1>11. QED
  BY <1>6, <1>8, <1>10 DEF roots

LEMMA WritesStep ==
  ASSUME AccessTyped, Resolved, AccessNext, NEW p \in Pushed' \ Pushed, pc' # pc, sure = TRUE
  PROVE  InsideRoots(p, op.policy.write.roots)
<1>1. tree' # tree
  BY DEF Pushed
<1>2. MakeParents \/ Stage \/ Content \/ Place
  BY <1>1 DEF AccessNext, Serve, GateRead, OpenRead, GateWrite, Check, InheritPerm, Recheck, Refuse, Resolving, Goto,
         Owner, OwnerRemoves, OwnerMoves, OwnerLinks, OwnerMakes, OwnerSeals, OwnerEdits
<1>3. ~Content
  <2> SUFFICES ASSUME Content PROVE FALSE
    OBVIOUS
  <2> DEFINE f == EvalSymlinks(tree, Temp(Front(at)))
  <2>1. tree' = tree \/ tree' = Drop(tree, f.path)
    BY DEF Content, RemoveTemp
  <2> HIDE DEF f
  <2>2. p \in DOMAIN tree' => p \in DOMAIN tree /\ tree'[p] = tree[p]
    BY <2>1 DEF Drop
  <2>3. p \in DOMAIN tree'
    BY DEF Pushed
  <2>4. p \notin DOMAIN tree
    BY <2>2, <2>3, PushedNew
  <2> QED BY <2>2, <2>3, <2>4
<1>4. Inside(tree, op.policy.write.roots, p)
  BY <1>2, <1>3, ParentsConfined, StagedConfined, PlacedConfined
<1>5. QED
  BY <1>4, InsideIs

\* serveFS stays in the roots.  What fsRead, fsList and a share open is really
\* inside a root this device may read, and every directory, staging file and
\* stored file of fsWrite is really inside a writable one, whatever links lead
\* there, unless the owner comes between the resolution and the call.
THEOREM StaysConfined == AccessSpec => WritesConfined /\ ReadsConfined
<1>1. AccessTyped /\ Resolved /\ [AccessNext]_accessVars =>
        [\A p \in Pushed' \ Pushed : pc' # pc /\ sure => InsideRoots(p, op.policy.write.roots)]_accessVars
  <2> SUFFICES ASSUME AccessTyped, Resolved, AccessNext, NEW p \in Pushed' \ Pushed, pc' # pc, sure
               PROVE  InsideRoots(p, op.policy.write.roots)
    OBVIOUS
  <2>1. sure = TRUE
    BY DEF AccessTyped, AccessTypeOK
  <2> QED BY <2>1, WritesStep
<1>2. AccessTyped /\ Resolved /\ [AccessNext]_accessVars =>
        [pc = "open" /\ pc' = "served" /\ sure => InsideRoots(at', op.policy.reads)]_accessVars
  <2> SUFFICES ASSUME AccessTyped, Resolved, AccessNext, pc = "open", pc' = "served", sure
               PROVE  InsideRoots(at', op.policy.reads)
    OBVIOUS
  <2>1. sure = TRUE
    BY DEF AccessTyped, AccessTypeOK
  <2> QED BY <2>1, ReadsStep
<1>3. QED
  BY <1>1, <1>2, ResolvedAlways, PTL DEF AccessSpec, WritesConfined, ReadsConfined

-----------------------------------------------------------------------------
(* A push that has the device to itself. *)

\* The directories a push makes: all or none, as closed as the one they are in, and
\* they leave the destination where it was.
LEMMA ParentsMade ==
  ASSUME NEW t, IsFileSystem(t), NEW a \in Asks, NEW dst, dst = ResolveWritePath(t, a.policy.write, a.path),
         dst # NoPath, NEW d, d = NearestExistingDir(t, Front(dst)), d # NoPath,
         NEW mode \in Modes, mode = ModeAt(t, d), NEW m, m = MkdirAll(t, Front(dst), mode, "push")
  PROVE  /\ Grown(t, m, mode, "push")
         /\ ~m.ok => m.tree = t
         /\ m.ok => /\ At(m.tree, Front(dst)) = "dir" /\ ModeAt(m.tree, Front(dst)) = mode
                    /\ m.tree = t \/ mode # "sealed"
                    /\ dst = ResolveWritePath(m.tree, a.policy.write, a.path)
         /\ \A p \in DOMAIN m.tree : p \notin DOMAIN t => ModeAt(m.tree, Front(p)) = mode
<1> DEFINE ask == Front(Asked(a.policy.write, a.path))
           roots == a.policy.write.roots
           parent == Front(dst)
           u == m.tree
<1>1. PICK real \in Seq(STRING), n \in Nat :
        /\ ask \in Seq(STRING) /\ Sited(t, roots, ask, n, real)
        /\ parent = real \o Rest(ask, n) /\ parent \in Seq(STRING) /\ At(t, dst) # "link"
        /\ ResolveNewParent(t, roots, ask) = parent
  BY DestinationSite
<1>2. roots \in Seq(Seq(STRING))
  BY AskIs
<1> DEFINE x == Rest(ask, n)
           len == Len(real)
<1> HIDE DEF parent
<1>3. Fresh(t, real, x) /\ n \in 0..Len(ask)
  <2> HIDE DEF ask, roots
  <2> QED BY <1>1 DEF Sited
<1> HIDE DEF ask, roots
<1>4. d = real /\ At(t, real) = "dir"
  <2>1. d = NearestExistingDir(t, real \o x)
    BY <1>1 DEF parent
  <2> HIDE DEF x
  <2> QED BY <2>1, <1>3, NearestIs
<1>5. /\ SubSeq(parent, 1, len) = real /\ Len(parent) = len + Len(x)
      /\ Grown(t, m, mode, "push") /\ Reached(t, parent, len, mode, Len(parent), m)
  <2>1. m = MkdirAll(t, real \o x, mode, "push") /\ parent = real \o x
    BY <1>1 DEF parent
  <2> DEFINE p == real \o x
             w == MkdirAll(t, p, mode, "push")
  <2> HIDE DEF x
  <2>2. /\ SubSeq(p, 1, Len(real)) = real /\ Len(p) = Len(real) + Len(x)
        /\ Grown(t, w, mode, "push") /\ Reached(t, p, Len(real), mode, Len(p), w)
    BY <1>3, MadeBelow
  <2>3. m = w /\ parent = p
    BY <2>1
  <2> HIDE DEF p, w
  <2> QED BY <2>2, <2>3
<1> HIDE DEF x
<1>6. x \in Seq(STRING) /\ Len(x) \in Nat /\ len \in Nat /\ Len(parent) \in Nat
  BY <1>1, <1>3 DEF Fresh
<1>7. mode = ModeAt(t, SubSeq(parent, 1, len))
  BY <1>4, <1>5
<1>8. /\ m.ok \in BOOLEAN /\ IsFileSystem(u) /\ Extends(t, u)
      /\ \A q \in DOMAIN u : q \notin DOMAIN t => u[q] = Node("dir", Slash, mode, "push")
  BY <1>5 DEF Grown
<1>9. \A q \in DOMAIN u : q \notin DOMAIN t => \E k \in len + 1..Len(parent) : q = SubSeq(parent, 1, k)
  BY <1>5 DEF Reached
<1>10. ~m.ok => u = t
  BY <1>5, <1>7 DEF Reached
<1>11. \A q : At(t, q) # "absent" => ModeAt(u, q) = ModeAt(t, q)
  <2> SUFFICES ASSUME NEW q, At(t, q) # "absent" PROVE ModeAt(u, q) = ModeAt(t, q)
    OBVIOUS
  <2> HIDE DEF u
  <2>1. q # Slash => u[q] = t[q]
    BY <1>8, AtKept
  <2> QED BY <2>1 DEF ModeAt
<1>12. \A q \in DOMAIN u : q \notin DOMAIN t => q # Slash /\ At(u, q) = "dir" /\ ModeAt(u, q) = mode
  <2> TAKE q \in DOMAIN u
  <2> SUFFICES ASSUME q \notin DOMAIN t PROVE q # Slash /\ At(u, q) = "dir" /\ ModeAt(u, q) = mode
    OBVIOUS
  <2>1. q # Slash
    BY <1>8 DEF IsFileSystem
  <2>2. u[q].kind = "dir" /\ u[q].mode = mode
    <3>1. u[q] = Node("dir", Slash, mode, "push")
      BY <1>8
    <3> QED BY <3>1 DEF Node
  <2> HIDE DEF u
  <2> QED BY <2>1, <2>2 DEF At, ModeAt
<1>13. CASE x = Slash
  <2>1. Len(parent) = len /\ parent = real
    <3>1. Len(x) = 0
      BY <1>13 DEF Slash
    <3>2. Len(parent) = len
      BY <3>1, <1>5, <1>6
    <3> QED BY <3>2, <1>1, <1>5, WholePrefix
  <2>2. u = t
    <3>1. Len(parent) <= len
      BY <2>1, <1>6
    <3> QED BY <3>1, <1>5 DEF Reached
  <2>3. At(u, parent) = "dir" /\ ModeAt(u, parent) = mode
    BY <2>1, <2>2, <1>4
  <2>4. \A p \in DOMAIN u : p \notin DOMAIN t => ModeAt(u, Front(p)) = mode
    BY <2>2
  <2> QED BY <2>2, <2>3, <2>4, <1>5, <1>10 DEF parent
<1>14. CASE x # Slash
  <2>1. Len(x) # 0
    BY <1>14, <1>6, EmptySeq DEF Slash
  <2>2. Len(parent) > len
    BY <2>1, <1>5, <1>6
  <2>3. ASSUME m.ok
        PROVE  /\ At(u, parent) = "dir" /\ ModeAt(u, parent) = mode /\ mode # "sealed"
               /\ dst = ResolveWritePath(u, a.policy.write, a.path)
    <3>1. mode # "sealed" /\ SubSeq(parent, 1, Len(parent)) \in DOMAIN u /\ SubSeq(parent, 1, Len(parent)) \notin DOMAIN t
      BY <1>5, <1>7, <2>2, <2>3 DEF Reached
    <3>2. parent \in DOMAIN u /\ parent \notin DOMAIN t
      BY <3>1, <1>1, WholePrefix
    <3>3. At(u, parent) = "dir" /\ ModeAt(u, parent) = mode
      BY <3>2, <1>12
    <3>4. ResolveNewParent(u, roots, ask) = parent
      <4>1. Sited(t, roots, ask, n, real) /\ Rest(ask, n) # Slash /\ At(u, real \o Rest(ask, n)) = "dir"
        BY <1>1, <1>14, <3>3 DEF x
      <4> HIDE DEF u
      <4>2. ResolveNewParent(u, roots, ask) = real \o Rest(ask, n)
        BY <4>1, <1>1, <1>2, <1>8, ParentAgain
      <4> QED BY <4>2, <1>1
    <3>5. At(u, dst) # "link"
      <4>1. CASE At(t, dst) # "absent"
        BY <4>1, <1>1, <1>8, AtKept
      <4>2. CASE At(t, dst) = "absent"
        <5>1. dst \notin DOMAIN t
          BY <4>2, AtIs
        <5>2. CASE dst \in DOMAIN u
          <6>1. At(u, dst) = "dir"
            BY <5>1, <5>2, <1>12
          <6> QED BY <6>1
        <5>3. CASE dst \notin DOMAIN u
          BY <5>3 DEF At
        <5> QED BY <5>2, <5>3
      <4> QED BY <4>1, <4>2
    <3>6. dst = ResolveWritePath(u, a.policy.write, a.path)
      <4> DEFINE pol == a.policy.write
                 r == a.path
      <4>1. /\ ResolveWritePath(t, pol, r) # NoPath /\ At(u, ResolveWritePath(t, pol, r)) # "link"
            /\ ResolveNewParent(u, pol.roots, Front(Asked(pol, r))) = ResolveNewParent(t, pol.roots, Front(Asked(pol, r)))
        BY <3>4, <3>5, <1>1 DEF ask, roots
      <4> HIDE DEF pol, r, u
      <4>2. ResolveWritePath(u, pol, r) = ResolveWritePath(t, pol, r)
        BY <4>1, WritePathAgain
      <4> QED BY <4>2 DEF pol, r
    <3> QED BY <3>1, <3>3, <3>6
  <2>4. ASSUME NEW p \in DOMAIN u, p \notin DOMAIN t PROVE ModeAt(u, Front(p)) = mode
    <3>1. PICK k \in len + 1..Len(parent) : p = SubSeq(parent, 1, k)
      BY <1>9, <2>4
    <3>2. k \in 1..Len(parent) /\ k - 1 \in 0..Len(parent) /\ k - 1 >= len
      BY <1>6
    <3>3. Front(p) = SubSeq(parent, 1, k - 1)
      BY <3>1, <3>2, <1>1, FrontOfPrefix
    <3>4. CASE k - 1 = len
      <4>1. Front(p) = real
        BY <3>3, <3>4, <1>5
      <4>2. ModeAt(u, real) = ModeAt(t, real)
        BY <1>4, <1>11
      <4> QED BY <4>1, <4>2, <1>4
    <3>5. CASE k - 1 # len
      <4>1. k - 1 \in len + 1..Len(parent) /\ k - 1 \in 1..Len(parent)
        BY <3>2, <3>5, <1>6
      <4> DEFINE q == SubSeq(parent, 1, k - 1)
      <4>2. q # Slash
        BY <4>1, <1>1, PrefixNamed
      <4>3. At(t, q) = "absent"
        <5> DEFINE i == k - 1
        <5>1. parent = real \o x
          BY <1>1 DEF x
        <5>2. i \in Len(real) + 1..Len(real \o x)
          BY <4>1, <5>1
        <5> HIDE DEF i
        <5>3. At(t, SubSeq(real \o x, 1, i)) = "absent"
          BY <5>2, <1>3, FreshAbsent
        <5> QED BY <5>1, <5>3 DEF i
      <4> HIDE DEF q
      <4>4. q \notin DOMAIN t
        BY <4>3, AtIs
      <4>5. At(u, q) = "dir"
        BY <1>8, <3>3 DEF IsFileSystem, q
      <4>6. q \in DOMAIN u
        BY <4>2, <4>5 DEF At
      <4> QED BY <4>4, <4>6, <1>12, <3>3 DEF q
    <3> QED BY <3>4, <3>5
  <2> QED BY <2>3, <2>4, <1>5, <1>10 DEF parent
<1>15. QED
  BY <1>13, <1>14

\* What holds while the owner does nothing.
Alone ==
  quiet =>
    /\ pc \in {"gate", "open", "check", "perm", "mkdir", "served", "refused"} => Pushed = {}
    /\ pc = "mkdir" => /\ NearestExistingDir(tree, Front(at)) # NoPath
                       /\ perm = ModeAt(tree, NearestExistingDir(tree, Front(at)))
    /\ pc \in {"recheck", "stage", "content", "place"} =>
         At(tree, Front(at)) = "dir" /\ ModeAt(tree, Front(at)) = perm
    /\ pc \in {"recheck", "stage"} => Pushed = {} \/ perm # "sealed"
    /\ pc = "recheck" => at = Destination(tree)
    /\ pc \in {"content", "place"} =>
         /\ perm # "sealed" /\ At(tree, Temp(Front(at))) = "file"
         /\ \A p \in DOMAIN tree : p # Temp(Front(at)) => Ordinary(p)
    /\ pc \in {"failed", "done"} => NamesOrdinary(tree)

LEMMA AloneAtFirst == ASSUME AccessInit PROVE Alone
<1>1. tree \in Trees /\ pc = "gate"
  BY DEF AccessInit
<1>2. Pushed = {}
  BY <1>1, AccessAssumption DEF Pushed
<1>3. QED
  BY <1>1, <1>2 DEF Alone

\* A step that leaves the tree alone, as long as nothing was pushed.
LEMMA AloneGoto ==
  ASSUME quiet' => Pushed = {}, tree' = tree, pc' \in {"open", "check", "perm", "served", "refused"}
  PROVE  Alone'
<1>1. Pushed' = Pushed
  BY DEF Pushed
<1>2. QED
  BY <1>1 DEF Alone

LEMMA AloneParents == ASSUME AccessTyped, Resolved, Alone, MakeParents PROVE Alone'
<1> SUFFICES ASSUME quiet' PROVE Alone'
  BY DEF Alone
<1> DEFINE d == NearestExistingDir(tree, Front(at))
           m == MkdirAll(tree, Front(at), perm, "push")
<1>1. /\ pc = "mkdir" /\ tree' = m.tree /\ pc' = IF m.ok THEN "recheck" ELSE "refused"
      /\ op' = op /\ at' = at /\ perm' = perm /\ quiet
  BY DEF MakeParents
<1>2. sure = TRUE
  BY <1>1 DEF AccessTyped, AccessTypeOK, Resolved
<1>3. /\ IsFileSystem(tree) /\ op \in Asks /\ perm \in Modes
      /\ at = ResolveWritePath(tree, op.policy.write, op.path) /\ at # NoPath
  BY <1>1, <1>2 DEF AccessTyped, AccessTypeOK, Resolved, Destination, Writing
<1>4. Pushed = {} /\ d # NoPath /\ perm = ModeAt(tree, d)
  BY <1>1 DEF Alone
<1>5. /\ ~m.ok => m.tree = tree
      /\ m.ok => /\ At(m.tree, Front(at)) = "dir" /\ ModeAt(m.tree, Front(at)) = perm
                 /\ m.tree = tree \/ perm # "sealed"
                 /\ at = ResolveWritePath(m.tree, op.policy.write, op.path)
  <2> HIDE DEF d
  <2> QED BY <1>3, <1>4, ParentsMade DEF d
<1> HIDE DEF m
<1>6. CASE ~m.ok
  <2>1. pc' = "refused" /\ tree' = tree
    BY <1>1, <1>5, <1>6
  <2> QED BY <1>4, <2>1, AloneGoto
<1>7. CASE m.ok
  <2>1. pc' = "recheck"
    BY <1>1, <1>7
  <2>2. At(tree', Front(at')) = "dir" /\ ModeAt(tree', Front(at')) = perm'
    BY <1>1, <1>5, <1>7
  <2>3. at' = Destination(tree)'
    BY <1>1, <1>5, <1>7 DEF Destination
  <2>4. tree' = tree => Pushed' = Pushed
    BY DEF Pushed
  <2>5. Pushed' = {} \/ perm' # "sealed"
    BY <1>1, <1>4, <1>5, <1>7, <2>4
  <2> QED BY <2>1, <2>2, <2>3, <2>5 DEF Alone
<1>8. QED
  BY <1>6, <1>7

LEMMA AloneStage == ASSUME AccessTyped, Alone, Stage PROVE Alone'
<1> SUFFICES ASSUME quiet' PROVE Alone'
  BY DEF Alone
<1> DEFINE d == EvalSymlinks(tree, Front(at))
           node == Node("file", Slash, "private", "push")
           q == Temp(Front(at))
<1>1. pc = "stage" /\ quiet
      /\ IF d.status = "ok" /\ Writable(tree, d.path)
         THEN tree' = Put(tree, Temp(d.path), node) /\ pc' = "content" /\ at' = at /\ perm' = perm
         ELSE Refuse
  BY DEF Stage, Refuse, Goto
<1>2. /\ At(tree, Front(at)) = "dir" /\ ModeAt(tree, Front(at)) = perm
      /\ Pushed = {} \/ perm # "sealed"
  BY <1>1 DEF Alone
<1>3. IsFileSystem(tree) /\ NamesOrdinary(tree) /\ Ordinary(at) /\ at # Slash
  BY <1>1 DEF AccessTyped, AccessTypeOK, Unstaged, Ended, Writing
<1>4. Front(at) \in Seq(STRING)
  BY <1>3, FrontLast DEF Ordinary, Slash
<1>5. d = Outcome("ok", Front(at))
  <2>1. Stands(tree, Front(at))
    BY <1>2, <1>3, <1>4, ThereStands
  <2> QED BY <2>1, <1>3, StandsEval
<1>6. d.status = "ok" /\ d.path = Front(at)
  BY <1>5 DEF Outcome
<1> HIDE DEF d
<1>7. CASE perm = "sealed"
  <2>1. ~Writable(tree, d.path)
    BY <1>2, <1>6, <1>7 DEF Writable
  <2>2. tree' = tree /\ pc' = "refused"
    BY <1>1, <2>1 DEF Refuse, Goto
  <2> QED BY <1>2, <1>7, <2>2, AloneGoto
<1>8. CASE perm # "sealed"
  <2>1. Writable(tree, d.path)
    BY <1>2, <1>6, <1>8 DEF Writable
  <2>2. tree' = Put(tree, q, node) /\ pc' = "content" /\ at' = at /\ perm' = perm
    BY <1>1, <1>6, <2>1
  <2>3. q # Slash /\ q # Front(at) /\ node.kind = "file"
    <3>1. TempName \in STRING
      BY AccessAssumption
    <3>2. q # Slash /\ Len(q) = Len(Front(at)) + 1 /\ Len(Front(at)) \in Nat
      <4> DEFINE f == Front(at)
      <4>1. f \in Seq(STRING)
        BY <1>4
      <4> HIDE DEF f
      <4>2. Temp(f) # Slash /\ Len(Temp(f)) = Len(f) + 1
        BY <3>1, <4>1, AppendIs DEF Temp
      <4>3. Len(f) \in Nat
        BY <4>1
      <4> QED BY <4>2, <4>3 DEF f
    <3>3. q # Front(at)
      <4> HIDE DEF q
      <4> QED BY <3>2
    <3> QED BY <3>2, <3>3 DEF Node
  <2> HIDE DEF q, node
  <2>4. At(tree', q) = "file" /\ At(tree', Front(at)) = "dir"
    BY <1>2, <2>2, <2>3, PutAt
  <2>5. ModeAt(tree', Front(at)) = perm
    <3>1. Front(at) # Slash => Front(at) \in DOMAIN tree
      BY <1>2 DEF At
    <3>2. Front(at) # Slash => tree'[Front(at)] = tree[Front(at)]
      BY <2>2, <2>3, <3>1 DEF Put
    <3> QED BY <3>2, <1>2 DEF ModeAt
  <2>6. \A p \in DOMAIN tree' : p # q => Ordinary(p)
    <3>1. DOMAIN tree' = DOMAIN tree \cup {q}
      BY <2>2 DEF Put
    <3> QED BY <3>1, <1>3 DEF NamesOrdinary
  <2>7. /\ At(tree', Front(at')) = "dir" /\ ModeAt(tree', Front(at')) = perm'
        /\ perm' # "sealed" /\ At(tree', Temp(Front(at'))) = "file"
        /\ \A p \in DOMAIN tree' : p # Temp(Front(at')) => Ordinary(p)
    BY <1>8, <2>2, <2>4, <2>5, <2>6 DEF q
  <2> QED BY <2>2, <2>7 DEF Alone
<1>9. QED
  BY <1>7, <1>8

\* The staging file is found and removed again.
LEMMA AloneRemoved ==
  ASSUME AccessTyped, Alone, quiet, pc \in {"content", "place"}
  PROVE  NamesOrdinary(RemoveTemp(tree))
<1> DEFINE q == Temp(Front(at))
           f == EvalSymlinks(tree, q)
<1>1. /\ At(tree, Front(at)) = "dir" /\ ModeAt(tree, Front(at)) = perm /\ perm # "sealed" /\ At(tree, q) = "file"
      /\ \A p \in DOMAIN tree : p # q => Ordinary(p)
  BY DEF Alone
<1>2. IsFileSystem(tree) /\ Ordinary(at) /\ at # Slash
  BY DEF AccessTyped, AccessTypeOK, Writing
<1>3. Front(at) \in Seq(STRING)
  BY <1>2, FrontLast DEF Ordinary, Slash
<1>4. q \in Seq(STRING) /\ Front(q) = Front(at)
  <2>1. TempName \in STRING
    BY AccessAssumption
  <2> QED BY <2>1, <1>3, AppendIs DEF Temp
<1> HIDE DEF q
<1>5. f = Outcome("ok", q)
  <2>1. Stands(tree, q)
    BY <1>1, <1>2, <1>4, ThereStands
  <2> QED BY <2>1, <1>2, StandsEval
<1>6. f.status = "ok" /\ f.path = q
  BY <1>5 DEF Outcome
<1>7. Writable(tree, Front(f.path))
  BY <1>1, <1>4, <1>6 DEF Writable
<1>8. RemoveTemp(tree) = Drop(tree, q)
  <2>1. RemoveTemp(tree) = IF f.status = "ok" /\ Writable(tree, Front(f.path)) THEN Drop(tree, f.path) ELSE tree
    BY DEF RemoveTemp, q
  <2> HIDE DEF f
  <2> QED BY <2>1, <1>6, <1>7
<1>9. IsPrefix(q, q)
  BY <1>4 DEF IsPrefix
<1>10. \A p \in DOMAIN Drop(tree, q) : p \in DOMAIN tree /\ p # q
  <2>1. Pruned(tree, q, Drop(tree, q))
    BY <1>2, <1>4, DropIs
  <2> QED BY <2>1, <1>9 DEF Pruned
<1>11. QED
  BY <1>1, <1>8, <1>10 DEF NamesOrdinary

LEMMA AlonePlace == ASSUME AccessTyped, Alone, Place PROVE Alone'
<1> SUFFICES ASSUME quiet' PROVE Alone'
  BY DEF Alone
<1> DEFINE d == EvalSymlinks(tree, Front(at))
           dst == Append(d.path, Last(at))
           tmp == Temp(d.path)
           node == Node("file", Slash, perm, "push")
           u == Drop(tree, tmp)
<1>1. /\ pc = "place" /\ quiet /\ pc' \in {"done", "failed"}
      /\ tree' = RemoveTemp(tree) \/ tree' = Put(u, dst, node)
  BY DEF Place
<1>2. /\ At(tree, Front(at)) = "dir" /\ \A p \in DOMAIN tree : p # Temp(Front(at)) => Ordinary(p)
  BY <1>1 DEF Alone
<1>3. IsFileSystem(tree) /\ Ordinary(at) /\ at # Slash
  BY <1>1 DEF AccessTyped, AccessTypeOK, Writing
<1>4. Front(at) \in Seq(STRING) /\ Append(Front(at), Last(at)) = at
  BY <1>3, FrontLast DEF Ordinary, Slash
<1>5. d = Outcome("ok", Front(at))
  <2>1. Stands(tree, Front(at))
    BY <1>2, <1>3, <1>4, ThereStands
  <2> QED BY <2>1, <1>3, StandsEval
<1>6. d.path = Front(at)
  BY <1>5 DEF Outcome
<1> HIDE DEF d
<1>7. dst = at /\ tmp = Temp(Front(at))
  BY <1>4, <1>6
<1>8. NamesOrdinary(tree')
  <2>1. CASE tree' = RemoveTemp(tree)
    BY <2>1, <1>1, AloneRemoved
  <2>2. CASE tree' = Put(u, dst, node)
    <3>1. tmp \in Seq(STRING)
      <4>1. TempName \in STRING
        BY AccessAssumption
      <4> QED BY <4>1, <1>4, <1>7, AppendIs DEF Temp
    <3>2. IsPrefix(tmp, tmp)
      BY <3>1 DEF IsPrefix
    <3> HIDE DEF tmp, dst, node
    <3>3. \A p \in DOMAIN u : p \in DOMAIN tree /\ p # tmp
      <4>1. Pruned(tree, tmp, u)
        BY <1>3, <3>1, DropIs
      <4> QED BY <4>1, <3>2 DEF Pruned
    <3> HIDE DEF u
    <3>4. DOMAIN tree' = DOMAIN u \cup {at}
      BY <2>2, <1>7 DEF Put
    <3> QED BY <3>3, <3>4, <1>2, <1>3, <1>7 DEF NamesOrdinary
  <2> QED BY <2>1, <2>2, <1>1
<1>9. QED
  BY <1>1, <1>8 DEF Alone

LEMMA AloneContent == ASSUME AccessTyped, Alone, Content PROVE Alone'
<1> SUFFICES ASSUME quiet' PROVE Alone'
  BY DEF Alone
<1>1. /\ pc = "content" /\ quiet /\ at' = at /\ perm' = perm
      /\ (pc' = "place" /\ tree' = tree) \/ (pc' = "failed" /\ tree' = RemoveTemp(tree))
  BY DEF Content
<1>2. CASE pc' = "place" /\ tree' = tree
  BY <1>1, <1>2 DEF Alone
<1>3. CASE pc' = "failed" /\ tree' = RemoveTemp(tree)
  <2>1. NamesOrdinary(tree')
    BY <1>1, <1>3, AloneRemoved
  <2> QED BY <1>3, <2>1 DEF Alone
<1>4. QED
  BY <1>1, <1>2, <1>3

LEMMA AloneStep == ASSUME AccessTyped, Resolved, Alone, [AccessNext]_accessVars PROVE Alone'
<1>1. CASE UNCHANGED accessVars
  BY <1>1 DEF Alone, Destination, Pushed, NamesOrdinary, accessVars
<1>2. CASE Owner
  BY <1>2 DEF Owner, OwnerRemoves, OwnerMoves, OwnerLinks, OwnerMakes, OwnerSeals, OwnerEdits, Alone
<1>3. CASE GateRead \/ OpenRead \/ GateWrite \/ Check
  <2>1. tree' = tree /\ quiet' = quiet /\ pc' \in {"open", "check", "perm", "served", "refused"}
    BY <1>3 DEF GateRead, OpenRead, GateWrite, Check, Refuse, Resolving, Goto
  <2>2. pc \in {"gate", "open", "check"}
    BY <1>3 DEF GateRead, OpenRead, GateWrite, Check
  <2>3. quiet' => Pushed = {}
    BY <2>1, <2>2 DEF Alone
  <2> QED BY <2>1, <2>3, AloneGoto
<1>4. CASE InheritPerm
  <2> DEFINE d == NearestExistingDir(tree, Front(at))
  <2>1. pc = "perm" /\ (Refuse \/ (/\ d # NoPath /\ perm' = ModeAt(tree, d) /\ pc' = "mkdir"
                                   /\ tree' = tree /\ at' = at /\ quiet' = quiet))
    BY <1>4 DEF InheritPerm
  <2>2. quiet => Pushed = {}
    BY <2>1 DEF Alone
  <2>3. CASE Refuse
    <3>1. tree' = tree /\ quiet' = quiet /\ pc' = "refused"
      BY <2>3 DEF Refuse, Goto
    <3> QED BY <2>2, <3>1, AloneGoto
  <2>4. CASE d # NoPath /\ perm' = ModeAt(tree, d) /\ pc' = "mkdir" /\ tree' = tree /\ at' = at /\ quiet' = quiet
    <3>1. Pushed' = Pushed
      BY <2>4 DEF Pushed
    <3>2. quiet' => Pushed' = {}
      BY <2>2, <2>4, <3>1
    <3>3. NearestExistingDir(tree', Front(at')) # NoPath /\ perm' = ModeAt(tree', NearestExistingDir(tree', Front(at')))
      BY <2>4
    <3> QED BY <2>4, <3>2, <3>3 DEF Alone
  <2> QED BY <2>1, <2>3, <2>4
<1>5. CASE Recheck
  <2>1. /\ pc = "recheck" /\ tree' = tree /\ quiet' = quiet /\ op' = op /\ perm' = perm /\ at' = at
        /\ pc' = IF Destination(tree) = at THEN "stage" ELSE "refused"
    BY <1>5 DEF Recheck, Refuse, Goto, Destination
  <2> SUFFICES ASSUME quiet PROVE Alone'
    BY <2>1 DEF Alone
  <2>2. /\ at = Destination(tree) /\ At(tree, Front(at)) = "dir" /\ ModeAt(tree, Front(at)) = perm
        /\ Pushed = {} \/ perm # "sealed"
    BY <2>1 DEF Alone
  <2>3. pc' = "stage"
    BY <2>1, <2>2
  <2>4. Pushed' = Pushed
    BY <2>1 DEF Pushed
  <2>5. /\ At(tree', Front(at')) = "dir" /\ ModeAt(tree', Front(at')) = perm'
        /\ Pushed' = {} \/ perm' # "sealed"
    BY <2>1, <2>2, <2>4
  <2> QED BY <2>3, <2>5 DEF Alone
<1>6. QED
  BY <1>1, <1>2, <1>3, <1>4, <1>5, AloneParents, AloneStage, AloneContent, AlonePlace DEF AccessNext, Serve

\* The inductive invariant of one operation.
Undisturbed == AccessTyped /\ Resolved /\ Alone

LEMMA UndisturbedAlways == AccessSpec => []Undisturbed
<1>1. AccessInit => Undisturbed
  BY AccessTypedAtFirst, ResolvedAtFirst, AloneAtFirst DEF Undisturbed
<1>2. Undisturbed /\ [AccessNext]_accessVars => Undisturbed'
  BY AccessTypedStep, ResolvedStep, AloneStep DEF Undisturbed
<1>3. QED
  BY <1>1, <1>2, PTL DEF AccessSpec

\* A push that has the device to itself leaves nothing unless it landed: refused
\* by fsWrite it created no directory, as os.MkdirAll under the mode of the
\* nearest existing directory makes all of them or none; ended later, its
\* staging file is found by name and removed.
THEOREM LeavesNoTrace == AccessSpec => []LeavesNothing
<1>1. Undisturbed => LeavesNothing
  <2> SUFFICES ASSUME Undisturbed, quiet
               PROVE  /\ pc = "refused" => Pushed = {}
                      /\ pc \in Ended => \A p \in Pushed : Last(p) # TempName
    BY DEF LeavesNothing
  <2>1. pc \in {"refused", "served"} => Pushed = {}
    BY DEF Undisturbed, Alone
  <2>2. ASSUME pc \in {"failed", "done"}, NEW p \in Pushed PROVE Last(p) # TempName
    <3>1. p \in DOMAIN tree /\ NamesOrdinary(tree) /\ IsFileSystem(tree)
      BY <2>2 DEF Undisturbed, Alone, Pushed, AccessTyped, AccessTypeOK
    <3>2. Ordinary(p) /\ p # Slash
      BY <3>1 DEF NamesOrdinary, IsFileSystem
    <3> QED BY <3>2, OrdinaryParts
  <2> QED BY <2>1, <2>2 DEF Ended
<1>2. QED
  BY <1>1, UndisturbedAlways, PTL

\* What a push creates is as closed as the directory it is in.
LEMMA NarrowStep ==
  ASSUME Undisturbed, AccessNext, quiet', NEW p \in Pushed' \ Pushed, ModeAt(tree', Front(p)) # "open"
  PROVE  tree'[p].mode # "open"
<1>1. tree' # tree /\ quiet
  <2>1. tree' # tree
    BY DEF Pushed
  <2>2. quiet
    BY DEF AccessNext, Serve, GateRead, OpenRead, GateWrite, Check, InheritPerm, MakeParents, Recheck, Stage, Content, Place,
           Refuse, Resolving, Goto, Owner, OwnerRemoves, OwnerMoves, OwnerLinks, OwnerMakes, OwnerSeals, OwnerEdits
  <2> QED BY <2>1, <2>2
<1>2. AccessTyped /\ Resolved /\ Alone /\ sure = TRUE
  BY <1>1 DEF Undisturbed, Resolved, AccessTyped, AccessTypeOK
<1>3. MakeParents \/ Stage \/ Content \/ Place
  BY <1>1 DEF AccessNext, Serve, GateRead, OpenRead, GateWrite, Check, InheritPerm, Recheck, Refuse, Resolving, Goto,
         Owner, OwnerRemoves, OwnerMoves, OwnerLinks, OwnerMakes, OwnerSeals, OwnerEdits
<1>4. CASE MakeParents
  <2> DEFINE m == MkdirAll(tree, Front(at), perm, "push")
             d == NearestExistingDir(tree, Front(at))
  <2>1. pc = "mkdir" /\ tree' = m.tree
    BY <1>4 DEF MakeParents
  <2>2. /\ IsFileSystem(tree) /\ op \in Asks /\ perm \in Modes
        /\ at = ResolveWritePath(tree, op.policy.write, op.path) /\ at # NoPath
    BY <1>2, <2>1 DEF AccessTyped, AccessTypeOK, Resolved, Destination, Writing
  <2>3. d # NoPath /\ perm = ModeAt(tree, d)
    BY <1>1, <1>2, <2>1 DEF Alone
  <2>4. /\ Grown(tree, m, perm, "push")
        /\ \A q \in DOMAIN m.tree : q \notin DOMAIN tree => ModeAt(m.tree, Front(q)) = perm
    <3> HIDE DEF d
    <3> QED BY <2>2, <2>3, ParentsMade DEF d
  <2> HIDE DEF m
  <2>5. /\ \A q \in DOMAIN tree : q \in DOMAIN tree' /\ tree'[q] = tree[q]
        /\ \A q \in DOMAIN tree' : q \notin DOMAIN tree => tree'[q] = Node("dir", Slash, perm, "push")
    BY <2>1, <2>4 DEF Grown, Extends
  <2>6. p \in DOMAIN tree' /\ p \notin DOMAIN tree
    BY <2>5, PushedNew
  <2>7. tree'[p] = Node("dir", Slash, perm, "push") /\ ModeAt(tree', Front(p)) = perm
    BY <2>1, <2>4, <2>5, <2>6
  <2>8. tree'[p].mode = perm
    BY <2>7 DEF Node
  <2> QED BY <2>7, <2>8
<1>5. CASE Stage
  <2> DEFINE d == EvalSymlinks(tree, Front(at))
             node == Node("file", Slash, "private", "push")
             q == Temp(d.path)
  <2>1. tree' = Put(tree, q, node)
    BY <1>1, <1>5 DEF Stage, Refuse, Goto
  <2> HIDE DEF q
  <2>2. p = q
    <3> SUFFICES ASSUME p # q PROVE FALSE
      OBVIOUS
    <3>1. p \in DOMAIN tree => tree'[p] = tree[p]
      BY <2>1 DEF Put
    <3>2. p \in DOMAIN tree' /\ p \notin DOMAIN tree
      BY <3>1, PushedNew
    <3> QED BY <3>2, <2>1 DEF Put
  <2>3. tree'[p] = node
    BY <2>1, <2>2 DEF Put
  <2> QED BY <2>3 DEF Node
<1>6. ~Content
  <2> SUFFICES ASSUME Content PROVE FALSE
    OBVIOUS
  <2> DEFINE f == EvalSymlinks(tree, Temp(Front(at)))
  <2>1. tree' = tree \/ tree' = Drop(tree, f.path)
    BY DEF Content, RemoveTemp
  <2> HIDE DEF f
  <2>2. p \in DOMAIN tree' => p \in DOMAIN tree /\ tree'[p] = tree[p]
    BY <2>1 DEF Drop
  <2>3. p \in DOMAIN tree'
    BY DEF Pushed
  <2>4. p \notin DOMAIN tree
    BY <2>2, <2>3, PushedNew
  <2> QED BY <2>2, <2>3, <2>4
<1>7. CASE Place
  <2> DEFINE d == EvalSymlinks(tree, Front(at))
             dst == Append(d.path, Last(at))
             tmp == Temp(d.path)
             node == Node("file", Slash, perm, "push")
             u == Drop(tree, tmp)
             f == EvalSymlinks(tree, Temp(Front(at)))
  <2>1. p = at
    BY <1>2, <1>7, PlacedConfined
  <2>2. pc = "place" /\ (tree' = tree \/ tree' = Drop(tree, f.path) \/ tree' = Put(u, dst, node))
    BY <1>7 DEF Place, RemoveTemp
  <2>3. /\ IsFileSystem(tree) /\ Ordinary(at) /\ at # Slash /\ TempName \in STRING
        /\ At(tree, Front(at)) = "dir" /\ ModeAt(tree, Front(at)) = perm
    BY <1>1, <1>2, <2>2, AccessAssumption DEF AccessTyped, AccessTypeOK, Writing, Alone
  <2>4. at \in Seq(STRING) /\ Front(at) \in Seq(STRING) /\ Append(Front(at), Last(at)) = at
    BY <2>3, FrontLast DEF Ordinary, Slash
  <2>5. d = Outcome("ok", Front(at))
    <3>1. Stands(tree, Front(at))
      BY <2>3, <2>4, ThereStands
    <3> QED BY <3>1, <2>3, StandsEval
  <2>6. d.path = Front(at)
    BY <2>5 DEF Outcome
  <2> HIDE DEF d, f
  <2>7. dst = at /\ tmp = Temp(Front(at))
    BY <2>4, <2>6
  <2>8. tmp \in Seq(STRING) /\ tmp # Slash /\ Front(tmp) = Front(at)
    BY <2>3, <2>4, <2>7, AppendIs DEF Temp
  <2> HIDE DEF tmp, dst, node
  <2>9. tree' = Put(u, at, node)
    <3> SUFFICES ASSUME tree' = tree \/ tree' = Drop(tree, f.path) PROVE FALSE
      BY <2>2, <2>7
    <3>1. p \in DOMAIN tree' => p \in DOMAIN tree /\ tree'[p] = tree[p]
      BY DEF Drop
    <3>2. p \in DOMAIN tree'
      BY DEF Pushed
    <3>3. p \notin DOMAIN tree
      BY <3>1, <3>2, PushedNew
    <3> QED BY <3>1, <3>2, <3>3
  <2>10. tree'[p] = node
    BY <2>1, <2>9 DEF Put
  <2>11. Front(at) # Slash => tree'[Front(at)] = tree[Front(at)]
    <3> SUFFICES ASSUME Front(at) # Slash PROVE tree'[Front(at)] = tree[Front(at)]
      OBVIOUS
    <3>1. Front(at) \in DOMAIN tree
      BY <2>3 DEF At
    <3>2. ~IsPrefix(tmp, Front(at)) /\ ~IsPrefix(at, Front(at))
      BY <2>3, <2>4, <2>8, PrefixFront
    <3>3. Front(at) # at
      BY <3>2, <2>4 DEF IsPrefix
    <3>4. Front(at) \in DOMAIN u /\ u[Front(at)] = tree[Front(at)]
      <4>1. Pruned(tree, tmp, u)
        BY <2>3, <2>8, DropIs
      <4> QED BY <4>1, <3>1, <3>2 DEF Pruned
    <3> HIDE DEF u
    <3> QED BY <2>9, <3>3, <3>4 DEF Put
  <2>12. ModeAt(tree', Front(p)) = perm
    BY <2>1, <2>3, <2>11 DEF ModeAt
  <2>13. tree'[p].mode = perm
    BY <2>10 DEF Node, node
  <2> QED BY <2>12, <2>13
<1>8. QED
  BY <1>3, <1>4, <1>5, <1>6, <1>7

\* The three together: reads and pushes stay in their roots, and what fsWrite
\* creates, with the mode of the nearest existing directory, is as closed as the
\* directory it is in.
THEOREM Confinement == AccessSpec => AccessConfined
<1>1. Undisturbed /\ [AccessNext]_accessVars =>
        [quiet' => \A p \in Pushed' \ Pushed :
           ModeAt(tree', Front(p)) # "open" => tree'[p].mode # "open"]_accessVars
  <2> SUFFICES ASSUME Undisturbed, AccessNext, quiet', NEW p \in Pushed' \ Pushed, ModeAt(tree', Front(p)) # "open"
               PROVE  tree'[p].mode # "open"
    OBVIOUS
  <2> QED BY NarrowStep
<1>2. AccessSpec => NeverWidens
  BY <1>1, UndisturbedAlways, PTL DEF AccessSpec, NeverWidens
<1>3. QED
  BY <1>2, StaysConfined, PTL DEF AccessConfined

-----------------------------------------------------------------------------
(* A path resolved twice. *)

\* No root of a policy is the top of the file system, by name or through a link.
NoTop ==
  /\ \A t \in Trees : \A p \in DOMAIN t : t[p].kind = "link" => t[p].to # Slash
  /\ Slash \notin Links
  /\ \A a \in Asks : \A i \in DOMAIN a.policy.reads : a.policy.reads[i] # Slash

LeadsDown(t) == \A p \in DOMAIN t : t[p].kind = "link" => t[p].to # Slash

\* Then no walk comes to the top.
LEMMA WalkBelow ==
  ASSUME NEW t, IsFileSystem(t), LeadsDown(t), NEW p \in Seq(STRING), p # Slash
  PROVE  Walk(t, p)[MaxLinks] # Slash
<1> DEFINE w == Walk(t, p)
           E == {n \in 0..MaxLinks : w[n] # Slash}
<1>1. /\ w[0] = p
      /\ \A n \in 0..MaxLinks : w[n] \in Seq(STRING)
      /\ \A n \in 1..MaxLinks : w[n] = PastLink(t, w[n - 1])
  BY WalkIs
<1>2. MaxLinks \in Nat
  BY AccessAssumption
<1> HIDE DEF w
<1>3. 0 \in E
  BY <1>1, <1>2
<1>4. \A n \in 0..MaxLinks - 1 : n \in E => n + 1 \in E
  <2> SUFFICES ASSUME NEW n \in 0..MaxLinks - 1, w[n] # Slash PROVE n + 1 \in E
    OBVIOUS
  <2>1. n + 1 \in 1..MaxLinks /\ (n + 1) - 1 = n /\ n \in 0..MaxLinks /\ n + 1 \in 0..MaxLinks
    BY <1>2
  <2> DEFINE q == w[n]
             k == Stop(t, q)
             here == SubSeq(q, 1, k)
             to == t[here].to
             rest == SubSeq(q, k + 1, Len(q))
  <2>2. w[n + 1] = PastLink(t, q) /\ q \in Seq(STRING)
    BY <1>1, <2>1
  <2>3. PastLink(t, q) = q \/ (k <= Len(q) /\ At(t, here) = "link" /\ PastLink(t, q) = to \o rest)
    BY DEF PastLink
  <2> HIDE DEF q
  <2>4. CASE k <= Len(q) /\ At(t, here) = "link" /\ PastLink(t, q) = to \o rest
    <3>1. k \in 0..Len(q)
      <4>1. k \in 1..Len(q) + 1
        BY <2>2, StopIs
      <4> HIDE DEF k
      <4> QED BY <4>1, <2>2, <2>4
    <3> HIDE DEF k
    <3>2. rest \in Seq(STRING)
      BY <2>2, <3>1, RestOf
    <3>3. here \in DOMAIN t /\ t[here].kind = "link"
      <4> HIDE DEF here
      <4> QED BY <2>4, AtIs
    <3>4. to \in Seq(STRING) /\ to # Slash
      <4>1. t[here] \in FileNode
        BY <3>3 DEF IsFileSystem
      <4> QED BY <4>1, <3>3 DEF FileNode, LeadsDown
    <3> HIDE DEF rest, to
    <3>5. Len(to) # 0 /\ Len(to) \in Nat /\ Len(rest) \in Nat /\ Len(to \o rest) = Len(to) + Len(rest)
      BY <3>2, <3>4, EmptySeq, ConcatProperties DEF Slash
    <3>6. to \o rest # Slash
      <4>1. Len(to \o rest) # 0
        BY <3>5
      <4>2. Len(Slash) = 0
        BY DEF Slash
      <4> QED BY <4>1, <4>2
    <3> QED BY <3>6, <2>1, <2>2, <2>4
  <2>5. CASE PastLink(t, q) = q
    BY <2>1, <2>2, <2>5 DEF q
  <2> QED BY <2>3, <2>4, <2>5
<1> HIDE DEF E
<1>5. 0..MaxLinks \subseteq E
  BY <1>2, <1>3, <1>4, UpTo
<1>6. MaxLinks \in E
  BY <1>2, <1>5
<1>7. QED
  BY <1>6 DEF E, w

LEMMA RealRootBelow ==
  ASSUME NEW t, IsFileSystem(t), LeadsDown(t), NEW p \in Seq(STRING), p # Slash
  PROVE  RealRoot(t, p) # Slash /\ RealRoot(t, p) \in Seq(STRING)
<1> DEFINE w == Walk(t, p)[MaxLinks]
<1>1. MaxLinks \in 0..MaxLinks
  BY AccessAssumption
<1>2. w \in Seq(STRING) /\ w # Slash
  BY <1>1, WalkIs, WalkBelow
<1>3. EvalSymlinks(t, p) = Ends(t, w)
  BY DEF EvalSymlinks
<1> HIDE DEF w
<1>4. EvalSymlinks(t, p).status = "ok" => EvalSymlinks(t, p).path = w
  BY <1>2, <1>3, EndsIs
<1>5. QED
  BY <1>2, <1>4 DEF RealRoot, Real

\* The owner's own listing shows what the peer is answered.
LEMMA ListingIs ==
  ASSUME NEW t, IsFileSystem(t), LeadsDown(t), NEW roots \in Seq(Seq(STRING)),
         \A i \in DOMAIN roots : roots[i] # Slash, NEW p \in Seq(STRING)
  PROVE  ListSharedFiles(t, roots, p) = ResolveWithinRoots(t, roots, p)
<1> DEFINE r == EvalSymlinks(t, p)
           Shown(root) == r.path = root \/ (root # Slash /\ PathWithin(r.path, root))
<1>1. r.path \in Seq(STRING)
  BY EvalIs
<1>2. /\ ListSharedFiles(t, roots, p) =
           IF r.status = "ok" /\ \E i \in DOMAIN roots : Shown(RealRoot(t, roots[i])) THEN r.path ELSE NoPath
      /\ ResolveWithinRoots(t, roots, p) =
           IF r.status = "ok" /\ \E i \in DOMAIN roots : PathWithin(r.path, RealRoot(t, roots[i])) THEN r.path ELSE NoPath
  BY DEF ListSharedFiles, ResolveWithinRoots
<1> HIDE DEF r
<1>3. \A i \in DOMAIN roots : Shown(RealRoot(t, roots[i])) <=> PathWithin(r.path, RealRoot(t, roots[i]))
  <2> TAKE i \in DOMAIN roots
  <2> DEFINE root == RealRoot(t, roots[i])
  <2>1. roots[i] \in Seq(STRING) /\ roots[i] # Slash
    OBVIOUS
  <2>2. root # Slash
    BY <2>1, RealRootBelow
  <2> HIDE DEF root
  <2>3. r.path = root => PathWithin(r.path, root)
    BY <1>1 DEF PathWithin, IsPrefix
  <2>4. Shown(root) <=> PathWithin(r.path, root)
    BY <2>2, <2>3
  <2> QED BY <2>4 DEF root
<1> HIDE DEF Shown
<1>4. QED
  BY <1>2, <1>3

\* What a path resolves to resolves to itself.
LEMMA ResolvedTwice ==
  ASSUME NEW t, IsFileSystem(t), NEW roots \in Seq(Seq(STRING)), NEW p \in Seq(STRING),
         ResolveWithinRoots(t, roots, p) # NoPath
  PROVE  ResolveWithinRoots(t, roots, ResolveWithinRoots(t, roots, p)) = ResolveWithinRoots(t, roots, p)
<1> DEFINE q == ResolveWithinRoots(t, roots, p)
<1>1. Stands(t, q) /\ Inside(t, roots, q)
  BY WithinIs
<1> HIDE DEF q
<1>2. EvalSymlinks(t, q) = Outcome("ok", q)
  BY <1>1, StandsEval
<1>3. ResolveWithinRoots(t, roots, q) = q
  BY <1>1, <1>2, InsideResolves
<1>4. QED
  BY <1>3 DEF q

\* Nobody makes a link to the top.
LEMMA LeadsDownStep ==
  ASSUME NoTop, AccessTyped, LeadsDown(tree), [AccessNext]_accessVars
  PROVE  LeadsDown(tree')
<1>1. IsFileSystem(tree) /\ perm \in Modes
  BY DEF AccessTyped, AccessTypeOK
<1>2. ASSUME NEW p, NEW node, tree' = Put(tree, p, node), node.kind = "link" => node.to # Slash
      PROVE  LeadsDown(tree')
  BY <1>2 DEF LeadsDown, Put
<1>3. ASSUME NEW p, tree' = Drop(tree, p) PROVE LeadsDown(tree')
  BY <1>3 DEF LeadsDown, Drop
<1>4. CASE tree' = tree
  BY <1>4
<1>5. CASE Owner
  <2>1. CASE OwnerRemoves
    BY <2>1, <1>3 DEF OwnerRemoves, OwnerEdits
  <2>2. CASE OwnerMoves
    <3>1. PICK p \in Movable \cap DOMAIN tree, q \in Targets \ DOMAIN tree :
            At(tree, Front(q)) = "dir" /\ ~IsPrefix(p, q) /\ tree' = Moved(tree, p, q)
      BY <2>2 DEF OwnerMoves, OwnerEdits
    <3>2. q \in Seq(STRING) /\ q # Slash
      BY OwnerPaths
    <3>3. Relocated(tree, p, q, Moved(tree, p, q))
      BY <1>1, <3>1, <3>2, MovedIs
    <3>4. Relocated(tree, p, q, tree')
      BY <3>1, <3>3
    <3> QED BY <3>4 DEF LeadsDown, Relocated
  <2>3. CASE OwnerLinks
    <3>1. PICK p \in Movable \ DOMAIN tree, to \in Links : tree' = Put(tree, p, Node("link", to, "open", "owner"))
      BY <2>3 DEF OwnerLinks, OwnerEdits
    <3>2. Node("link", to, "open", "owner").to # Slash
      BY DEF NoTop, Node
    <3> QED BY <3>1, <3>2, <1>2
  <2>4. CASE OwnerMakes
    <3>1. PICK p \in Made \ DOMAIN tree, kind \in {"dir", "file"} : tree' = Put(tree, p, Node(kind, Slash, "open", "owner"))
      BY <2>4 DEF OwnerMakes, OwnerEdits
    <3>2. Node(kind, Slash, "open", "owner").kind # "link"
      BY DEF Node
    <3> QED BY <3>1, <3>2, <1>2
  <2>5. CASE OwnerSeals
    <3>1. PICK p \in Movable \cap DOMAIN tree : tree' = [tree EXCEPT ![p].mode = "sealed"]
      BY <2>5 DEF OwnerSeals, OwnerEdits
    <3>2. SameKinds(tree, [tree EXCEPT ![p].mode = "sealed"])
      BY <1>1, SealIs
    <3>3. SameKinds(tree, tree')
      BY <3>1, <3>2
    <3> QED BY <3>3 DEF LeadsDown, SameKinds
  <2> QED BY <2>1, <2>2, <2>3, <2>4, <2>5, <1>5 DEF Owner
<1>6. CASE GateRead \/ OpenRead \/ GateWrite \/ Check \/ InheritPerm \/ Recheck
  BY <1>4, <1>6 DEF GateRead, OpenRead, GateWrite, Check, InheritPerm, Recheck, Refuse, Resolving, Goto
<1>7. CASE MakeParents
  <2> DEFINE m == MkdirAll(tree, Front(at), perm, "push")
  <2>1. tree' = m.tree /\ pc = "mkdir"
    BY <1>7 DEF MakeParents
  <2>2. Ordinary(Front(at))
    BY <2>1, OrdinaryParts DEF AccessTyped, Writing
  <2>3. Grown(tree, m, perm, "push")
    BY <1>1, <2>2, MkdirTyped
  <2> HIDE DEF m
  <2>4. \A q \in DOMAIN tree' : /\ q \in DOMAIN tree => tree'[q] = tree[q]
                                /\ q \notin DOMAIN tree => tree'[q].kind = "dir"
    BY <2>1, <2>3 DEF Grown, Extends, Node
  <2> QED BY <2>4 DEF LeadsDown
<1>8. CASE Stage
  <2> DEFINE p == Temp(EvalSymlinks(tree, Front(at)).path)
             node == Node("file", Slash, "private", "push")
  <2>1. tree' = tree \/ tree' = Put(tree, p, node)
    BY <1>8 DEF Stage, Refuse, Goto
  <2>2. node.kind # "link"
    BY DEF Node
  <2> HIDE DEF p, node
  <2> QED BY <2>1, <2>2, <1>2, <1>4
<1>9. CASE Content \/ Place
  <2> DEFINE f == EvalSymlinks(tree, Temp(Front(at))).path
             d == EvalSymlinks(tree, Front(at)).path
             tmp == Temp(d)
             dst == Append(d, Last(at))
             node == Node("file", Slash, perm, "push")
  <2>1. tree' = tree \/ tree' = Drop(tree, f) \/ tree' = Put(Drop(tree, tmp), dst, node)
    BY <1>9 DEF Content, Place, RemoveTemp
  <2>2. node.kind # "link"
    BY DEF Node
  <2> HIDE DEF f, dst, tmp, node
  <2>3. CASE tree' = Put(Drop(tree, tmp), dst, node)
    BY <2>2, <2>3 DEF LeadsDown, Put, Drop
  <2> QED BY <2>1, <2>3, <1>3, <1>4
<1>10. QED
  BY <1>4, <1>5, <1>6, <1>7, <1>8, <1>9 DEF AccessNext, Serve, accessVars

\* Resolving again changes nothing: ResolveWritePath answers what it did once the
\* missing directories are there, so fsWrite's second look refuses no push that
\* nobody disturbed; and what ResolveWithinRoots answers, it answers again, and
\* ListSharedFiles with it.  The last holds as long as no root is the top of the
\* file system, which the string test of ListSharedFiles lets nothing into.
THEOREM ResolvedAlike ==
  ASSUME NoTop
  PROVE  AccessSpec => []ResolutionsAgree
<1>1. AccessInit => LeadsDown(tree)
  BY DEF AccessInit, NoTop, LeadsDown
<1>2. LeadsDown(tree) /\ AccessTyped /\ [AccessNext]_accessVars => LeadsDown(tree)'
  BY LeadsDownStep
<1>3. AccessSpec => [](LeadsDown(tree) /\ Undisturbed)
  BY <1>1, <1>2, AccessTypedAlways, UndisturbedAlways, PTL DEF AccessSpec
<1>4. LeadsDown(tree) /\ Undisturbed => ResolutionsAgree
  <2> SUFFICES ASSUME LeadsDown(tree), Undisturbed PROVE ResolutionsAgree
    OBVIOUS
  <2> DEFINE r == op.path
             asked == Abs(r, Cwd)
             roots == op.policy.reads
             p == ResolveWithinRoots(tree, roots, asked)
  <2>1. IsFileSystem(tree) /\ op \in Asks
    BY DEF Undisturbed, AccessTyped, AccessTypeOK
  <2>2. roots \in Seq(Seq(STRING)) /\ \A i \in DOMAIN roots : roots[i] # Slash
    BY <2>1, AskIs DEF NoTop
  <2>3. asked \in Seq(STRING)
    <3>1. Cwd \in Seq(STRING) /\ r.parts \in Seq(STRING)
      BY <2>1, AskIs, AccessAssumption DEF Ordinary
    <3> HIDE DEF r
    <3> QED BY <3>1, AbsIs
  <2> HIDE DEF roots, asked
  <2>4. ListSharedFiles(tree, roots, asked) = p
    BY <2>1, <2>2, <2>3, ListingIs
  <2>5. p # NoPath => ResolveWithinRoots(tree, roots, p) = p
    BY <2>1, <2>2, <2>3, ResolvedTwice
  <2>6. quiet /\ pc = "recheck" => ResolveWritePath(tree, op.policy.write, op.path) = at
    BY DEF Undisturbed, Alone, Destination
  <2> HIDE DEF p
  <2> QED BY <2>4, <2>5, <2>6 DEF ResolutionsAgree, p, asked, roots, r
<1>5. QED
  BY <1>3, <1>4, PTL

=============================================================================
