------------------------------- MODULE Trust -------------------------------
(***************************************************************************)
(* The pairing store of a daemon (internal/daemon/trust.go), the access    *)
(* decisions read from it (access.go) and the HTTP handlers that change it *)
(* (http.go).                                                              *)
(*                                                                         *)
(* Every operation of the store runs under its mutex and ends by saving    *)
(* the whole map; a save may fail, and only a delete is undone then.       *)
(* A PATCH is not one operation: it reads the entry, then sets the tier,   *)
(* then the roots, and other requests run in between.  A restart reloads   *)
(* the file, possibly with other --writable-dirs.                          *)
(*                                                                         *)
(* A root is an area of the disk; "inside one of the device's roots" is    *)
(* membership.  Aliases and dates carry no right and are left out.         *)
(***************************************************************************)
EXTENDS Naturals, Sequences, FiniteSets

CONSTANTS
  Peers,        \* devices that may be paired
  Roots,        \* directories a pairing or the operator may name
  Addresses,    \* usable addresses a device may be seen at
  Devices,      \* the ways this daemon may be started
  Admins,       \* PATCH requests in progress at a time
  Patches,      \* what one may ask: a tier, or "" for none, and roots or None
  MaxTracked,   \* MaxTrackedAddrs
  MaxFaults,    \* bound on saves that fail
  MaxRestarts,  \* bound on restarts
  None

Tiers == {"none", "read", "read-write"}
DefaultTier == "read"

ASSUME TrustConstants ==
  /\ MaxTracked \in Nat /\ MaxFaults \in Nat /\ MaxRestarts \in Nat
  /\ Devices \subseteq [writes : BOOLEAN, roots : SUBSET Roots]
  /\ Patches \subseteq [tier : Tiers \cup {""}, roots : (SUBSET Roots) \cup {None}]

VARIABLES
  mem,      \* byID
  disk,     \* trusted_peers.json
  device,   \* WritesEnabled and WritableRoots of this process
  patch,    \* the PATCH requests under way
  since,    \* what p's pairing has been since the last change of it that was acknowledged
  under,    \* the device's writable roots whenever p's own were set, since they were last on disk
  unpaired, \* devices whose removal was acknowledged and that nobody asked to add again
  faults, restarts

store == <<mem, disk, since, under, unpaired>>
vars == <<store, device, patch, faults, restarts>>

\* A file written before tiers existed has the tier "".
TrustEntry == [tier : Tiers \cup {""}, roots : SUBSET Roots, addrs : Seq(Addresses)]
IsStore(m) == DOMAIN m \subseteq Peers /\ \A p \in DOMAIN m : m[p] \in TrustEntry

With(m, p, e) == [q \in DOMAIN m \cup {p} |-> IF q = p THEN e ELSE m[q]]
Without(m, p) == [q \in DOMAIN m \ {p} |-> m[q]]

\* What the pairing p is in the map m: nothing, or a tier and roots.
Policy(m, p) == IF p \in DOMAIN m THEN [tier |-> m[p].tier, roots |-> m[p].roots] ELSE None

Distinct(s) == \A i, j \in DOMAIN s : i # j => s[i] # s[j]
Members(s) == {s[i] : i \in DOMAIN s}

Quiet == [step |-> "idle", peer |-> None, tier |-> "", roots |-> None]

\* Types; a cached address list is bounded and has no repetition.
TypeOK ==
  /\ IsStore(mem) /\ IsStore(disk)
  /\ \A p \in DOMAIN mem :
       mem[p].tier \in Tiers /\ Len(mem[p].addrs) <= MaxTracked /\ Distinct(mem[p].addrs)
  /\ device \in Devices
  /\ patch \in [Admins -> [step : {"idle", "tier", "roots"}, peer : Peers \cup {None},
                           tier : Tiers \cup {""}, roots : (SUBSET Roots) \cup {None}]]
  /\ since \in [Peers -> SUBSET ([tier : Tiers, roots : SUBSET Roots] \cup {None})]
  /\ under \in [Peers -> SUBSET SUBSET Roots]
  /\ unpaired \subseteq Peers
  /\ faults \in 0..MaxFaults /\ restarts \in 0..MaxRestarts

\* NewTrustStore: an entry without a tier gets the default one.
Loaded(f) ==
  [p \in DOMAIN f |-> IF f[p].tier = "" THEN [f[p] EXCEPT !.tier = DefaultTier] ELSE f[p]]

Legacy == [tier |-> "", roots |-> {}, addrs |-> <<>>]

Init ==
  /\ \E Q \in SUBSET Peers : disk = [p \in Q |-> Legacy]
  /\ mem = Loaded(disk)
  /\ device \in Devices
  /\ patch = [a \in Admins |-> Quiet]
  /\ since = [p \in Peers |-> {Policy(mem, p)}]
  /\ under = [p \in Peers |-> {}]
  /\ unpaired = {}
  /\ faults = 0 /\ restarts = 0

-----------------------------------------------------------------------------
(* The store.                                                              *)

Paired(p) == p \in DOMAIN mem

\* Mutant of Confined: any root is accepted.
Unconfined(roots) == TRUE

\* confineRoots: a request that names a root outside the device's is refused.
Confined(roots) == roots \subseteq device.roots

\* The change is in memory before the save, and stays there when the save fails.
Change(p, e) ==
  /\ mem' = With(mem, p, e)
  /\ \/ /\ disk' = mem'
        /\ since' = [since EXCEPT ![p] = {Policy(mem', p)}]
        /\ UNCHANGED faults
     \/ /\ faults < MaxFaults /\ faults' = faults + 1
        /\ since' = [since EXCEPT ![p] = @ \cup {Policy(mem', p)}]
        /\ UNCHANGED disk

\* The roots of p are set, and were compared with those the device has now.
Grant(p) ==
  under' = [under EXCEPT ![p] = (IF disk' = mem' THEN {} ELSE @) \cup {device.roots}]

\* postTrust: pairing a device again replaces its tier and its roots and
\* keeps its addresses.
Add(p, tier, roots) ==
  /\ Confined(roots)
  /\ Change(p, [tier |-> tier, roots |-> roots,
                addrs |-> IF Paired(p) THEN mem[p].addrs ELSE <<>>])
  /\ Grant(p)
  /\ unpaired' = unpaired \ {p}
  /\ UNCHANGED <<device, patch, restarts>>

\* Mutant of DeleteTrust: it is reported although it could not be saved.
DeleteAnyway(p) ==
  /\ Paired(p)
  /\ mem' = Without(mem, p)
  /\ unpaired' = unpaired \cup {p}
  /\ since' = [since EXCEPT ![p] = {None}] /\ under' = [under EXCEPT ![p] = {}]
  /\ \/ disk' = mem' /\ UNCHANGED faults
     \/ faults < MaxFaults /\ faults' = faults + 1 /\ UNCHANGED disk
  /\ UNCHANGED <<device, patch, restarts>>

\* deleteTrust; when the save fails the entry is put back and the caller told.
DeleteTrust(p) ==
  /\ Paired(p)
  /\ \/ /\ mem' = Without(mem, p)
        /\ disk' = mem'
        /\ unpaired' = unpaired \cup {p}
        /\ since' = [since EXCEPT ![p] = {None}] /\ under' = [under EXCEPT ![p] = {}]
        /\ UNCHANGED faults
     \/ /\ faults < MaxFaults /\ faults' = faults + 1
        /\ UNCHANGED store
  /\ UNCHANGED <<device, patch, restarts>>

\* The cached addresses come first and the list is cut at the bound: a full
\* cache takes no new address.
Merge(old, new) ==
  LET all == old \o SelectSeq(new, LAMBDA a : a \notin Members(old))
  IN  SubSeq(all, 1, IF Len(all) < MaxTracked THEN Len(all) ELSE MaxTracked)

\* UpdateAddrs; the caller ignores a save that fails.
UpdateAddrs(p, addrs) ==
  /\ Paired(p)
  /\ mem' = With(mem, p, [mem[p] EXCEPT !.addrs = Merge(@, addrs)])
  /\ \/ disk' = mem' /\ UNCHANGED faults
     \/ faults < MaxFaults /\ faults' = faults + 1 /\ UNCHANGED disk
  /\ UNCHANGED <<device, patch, since, under, unpaired, restarts>>

-----------------------------------------------------------------------------
(* patchTrust: a lookup, then SetTier, then SetWritableRoots, each with    *)
(* the store's lock taken and given back.                                  *)

StartPatch(a, p, tier, roots) ==
  /\ patch[a].step = "idle" /\ Paired(p)
  /\ patch' = [patch EXCEPT ![a] = [step |-> "tier", peer |-> p, tier |-> tier, roots |-> roots]]
  /\ UNCHANGED <<store, device, faults, restarts>>

\* Mutant of SetTier: the lookup is trusted for the rest of the request.
SetTierBlindly(a) ==
  /\ patch[a].step = "tier" /\ patch[a].tier # ""
  /\ LET p == patch[a].peer IN
     Change(p, [tier |-> patch[a].tier,
                roots |-> IF Paired(p) THEN mem[p].roots ELSE {},
                addrs |-> IF Paired(p) THEN mem[p].addrs ELSE <<>>])
  /\ patch' = [patch EXCEPT ![a].step = "roots"]
  /\ UNCHANGED <<device, under, unpaired, restarts>>

SetTier(a) ==
  /\ patch[a].step = "tier" /\ patch[a].tier # ""
  /\ LET p == patch[a].peer IN
     /\ Paired(p)
     /\ Change(p, [mem[p] EXCEPT !.tier = patch[a].tier])
     \* a save that failed ends the request
     /\ patch' = [patch EXCEPT ![a] = IF faults' = faults
                                      THEN [@ EXCEPT !.step = "roots"] ELSE Quiet]
  /\ UNCHANGED <<device, under, unpaired, restarts>>

KeepTier(a) ==
  /\ patch[a].step = "tier" /\ patch[a].tier = ""
  /\ patch' = [patch EXCEPT ![a].step = "roots"]
  /\ UNCHANGED <<store, device, faults, restarts>>

SetsRoots(a) == patch[a].roots # None /\ Confined(patch[a].roots)

SetWritableRoots(a) ==
  /\ patch[a].step = "roots" /\ SetsRoots(a)
  /\ LET p == patch[a].peer IN
     /\ Paired(p)
     /\ Change(p, [mem[p] EXCEPT !.roots = patch[a].roots])
     /\ Grant(p)
  /\ patch' = [patch EXCEPT ![a] = Quiet]
  /\ UNCHANGED <<device, unpaired, restarts>>

\* Nothing more to set, or the device is no longer paired, or a root is
\* outside: the request is answered; what it has set so far stays set.
EndPatch(a) ==
  /\ \/ patch[a].step = "roots" /\ ~ SetsRoots(a)
     \/ patch[a].step # "idle" /\ ~ Paired(patch[a].peer)
  /\ patch' = [patch EXCEPT ![a] = Quiet]
  /\ UNCHANGED <<store, device, faults, restarts>>

\* The process ends at any point and is started again, perhaps with other flags.
Restart(d) ==
  /\ restarts < MaxRestarts /\ restarts' = restarts + 1
  /\ mem' = Loaded(disk)
  /\ device' = d
  /\ patch' = [a \in Admins |-> Quiet]
  /\ UNCHANGED <<disk, since, under, unpaired, faults>>

-----------------------------------------------------------------------------
(* access.go.                                                              *)

\* WriteScope: the pairing's own roots when it has any, else the device's.
WriteScope(p) == IF mem[p].roots # {} THEN mem[p].roots ELSE device.roots

\* WritePolicyFor grants a write: paired, writes enabled, at the tier, somewhere to write.
MayWrite(p) ==
  Paired(p) /\ device.writes /\ mem[p].tier = "read-write" /\ WriteScope(p) # {}

-----------------------------------------------------------------------------
Patch(a) ==
  \/ \E p \in Peers, r \in Patches : StartPatch(a, p, r.tier, r.roots)
  \/ SetTier(a) \/ KeepTier(a) \/ SetWritableRoots(a) \/ EndPatch(a)

\* The addresses of one sighting, in the order the peerstore gives them.
Sightings == {s \in UNION {[1..n -> Addresses] : n \in 1..2} : Distinct(s)}

Next ==
  \/ \E p \in Peers :
       \/ \E tier \in Tiers, roots \in SUBSET Roots : Add(p, tier, roots)
       \/ DeleteTrust(p)
       \/ \E addrs \in Sightings : UpdateAddrs(p, addrs)
  \/ \E a \in Admins : Patch(a)
  \/ \E d \in Devices : Restart(d)

Spec == Init /\ [][Next]_vars

-----------------------------------------------------------------------------
\* A change that was acknowledged is never undone: whatever a restart would
\* load for a device is that change or one asked for after it, although
\* every save writes all the entries and some saves fail (the comment of its Remove:
\* success is never reported "for a change that would not survive a restart").
AcksAreDurable == \A p \in Peers : Policy(Loaded(disk), p) \in since[p]

\* A device that was unpaired stays so, in memory and on disk, until someone
\* pairs it again: no request that looked it up before, and no restart,
\* brings it back.
RevocationsStick == unpaired \cap (DOMAIN mem \cup DOMAIN disk) = {}

\* A paired device may write only inside this device's writable roots or, when its
\* pairing has roots of its own, inside those the device had when they were last
\* set, or asked for since: failing saves, the saves of other devices and restarts
\* with other --writable-dirs bring no other roots to a pairing, nor take them to
\* another device's.
ScopeWasGranted ==
  \A p \in Peers : MayWrite(p) => \E R \in under[p] \cup {device.roots} : WriteScope(p) \subseteq R

\* A paired device may write only inside this device's own writable roots
\* (CONTEXT.md: "a pairing may only narrow them").  False after a restart with
\* other --writable-dirs: WriteScope takes the pairing's roots as they are.
WithinBound == \A p \in Peers : MayWrite(p) => WriteScope(p) \subseteq device.roots

=============================================================================
