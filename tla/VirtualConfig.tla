---------------------------- MODULE VirtualConfig ----------------------------
(***************************************************************************)
(* InterfaceNamer's virtual-interface configuration (ifnamer.c l.210-221,  *)
(* l.493-613): the bond, bridge and VLAN interfaces of the preferences     *)
(* are pushed into the kernel when the preferences are applied and again  *)
(* after new interfaces are named.  S_bonds, S_bridges and S_vlans cache   *)
(* the configuration last pushed, so an unchanged one is skipped.          *)
(*                                                                         *)
(* A virtual interface configuration of one kind is the set of physical   *)
(* interfaces it uses as members (NONE: no virtual interface of that kind, *)
(* which is also what an empty array is turned into, l.499-502).           *)
(* vactive is the kernel's configuration: the members that had a BSD name  *)
(* when it was pushed.                                                    *)
(***************************************************************************)
CONSTANTS
  VKinds,      \* the kinds: bond, bridge, VLAN
  VConfigs,    \* member sets a configuration may have
  UpdateFails, \* _SC<kind>InterfaceUpdateConfiguration may fail
  MaxApplies,  \* bound on the administrator's preference changes
  NONE

VARIABLES
  vprefs,      \* SC<kind>InterfaceCopyAll(S_prefs) for each kind
  vcache,      \* S_bonds, S_bridges, S_vlans
  vactive,     \* the kernel's virtual interfaces of each kind
  vnotify,     \* an apply notification of S_prefs is pending
  vapplies     \* preference changes so far

virtVars == <<vprefs, vcache, vactive, vnotify, vapplies>>

NoConfig == [k \in VKinds |-> NONE]

\* _SC<kind>InterfaceUpdateConfiguration (SystemConfiguration framework):
\* make the kernel's interfaces of kind k those of the preferences; a
\* member without a BSD name yet cannot be attached.
Configured(k, present) == IF vprefs[k] = NONE THEN NONE ELSE vprefs[k] \cap present

\* update{Bond,Bridge,VLAN}InterfaceConfiguration (l.493-578) in turn:
\* a kind whose preferences equal the cache is skipped; otherwise the cache
\* takes the new value and the kernel is updated, which may fail (logged).
updateKinds(cache, present) ==
  LET changed == {k \in VKinds : vprefs[k] # cache[k]}
  IN  /\ vcache' = [k \in VKinds |-> IF k \in changed THEN vprefs[k] ELSE cache[k]]
      /\ \E failed \in SUBSET (IF UpdateFails THEN changed ELSE {}) :
            vactive' = [k \in VKinds |->
                          IF k \in changed \ failed THEN Configured(k, present)
                          ELSE vactive[k]]

\* Variant of updateVirtualNetworkInterfaceConfiguration that keeps the
\* caches when called for newly named interfaces.
updateVirtualKeepsCache(named, present) == updateKinds(vcache, present)

\* updateVirtualNetworkInterfaceConfiguration (l.581-613) for an apply
\* notification, or with prefs NULL after interfaces have been named: then
\* the caches are dropped first, so every configured kind is pushed again.
updateVirtualNetworkInterfaceConfiguration(named, present) ==
  updateKinds(IF named THEN NoConfig ELSE vcache, present)
====
