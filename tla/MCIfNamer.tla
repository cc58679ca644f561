------------------------------ MODULE MCIfNamer ------------------------------
(***************************************************************************)
(* InterfaceNamer instantiated for TLC: a built-in interface b, two        *)
(* adaptors x and y, and an absent adaptor g known from the database.  x  *)
(* and g are the same kind of adaptor (same vendor/product info), so x    *)
(* may inherit g's unit; y and b are each of their own kind.              *)
(***************************************************************************)
EXTENDS IfNamer

CONSTANTS b, x, y, g, ib, i1, i2, m1, m2

MCIfs == {b, x, y}
MCGhosts == {g}
MCBuiltin == {b}
MCNoBuiltin == {}
MCOrder == <<b, x, y>>
MCModels == {m1, m2}
MCOneModel == {m1}
MCInfo == [a \in {b, x, y, g} |->
             CASE a = b -> ib [] a = y -> i2 [] OTHER -> i1]

\* b is the built-in Ethernet port; the adaptors are Wi-Fi.  Among x and y
\* the lowest address is y's; x's has the lowest last byte.
MCKind == [a \in {b, x, y, g} |-> IF a = b THEN "Ethernet" ELSE "IEEE80211"]
MCMac == [a \in {b, x, y, g} |->
            CASE a = b -> <<0, 3, 147, 0, 0, 1>>
              [] a = x -> <<0, 5, 2, 0, 0, 0>>
              [] a = y -> <<0, 5, 1, 0, 0, 9>>
              [] OTHER -> <<0, 5, 1, 0, 0, 2>>]

\* Two adaptors without a built-in interface, for the virtual interface
\* configuration: a bond of x and y, of x alone, or none.
MCIfsXY == {x, y}
MCOrderXY == <<x, y>>
MCVKinds == {"bond"}
MCVConfigs == {{x, y}, {x}}

\* A database entry as writeInterfaceList saved it (Active: in use then).
Saved(a, u, act) ==
  [addr |-> a, unit |-> u, builtin |-> IsBuiltin(a), info |-> MCInfo[a],
   active |-> act]

\* NetworkInterfaces.plist at boot: none, empty, a previous boot with the
\* built-in interface and the adaptor g, one with all three interfaces,
\* and one where g was seen but is no longer active.
MCBootDbs ==
  { NONE, {},
    {Saved(b, 0, TRUE), Saved(g, 1, TRUE)},
    {Saved(b, 0, TRUE), Saved(y, 1, TRUE), Saved(x, 2, FALSE)},
    {Saved(b, 0, FALSE), Saved(g, 1, FALSE), Saved(y, 2, TRUE)} }

\* Boot databases without the built-in interface: none, or x and g saved.
MCBootDbsXY == { NONE, {Saved(x, 0, TRUE), Saved(g, 1, FALSE)} }
====
