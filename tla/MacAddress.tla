----------------------------- MODULE MacAddress -----------------------------
(***************************************************************************)
(* The MAC-address ordering InterfaceNamer uses to pick the platform UUID *)
(* (ifnamer.c, compareMacAddress l.1651-1670, updatePlatformUUID          *)
(* l.1676-1787).  A MAC address is a sequence of byte values.             *)
(*                                                                         *)
(* compareMacAddress returns bcmp's result as a CFComparisonResult.  bcmp *)
(* only promises zero for equal strings and non-zero otherwise; the model *)
(* takes Darwin's libc, whose bcmp is memcmp (the difference of the first *)
(* differing bytes), so the comparator is an order.                       *)
(***************************************************************************)
EXTENDS Integers, Sequences, SequencesExt

ETHER_ADDR_LEN == 6

kCFCompareLessThan == -1
kCFCompareGreaterThan == 1

\* memcmp over the first n bytes.
RECURSIVE memcmp(_, _, _)
memcmp(s1, s2, n) ==
  IF n = 0 THEN 0
  ELSE IF Head(s1) # Head(s2) THEN Head(s1) - Head(s2)
  ELSE memcmp(Tail(s1), Tail(s2), n - 1)

\* bcmp as Darwin's libc implements it.
bcmp(s1, s2, n) == memcmp(s1, s2, n)

\* Variant of compareMacAddress with the operands of bcmp swapped.
compareMacAddressSwapped(mac1, mac2) ==
  LET n1 == Len(mac1)
      n2 == Len(mac2)
  IN  IF n1 < n2 THEN kCFCompareLessThan
      ELSE IF n2 > n1 THEN kCFCompareGreaterThan
      ELSE bcmp(mac2, mac1, n1)

\* compareMacAddress (l.1651-1670).  The second test repeats the first
\* (n2 > n1 is n1 < n2), so a longer mac1 reaches bcmp over n1 bytes and
\* reads past mac2; updatePlatformUUID only ever passes ETHER_ADDR_LEN
\* bytes, so that case is never taken.
compareMacAddress(mac1, mac2) ==
  LET n1 == Len(mac1)
      n2 == Len(mac2)
  IN  IF n1 < n2 THEN kCFCompareLessThan
      ELSE IF n2 > n1 THEN kCFCompareGreaterThan
      ELSE bcmp(mac1, mac2, n1)

\* CFArraySortValues(addrs, ..., compareMacAddress) on the set S: the
\* orderings of S the comparator accepts.  When it accepts none (it is no
\* order), the sort still returns some permutation, which depends on the
\* order of S_dblist; that order is not modelled, so any permutation.
CFArraySortValues(S) ==
  LET perms  == SetToSeqs(S)
      sorted == {p \in perms :
                   \A k \in 1 .. Len(p) - 1 : compareMacAddress(p[k], p[k + 1]) <= 0}
  IN  IF sorted # {} THEN sorted ELSE perms

\* The CFUUIDBytes updatePlatformUUID builds: 00000000-0000-1000-8000-
\* followed by the MAC address in the last ETHER_ADDR_LEN bytes.
PlatformUUIDBytes(mac) == <<0, 0, 0, 0, 0, 0, 16, 0, 128, 0>> \o mac

\* Reference order: byte-wise lexicographic order of equal-length strings.
LexLess(a, b) ==
  \E k \in 1 .. Len(a) : a[k] < b[k] /\ \A j \in 1 .. k - 1 : a[j] = b[j]

LexMin(S) == CHOOSE m \in S : \A o \in S \ {m} : LexLess(m, o)
====
