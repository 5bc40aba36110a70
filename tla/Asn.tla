--------------------------------- MODULE Asn ---------------------------------
(***************************************************************************)
(* bgp::Asn: the tests of a 32-bit AS number, and what they amount to for  *)
(* every number.  There is no state, and the numbers are beyond TLC's      *)
(* integers; the theorems are proved.                                      *)
(***************************************************************************)
EXTENDS Integers, TLAPS

UInt32 == {n \in Nat : n <= 4294967295}

Between(asn, first, last) == first <= asn /\ asn <= last
IsPrivate(asn) == \/ Between(asn, 64512, 65534)
                  \/ Between(asn, 4200000000, 4294967294)

(* A shift to the right by n bits is a division by 2^n.                    *)
IsReserved(asn) == \/ asn = 0
                   \/ asn \div 16 = 4031
                   \/ asn = 65535
                   \/ asn \div 65536 = 1
                   \/ asn = 4294967295
IsPublic(asn) == ~IsPrivate(asn) /\ ~IsReserved(asn)

(* The ranges that the comments in is_reserved() name, with their RFCs.    *)
Reserved(asn) == \/ asn \in {0, 65535, 4294967295}
                 \/ Between(asn, 64496, 64511)
                 \/ Between(asn, 65536, 65551)
                 \/ Between(asn, 65552, 131071)

(* The shifts in is_reserved() select exactly the ranges that its comments *)
(* name.                                                                   *)
THEOREM ReservedAsCommented ==
  ASSUME NEW asn \in UInt32
  PROVE IsReserved(asn) <=> Reserved(asn)
<1>1. asn \div 16 = 4031 <=> Between(asn, 64496, 64511)
  BY SMT DEF UInt32, Between
<1>2. asn \div 65536 = 1 <=> Between(asn, 65536, 131071)
  BY SMT DEF UInt32, Between
<1> QED
  BY SMT, <1>1, <1>2 DEF UInt32, Between, IsReserved, Reserved

(* No number is both private and reserved.  A private range ends where a   *)
(* reserved one begins, and a reserved range ends at the last number, at   *)
(* the beginning of a private range, or at the public 1 or 131072: no      *)
(* bound of is_private() and is_reserved() is off by one from the other.   *)
THEOREM PrivateMeetsReserved ==
  ASSUME NEW asn \in UInt32
  PROVE /\ ~(IsPrivate(asn) /\ IsReserved(asn))
        /\ IsPrivate(asn) /\ ~IsPrivate(asn + 1) => IsReserved(asn + 1)
        /\ IsReserved(asn) /\ ~IsReserved(asn + 1) /\ asn # 4294967295
             => asn + 1 = 1 \/ IsPrivate(asn + 1) \/ asn + 1 = 131072
<1>1. IsReserved(asn) <=> Reserved(asn)
  BY ReservedAsCommented, SMT
<1>2. asn # 4294967295 => (IsReserved(asn + 1) <=> Reserved(asn + 1))
  <2> SUFFICES ASSUME asn # 4294967295
               PROVE  IsReserved(asn + 1) <=> Reserved(asn + 1)
    OBVIOUS
  <2>1. asn + 1 \in UInt32
    BY SMT DEF UInt32
  <2> QED
    BY <2>1, ReservedAsCommented, SMT
<1>3. IsPrivate(asn) => asn # 4294967295
  BY SMT DEF UInt32, IsPrivate, Between
<1>4. ~(IsPrivate(asn) /\ Reserved(asn))
  BY SMT DEF UInt32, IsPrivate, Reserved, Between
<1>5. IsPrivate(asn) /\ ~IsPrivate(asn + 1) => Reserved(asn + 1)
  BY SMT DEF UInt32, IsPrivate, Reserved, Between
<1>6. Reserved(asn) /\ ~Reserved(asn + 1) /\ asn # 4294967295
        => asn + 1 = 1 \/ IsPrivate(asn + 1) \/ asn + 1 = 131072
  BY SMT DEF UInt32, IsPrivate, Reserved, Between
<1> QED
  BY <1>1, <1>2, <1>3, <1>4, <1>5, <1>6, SMT
=============================================================================
