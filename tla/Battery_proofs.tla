------------------------------- MODULE Battery_proofs -------------------------------
(***************************************************************************)
(* Proofs about the battery sample. Battery: the types, the LED, and that a    *)
(* voltage that is sent was measured, with the long division of battery_sample *)
(* for every divider. BatteryLevel: for every discharge curve the level of      *)
(* every voltage is within its range, and a higher voltage has no lower level.  *)
(***************************************************************************)
EXTENDS Battery, BatteryLevel, WellFoundedInduction, TLAPS

(* The integers of battery_sample.                                           *)

\* A byte of the product, also of one below zero.
LEMMA ByteRange ==
  ASSUME NEW n \in Int, NEW i \in Bytes
  PROVE  Byte(n, i) \in 0 .. 255
<1>1. i \in {0, 1, 2, 3, 4, 5, 6, 7} BY DEF Bytes
<1> QED BY <1>1 DEF Byte

\* What remains after byte i when r remained after the byte before.
Left(n, d, i, r) == (r * 256 + Byte(n, i)) % d

\* The recursion over the eight bytes has a solution: the one computed byte by byte.
LEMMA RemaindersEq ==
  ASSUME NEW n \in Int, NEW d \in Nat, d > 0
  PROVE  Remainders(n, d) = [i \in -1 .. 7 |->
             IF i = -1 THEN 0 ELSE (Remainders(n, d)[i - 1] * 256 + Byte(n, i)) % d]
<1> DEFINE a0 == Left(n, d, 0, 0)
           a1 == Left(n, d, 1, a0)
           a2 == Left(n, d, 2, a1)
           a3 == Left(n, d, 3, a2)
           a4 == Left(n, d, 4, a3)
           a5 == Left(n, d, 5, a4)
           a6 == Left(n, d, 6, a5)
           a7 == Left(n, d, 7, a6)
           w == [i \in -1 .. 7 |-> CASE i = -1 -> 0 [] i = 0 -> a0 [] i = 1 -> a1 [] i = 2 -> a2
                   [] i = 3 -> a3 [] i = 4 -> a4 [] i = 5 -> a5 [] i = 6 -> a6 [] i = 7 -> a7]
           F(f) == [i \in -1 .. 7 |-> IF i = -1 THEN 0 ELSE (f[i - 1] * 256 + Byte(n, i)) % d]
<1>1. w = F(w)
  <2> SUFFICES ASSUME NEW i \in -1 .. 7 PROVE w[i] = F(w)[i] OBVIOUS
  <2>1. i \in {-1, 0, 1, 2, 3, 4, 5, 6, 7} OBVIOUS
  <2> HIDE DEF a0, a1, a2, a3, a4, a5, a6, a7
  <2>2. CASE i = -1 BY <2>2
  <2>3. CASE i = 0 BY <2>3 DEF a0, Left
  <2>4. CASE i = 1 BY <2>4 DEF a1, Left
  <2>5. CASE i = 2 BY <2>5 DEF a2, Left
  <2>6. CASE i = 3 BY <2>6 DEF a3, Left
  <2>7. CASE i = 4 BY <2>7 DEF a4, Left
  <2>8. CASE i = 5 BY <2>8 DEF a5, Left
  <2>9. CASE i = 6 BY <2>9 DEF a6, Left
  <2>10. CASE i = 7 BY <2>10 DEF a7, Left
  <2> QED BY <2>1, <2>2, <2>3, <2>4, <2>5, <2>6, <2>7, <2>8, <2>9, <2>10
<1>2. Remainders(n, d) = CHOOSE f : f = F(f) BY DEF Remainders
<1> HIDE DEF w, F
<1>3. Remainders(n, d) = F(Remainders(n, d)) BY <1>1, <1>2
<1> QED BY <1>3 DEF F

\* Every remainder is one of the division by d.
LEMMA RemaindersAt ==
  ASSUME NEW n \in Int, NEW d \in Nat, d > 0
  PROVE  /\ Remainders(n, d)[-1] = 0
         /\ \A i \in Bytes :
              /\ Remainders(n, d)[i] = (Remainders(n, d)[i - 1] * 256 + Byte(n, i)) % d
              /\ Remainders(n, d)[i] \in 0 .. d - 1
              /\ Remainders(n, d)[i - 1] \in 0 .. d - 1
<1> DEFINE r == Remainders(n, d)
<1>1. r = [i \in -1 .. 7 |-> IF i = -1 THEN 0 ELSE (r[i - 1] * 256 + Byte(n, i)) % d]
  BY RemaindersEq
<1> HIDE DEF r
<1>2. r[-1] = 0 BY <1>1
<1>3. ASSUME NEW i \in Bytes PROVE r[i] = (r[i - 1] * 256 + Byte(n, i)) % d
  BY <1>1 DEF Bytes
<1>4. ASSUME NEW i \in Bytes, r[i - 1] \in 0 .. d - 1 PROVE r[i] \in 0 .. d - 1
  <2>1. Byte(n, i) \in 0 .. 255 BY ByteRange
  <2>2. \A x \in Nat : x % d \in 0 .. d - 1 OBVIOUS
  <2>3. r[i - 1] * 256 + Byte(n, i) \in Nat BY <1>4, <2>1
  <2> QED BY <1>3, <2>2, <2>3
<1>5. r[0] \in 0 .. d - 1 BY <1>2, <1>4 DEF Bytes
<1>6. r[1] \in 0 .. d - 1 BY <1>5, <1>4 DEF Bytes
<1>7. r[2] \in 0 .. d - 1 BY <1>6, <1>4 DEF Bytes
<1>8. r[3] \in 0 .. d - 1 BY <1>7, <1>4 DEF Bytes
<1>9. r[4] \in 0 .. d - 1 BY <1>8, <1>4 DEF Bytes
<1>10. r[5] \in 0 .. d - 1 BY <1>9, <1>4 DEF Bytes
<1>11. r[6] \in 0 .. d - 1 BY <1>10, <1>4 DEF Bytes
<1>12. r[7] \in 0 .. d - 1 BY <1>11, <1>4 DEF Bytes
<1>13. ASSUME NEW i \in Bytes PROVE r[i] \in 0 .. d - 1 /\ r[i - 1] \in 0 .. d - 1
  <2>1. i \in {0, 1, 2, 3, 4, 5, 6, 7} BY DEF Bytes
  <2>2. 0 \in 0 .. d - 1 OBVIOUS
  <2> QED BY <1>2, <1>5, <1>6, <1>7, <1>8, <1>9, <1>10, <1>11, <1>12, <2>1, <2>2
<1> QED BY <1>2, <1>3, <1>13 DEF r

\* Division with remainder.
LEMMA DivMod ==
  ASSUME NEW d \in Nat, d > 0, NEW x \in Nat
  PROVE  x = (x \div d) * d + (x % d) /\ x \div d \in Nat
OBVIOUS

\* A quotient is the only one that leaves a remainder below the divisor.
LEMMA DivUnique ==
  ASSUME NEW d \in Nat, d > 0, NEW q \in Int, NEW r \in 0 .. d - 1
  PROVE  (q * d + r) \div d = q
OBVIOUS

\* One step of the division: a byte of the quotient, and nothing is lost.
LEMMA QuotientByte ==
  ASSUME NEW n \in Int, NEW d \in Nat, d > 0, NEW i \in Bytes
  PROVE  /\ Quotient(n, d)[i] \in 0 .. 255
         /\ Remainders(n, d)[i - 1] * 256 + Byte(n, i) = Quotient(n, d)[i] * d + Remainders(n, d)[i]
<1> DEFINE p == Remainders(n, d)[i - 1]
           b == Byte(n, i)
           x == p * 256 + b
<1>1. p \in 0 .. d - 1 /\ Remainders(n, d)[i] = x % d BY RemaindersAt
<1>2. b \in 0 .. 255 BY ByteRange
<1>3. Quotient(n, d)[i] = x \div d BY DEF Quotient
<1> HIDE DEF p, b
<1>4. x \in Nat /\ x < 256 * d BY <1>1, <1>2
<1>5. x = (x \div d) * d + (x % d) /\ x \div d \in Nat BY <1>4, DivMod
<1>6. x \div d < 256
  <2> HIDE DEF x
  <2> QED BY <1>4
<1> QED BY <1>1, <1>3, <1>5, <1>6 DEF p, b

\* An int, whatever is divided.
LEMMA ToIntRange ==
  ASSUME NEW n \in Int, NEW d \in Nat, d > 0
  PROVE  ToInt(Quotient(n, d)) \in Ints
<1> DEFINE q == Quotient(n, d)
<1>1. q[4] \in 0 .. 255 /\ q[5] \in 0 .. 255 /\ q[6] \in 0 .. 255 /\ q[7] \in 0 .. 255
  BY QuotientByte DEF Bytes
<1> HIDE DEF q
<1>2. PICK a \in 0 .. 255, b \in 0 .. 255, c \in 0 .. 255, e \in 0 .. 255 :
         a = q[4] /\ b = q[5] /\ c = q[6] /\ e = q[7]
  BY <1>1
<1>3. (((IF a < 128 THEN a ELSE a - 256) * 256 + b) * 256 + c) * 256 + e \in Ints
  BY SMT DEF Ints, Limit
<1>4. ToInt(q) \in Ints BY <1>2, <1>3 DEF ToInt
<1> QED BY <1>4 DEF q

\* A product above zero is its four lower bytes.
LEMMA BytesOfNat ==
  ASSUME NEW n \in 0 .. Limit
  PROVE  /\ Byte(n, 0) = 0 /\ Byte(n, 1) = 0 /\ Byte(n, 2) = 0 /\ Byte(n, 3) = 0
         /\ n = ((Byte(n, 4) * 256 + Byte(n, 5)) * 256 + Byte(n, 6)) * 256 + Byte(n, 7)
         /\ Byte(n, 4) <= 64
BY SMT DEF Byte, Limit

\* The division of 64 bits is that of the integers, and its lower half keeps the sign.
LEMMA DivisionIsExact ==
  ASSUME NEW n \in 0 .. Limit, NEW d \in Nat, d > 0
  PROVE  ToInt(Quotient(n, d)) = n \div d
<1> DEFINE q == Quotient(n, d)
           r == Remainders(n, d)
<1>1. r[-1] = 0 BY RemaindersAt
<1>2. ASSUME NEW i \in Bytes
      PROVE  /\ q[i] \in 0 .. 255 /\ r[i] \in 0 .. d - 1
             /\ r[i - 1] * 256 + Byte(n, i) = q[i] * d + r[i]
  BY QuotientByte, RemaindersAt
<1> HIDE DEF q, r
<1>3. ASSUME NEW i \in Bytes, r[i - 1] = 0, Byte(n, i) = 0 PROVE r[i] = 0
  <2>1. q[i] * d + r[i] = 0 BY <1>2, <1>3
  <2>2. q[i] \in Nat /\ r[i] \in Nat BY <1>2
  <2>3. q[i] * d \in Nat BY <2>2
  <2> QED BY <2>1, <2>2, <2>3
<1>4. Byte(n, 0) = 0 /\ Byte(n, 1) = 0 /\ Byte(n, 2) = 0 /\ Byte(n, 3) = 0 /\ Byte(n, 4) <= 64
  BY BytesOfNat
<1>5. r[0] = 0 BY <1>1, <1>3, <1>4 DEF Bytes
<1>6. r[1] = 0 BY <1>5, <1>3, <1>4 DEF Bytes
<1>7. r[2] = 0 BY <1>6, <1>3, <1>4 DEF Bytes
<1>8. r[3] = 0 BY <1>7, <1>3, <1>4 DEF Bytes
<1>9. PICK q4 \in 0 .. 255, r4 \in 0 .. d - 1, b4 \in 0 .. 64 :
         q4 = q[4] /\ r4 = r[4] /\ b4 = Byte(n, 4) /\ b4 = q4 * d + r4
  <2>1. 4 \in Bytes BY DEF Bytes
  <2>2. q[4] \in 0 .. 255 /\ r[4] \in 0 .. d - 1 BY <1>2, <2>1
  <2>3. r[4 - 1] * 256 + Byte(n, 4) = q[4] * d + r[4] BY <1>2, <2>1
  <2>4. Byte(n, 4) \in 0 .. 64 BY <1>4, <2>1, ByteRange
  <2>5. r[3] * 256 + Byte(n, 4) = Byte(n, 4) BY <1>8, <2>4
  <2>6. 4 - 1 = 3 OBVIOUS
  <2>7. Byte(n, 4) = q[4] * d + r[4] BY <2>3, <2>5, <2>6
  <2> QED BY <2>2, <2>4, <2>7
<1>10. PICK q5 \in 0 .. 255, r5 \in 0 .. d - 1, b5 \in 0 .. 255 :
         q5 = q[5] /\ r5 = r[5] /\ b5 = Byte(n, 5) /\ r4 * 256 + b5 = q5 * d + r5
  <2>1. 5 \in Bytes BY DEF Bytes
  <2>2. q[5] \in 0 .. 255 /\ r[5] \in 0 .. d - 1 BY <1>2, <2>1
  <2>3. r[5 - 1] * 256 + Byte(n, 5) = q[5] * d + r[5] BY <1>2, <2>1
  <2>4. Byte(n, 5) \in 0 .. 255 BY <2>1, ByteRange
  <2>5. 5 - 1 = 4 OBVIOUS
  <2>6. r4 * 256 + Byte(n, 5) = q[5] * d + r[5] BY <1>9, <2>3, <2>5
  <2> QED BY <2>2, <2>4, <2>6
<1>11. PICK q6 \in 0 .. 255, r6 \in 0 .. d - 1, b6 \in 0 .. 255 :
         q6 = q[6] /\ r6 = r[6] /\ b6 = Byte(n, 6) /\ r5 * 256 + b6 = q6 * d + r6
  <2>1. 6 \in Bytes BY DEF Bytes
  <2>2. q[6] \in 0 .. 255 /\ r[6] \in 0 .. d - 1 BY <1>2, <2>1
  <2>3. r[6 - 1] * 256 + Byte(n, 6) = q[6] * d + r[6] BY <1>2, <2>1
  <2>4. Byte(n, 6) \in 0 .. 255 BY <2>1, ByteRange
  <2>5. 6 - 1 = 5 OBVIOUS
  <2>6. r5 * 256 + Byte(n, 6) = q[6] * d + r[6] BY <1>10, <2>3, <2>5
  <2> QED BY <2>2, <2>4, <2>6
<1>12. PICK q7 \in 0 .. 255, r7 \in 0 .. d - 1, b7 \in 0 .. 255 :
         q7 = q[7] /\ r7 = r[7] /\ b7 = Byte(n, 7) /\ r6 * 256 + b7 = q7 * d + r7
  <2>1. 7 \in Bytes BY DEF Bytes
  <2>2. q[7] \in 0 .. 255 /\ r[7] \in 0 .. d - 1 BY <1>2, <2>1
  <2>3. r[7 - 1] * 256 + Byte(n, 7) = q[7] * d + r[7] BY <1>2, <2>1
  <2>4. Byte(n, 7) \in 0 .. 255 BY <2>1, ByteRange
  <2>5. 7 - 1 = 6 OBVIOUS
  <2>6. r6 * 256 + Byte(n, 7) = q[7] * d + r[7] BY <1>11, <2>3, <2>5
  <2> QED BY <2>2, <2>4, <2>6
<1>13. q4 < 128
  <2>1. q4 * d >= q4 OBVIOUS
  <2> QED BY <1>9, <2>1
<1>14. n = (((q4 * d + r4) * 256 + b5) * 256 + b6) * 256 + b7
  <2>1. n = ((Byte(n, 4) * 256 + Byte(n, 5)) * 256 + Byte(n, 6)) * 256 + Byte(n, 7) BY BytesOfNat
  <2>2. n = ((b4 * 256 + b5) * 256 + b6) * 256 + b7 BY <1>9, <1>10, <1>11, <1>12, <2>1
  <2> QED BY <1>9, <2>2
<1>15. n \div d = ((q4 * 256 + q5) * 256 + q6) * 256 + q7
  <2> DEFINE all == ((q4 * 256 + q5) * 256 + q6) * 256 + q7
  <2>1. r4 * 256 + b5 = q5 * d + r5 /\ r5 * 256 + b6 = q6 * d + r6 /\ r6 * 256 + b7 = q7 * d + r7
    BY <1>10, <1>11, <1>12
  <2>2. n = all * d + r7 BY <1>14, <2>1, SMT
  <2>3. all \in Int OBVIOUS
  <2> HIDE DEF all
  <2>4. (all * d + r7) \div d = all BY <2>3, DivUnique
  <2>5. n \div d = all BY <2>2, <2>4
  <2> QED BY <2>5 DEF all
<1>16. ToInt(q) = ((q4 * 256 + q5) * 256 + q6) * 256 + q7
  BY <1>9, <1>10, <1>11, <1>12, <1>13 DEF ToInt
<1> QED BY <1>15, <1>16 DEF q

\* All the later proofs need to know of the numbers.
LEMMA LimitIsNat == Limit \in Nat /\ Limit > 0
BY DEF Limit

\* The value of a sample is an int, for every result and every divider.
LEMMA UndividedIsInt ==
  ASSUME NEW raw \in Raws
  PROVE  Undivided(MilliVolts(raw)) \in Ints
<1> DEFINE mV == MilliVolts(raw)
<1>1. mV \in -Limit .. Limit BY BatteryAssumption
<1> HIDE DEF mV
<1>2. CASE OutputOhm = 0
  <2>1. mV \in Ints BY <1>1, LimitIsNat DEF Ints
  <2> QED BY <1>2, <2>1 DEF Undivided, mV
<1>3. CASE OutputOhm # 0
  <2>1. OutputOhm \in Nat /\ OutputOhm > 0 /\ FullOhm \in Nat BY <1>3, BatteryAssumption
  <2>2. mV * FullOhm \in Int BY <1>1, <2>1
  <2>3. ToInt(Quotient(mV * FullOhm, OutputOhm)) \in Ints BY <2>1, <2>2, ToIntRange
  <2> QED BY <1>3, <2>3 DEF Undivided, mV
<1> QED BY <1>2, <1>3

\* The value of a voltage above zero is the quotient of the divider.
LEMMA UndividedIsExact ==
  ASSUME NEW raw \in Raws, MilliVolts(raw) >= 0
  PROVE  Undivided(MilliVolts(raw)) =
           IF OutputOhm = 0 THEN MilliVolts(raw) ELSE (MilliVolts(raw) * FullOhm) \div OutputOhm
<1> DEFINE mV == MilliVolts(raw)
<1>1. mV \in Nat /\ mV * FullOhm <= Limit BY BatteryAssumption, LimitIsNat
<1> HIDE DEF mV
<1>3. CASE OutputOhm = 0 BY <1>3 DEF Undivided, mV
<1>4. CASE OutputOhm # 0
  <2>1. OutputOhm \in Nat /\ OutputOhm > 0 /\ FullOhm \in Nat BY <1>4, BatteryAssumption
  <2>2. mV * FullOhm \in 0 .. Limit BY <1>1, <2>1, LimitIsNat
  <2>3. ToInt(Quotient(mV * FullOhm, OutputOhm)) = (mV * FullOhm) \div OutputOhm
    BY <2>1, <2>2, DivisionIsExact
  <2> QED BY <1>4, <2>3 DEF Undivided, mV
<1> QED BY <1>3, <1>4

--------------------------------------------------------------------------------
(* The state machine.                                                        *)

\* The types hold at first, and every step keeps them.
LEMMA TypeInit == Init => TypeOK
<1> SUFFICES ASSUME Init PROVE TypeOK OBVIOUS
<1>1. batt_mV \in Ints /\ packet \in Ints /\ packet >= 0 /\ packets_sent \in 0 .. MaxPackets
  BY BatteryAssumption, LimitIsNat DEF Init, Ints
<1>2. adc \in [ok : BOOLEAN, mV : Int] BY DEF Init, NoRead
<1>3. seen \in [Contexts -> [stat : {0, 1, Unread}, power : {0, 1, Unread}]] BY DEF Init, Nothing
<1>4. cb \in [Contexts -> {"idle", "stat", "power", "show"}] BY DEF Init
<1> QED BY <1>1, <1>2, <1>3, <1>4 DEF Init, TypeOK, Steps

\* What the callback has read of both pins, or one was not read.
LEMMA RangeOfSeen ==
  ASSUME NEW c \in Contexts, TypeOK
  PROVE  Unread \notin Range(seen[c]) <=> seen[c].stat # Unread /\ seen[c].power # Unread
<1>1. seen[c] \in [stat : {0, 1, Unread}, power : {0, 1, Unread}] BY DEF TypeOK
<1>2. DOMAIN seen[c] = {"stat", "power"} BY <1>1
<1> QED BY <1>2 DEF Range

\* What the callback writes: the level it has read, or nothing.
LEMMA ShowsLevel ==
  ASSUME NEW c \in Contexts, TypeOK, Show(c)
  PROVE  /\ led_port /\ seen[c].stat # Unread /\ seen[c].power # Unread =>
              led' = IF seen[c].power = 0 THEN 0 ELSE seen[c].stat
         /\ ~(led_port /\ seen[c].stat # Unread /\ seen[c].power # Unread) => led' = led
         /\ led' \in {0, 1}
<1>1. seen[c].stat \in {0, 1, Unread} /\ seen[c].power \in {0, 1, Unread} /\ led \in {0, 1}
  BY DEF TypeOK
<1> DEFINE read == Unread \notin Range(seen[c])
<1>2. read <=> seen[c].stat # Unread /\ seen[c].power # Unread BY RangeOfSeen
<1>3. led' = IF ~(led_port /\ read) THEN led
             ELSE IF seen[c].power = 0 THEN 0 ELSE seen[c].stat
  BY DEF Show
<1> HIDE DEF read
<1>4. CASE ~(led_port /\ read)
  <2>1. led' = led BY <1>3, <1>4
  <2> QED BY <1>1, <1>2, <1>4, <2>1
<1>5. CASE led_port /\ read
  <2>1. led' = IF seen[c].power = 0 THEN 0 ELSE seen[c].stat BY <1>3, <1>5
  <2>2. led' \in {0, 1} BY <1>1, <1>2, <1>5, <2>1
  <2> QED BY <1>2, <1>5, <2>1, <2>2
<1> QED BY <1>4, <1>5

\* The types are kept: what battery_sample returns is an int for every divider.
LEMMA TypeNext == TypeOK /\ [Next]_vars => TypeOK'
<1> SUFFICES ASSUME TypeOK, [Next]_vars PROVE TypeOK' OBVIOUS
<1> USE DEF TypeOK
<1>1. CASE StatEdge BY <1>1 DEF StatEdge, sampling
<1>2. CASE PowerEdge BY <1>2 DEF PowerEdge, sampling
<1>3. CASE Interrupt BY <1>3 DEF Interrupt, pins, sampling, Contexts
<1>4. ASSUME NEW c \in Contexts, ReadStat(c) PROVE TypeOK' BY <1>4 DEF ReadStat, pins, sampling
<1>5. ASSUME NEW c \in Contexts, ReadPower(c) PROVE TypeOK' BY <1>5 DEF ReadPower, pins, sampling
<1>6. ASSUME NEW c \in Contexts, Show(c) PROVE TypeOK'
  <2>1. led' \in {0, 1} BY <1>6, ShowsLevel
  <2>2. seen' \in [Contexts -> [stat : {0, 1, Unread}, power : {0, 1, Unread}]]
    BY <1>6 DEF Show, Nothing
  <2>3. excuse' \subseteq {"power", "unread", "overtaken"} BY <1>6 DEF Show
  <2>4. cb' \in [Contexts -> {"idle", "stat", "power", "show"}] BY <1>6 DEF Show
  <2> QED BY <1>6, <2>1, <2>2, <2>3, <2>4 DEF Show, pins, sampling
<1>7. CASE divider_setup
  <2>1. battery_ok' \in BOOLEAN BY <1>7 DEF divider_setup
  <2>2. calibrate' \in BOOLEAN BY <1>7, <2>1, Zenon DEF divider_setup
  <2>3. at' \in Steps BY <1>7 DEF divider_setup, Steps
  <2> QED BY <1>7, <2>1, <2>2, <2>3 DEF divider_setup, pins, status
<1>8. CASE pwr_good_setup BY <1>8 DEF pwr_good_setup, Thread, pins, status, sampling, Steps
<1>9. CASE batt_stat_setup BY <1>9 DEF batt_stat_setup, Thread, pins, sampling, Steps
<1>10. CASE SetUpLed
  <2>1. led_port' \in BOOLEAN BY <1>10 DEF SetUpLed
  <2>2. at' \in Steps BY <1>10 DEF SetUpLed, Steps
  <2>3. cb' \in [Contexts -> {"idle", "stat", "power", "show"}] BY <1>10 DEF SetUpLed
  <2> QED BY <1>10, <2>1, <2>2, <2>3 DEF SetUpLed, pins, sampling
<1>11. CASE LedIsSetUp BY <1>11 DEF LedIsSetUp, Thread, pins, status, sampling, Steps
<1>12. CASE start_udp BY <1>12 DEF start_udp, Thread, pins, status, sampling, Steps
<1>13. CASE Enable BY <1>13 DEF Enable, Thread, pins, status, Steps
<1>14. CASE battery_sample
  <2>1. PICK raw \in Raws, ok \in BOOLEAN :
          /\ batt_mV' = IF ok THEN Undivided(MilliVolts(raw)) ELSE -1
          /\ adc' = [ok |-> ok, mV |-> MilliVolts(raw)]
          /\ calibrated' = (calibrated \/ (calibrate /\ ok))
          /\ spoiled' = (spoiled \/ (calibrate /\ ~ok))
    BY <1>14 DEF battery_sample
  <2>2. batt_mV' \in Ints BY <2>1, UndividedIsInt, LimitIsNat DEF Ints
  <2>3. adc' \in [ok : BOOLEAN, mV : Int] BY <2>1, BatteryAssumption, LimitIsNat
  <2>4. calibrated' \in BOOLEAN /\ spoiled' \in BOOLEAN BY <2>1
  <2> QED BY <1>14, <2>2, <2>3, <2>4 DEF battery_sample, Thread, pins, status, Steps
<1>15. CASE send_udp_data
  BY <1>15, BatteryAssumption DEF send_udp_data, Thread, pins, status, Steps
<1>16. CASE SendNothing BY <1>16 DEF SendNothing, Thread, pins, status, sampling, Steps
<1>17. CASE Disable
  <2>1. batt_mV' \in Ints BY <1>17, LimitIsNat DEF Disable, Ints
  <2>2. divider' \in BOOLEAN BY <1>17 DEF Disable
  <2>3. adc' \in [ok : BOOLEAN, mV : Int] BY <1>17 DEF Disable, NoRead
  <2> QED BY <1>17, <2>1, <2>2, <2>3 DEF Disable, pins, status, Steps
<1>18. CASE UNCHANGED vars BY <1>18 DEF vars, pins, status, sampling
<1> QED BY <1>1, <1>2, <1>3, <1>4, <1>5, <1>6, <1>7, <1>8, <1>9, <1>10, <1>11, <1>12, <1>13,
           <1>14, <1>15, <1>16, <1>17, <1>18 DEF Next

\* Every variable has its type, and a voltage the width of an int although its
\* product is divided in 64 bits (battery.c:313-330).
THEOREM BatteryTypeCorrect == Spec => []TypeOK
BY TypeInit, TypeNext, PTL DEF Spec

--------------------------------------------------------------------------------
(* The LED.                                                                  *)

\* The callback runs in the thread while the set-up shows the status, and in the
\* interrupt only after it was installed.
PlacesOK ==
  /\ at \in {"divider", "pwr_good", "batt_stat"} => ~irq
  /\ pending \/ cb["isr"] # "idle" => irq
  /\ cb["thread"] # "idle" => at = "show"
  /\ at = "show" => irq /\ led_port
  /\ at = "led" => irq

\* What the callback has read of the status pin is its level, or an edge waits, or
\* the interrupt has come between.
StatIsFresh ==
  /\ cb["isr"] \in {"power", "show"} => pending \/ seen["isr"].stat \in {batt_stat, Unread}
  /\ cb["thread"] \in {"power", "show"} =>
       \/ pending \/ cb["isr"] # "idle" \/ "overtaken" \in excuse
       \/ seen["thread"].stat \in {batt_stat, Unread}

\* The same of the power pin, whose edge only leaves an excuse.
PowerIsFresh ==
  /\ cb["isr"] = "show" => "power" \in excuse \/ seen["isr"].power \in {pwr_good, Unread}
  /\ cb["thread"] = "show" =>
       \/ cb["isr"] # "idle" \/ "overtaken" \in excuse \/ "power" \in excuse
       \/ seen["thread"].power \in {pwr_good, Unread}

\* LedShowsStatus from the moment the set-up has shown it.
LedFits ==
  irq /\ led_port /\ at # "led" /\ cb["thread"] = "idle" /\ ~pending /\ cb["isr"] = "idle"
    /\ excuse = {} => led = (IF pwr_good = 0 THEN 0 ELSE batt_stat)

LedInv == PlacesOK /\ StatIsFresh /\ PowerIsFresh /\ LedFits

\* The LED is dark at first, and every step keeps what the LED's invariant says.
LEMMA LedInit == Init => LedInv
BY DEF Init, LedInv, PlacesOK, StatIsFresh, PowerIsFresh, LedFits, Contexts

\* What remains of the excuses when the callback has written.
LEMMA ShowExcuses ==
  ASSUME NEW c \in Contexts, TypeOK, Show(c)
  PROVE  /\ "power" \in excuse' <=> "power" \in excuse
         /\ excuse' = {} => seen[c].stat # Unread /\ seen[c].power # Unread
         /\ c = "isr" /\ cb["thread"] \in {"power", "show"} => "overtaken" \in excuse'
         /\ c = "thread" /\ "overtaken" \in excuse => "overtaken" \in excuse'
<1> DEFINE read == Unread \notin Range(seen[c])
<1>1. read <=> seen[c].stat # Unread /\ seen[c].power # Unread BY RangeOfSeen
<1>2. excuse' = (excuse \ {"unread", IF c = "isr" THEN "overtaken" ELSE ""})
                  \cup (IF read THEN {} ELSE {"unread"})
                  \cup (IF Overtakes(c) THEN {"overtaken"} ELSE {})
  BY DEF Show
<1> HIDE DEF read
<1>3. excuse' = {} => read BY <1>2
<1>4. "power" \in excuse' <=> "power" \in excuse BY <1>2
<1>5. Overtakes(c) => "overtaken" \in excuse' BY <1>2
<1>6. c = "thread" /\ "overtaken" \in excuse => "overtaken" \in excuse' BY <1>2
<1> QED BY <1>1, <1>3, <1>4, <1>5, <1>6 DEF Overtakes

\* The pins, the interrupt, the callback in both contexts and the set-up, one after the other.
LEMMA LedNext == TypeOK /\ LedInv /\ [Next]_vars => LedInv'
<1> SUFFICES ASSUME TypeOK, LedInv, [Next]_vars PROVE LedInv' OBVIOUS
<1> USE DEF LedInv, PlacesOK, StatIsFresh, PowerIsFresh, LedFits
<1>0. "isr" \in Contexts /\ "thread" \in Contexts /\ "isr" # "thread" BY DEF Contexts
<1>1. CASE StatEdge BY <1>1 DEF StatEdge
<1>2. CASE PowerEdge BY <1>2 DEF PowerEdge
<1>3. CASE Interrupt
  <2>1. /\ cb' = [cb EXCEPT !["isr"] = "stat"]
        /\ cb \in [Contexts -> {"idle", "stat", "power", "show"}]
    BY <1>3 DEF Interrupt, TypeOK
  <2>2. cb'["isr"] = "stat" /\ cb'["thread"] = cb["thread"] BY <1>0, <2>1
  <2> QED BY <1>3, <2>2 DEF Interrupt, pins
<1>4. CASE ReadStat("isr") BY <1>0, <1>4 DEF ReadStat, MayRun, pins, TypeOK
<1>5. CASE ReadStat("thread") BY <1>0, <1>5 DEF ReadStat, MayRun, pins, TypeOK
<1>6. CASE ReadPower("isr") BY <1>0, <1>6 DEF ReadPower, MayRun, pins, TypeOK
<1>7. CASE ReadPower("thread") BY <1>0, <1>7 DEF ReadPower, MayRun, pins, TypeOK
<1>8. CASE Show("isr")
  <2>1. /\ cb["isr"] = "show" /\ cb'["isr"] = "idle" /\ cb'["thread"] = cb["thread"]
        /\ seen'["thread"] = seen["thread"]
    BY <1>0, <1>8 DEF Show, MayRun, TypeOK
  <2>2. /\ batt_stat' = batt_stat /\ pwr_good' = pwr_good /\ at' = at
        /\ (led_port' <=> led_port) /\ (irq' <=> irq) /\ (pending' <=> pending)
    BY <1>8 DEF Show, pins
  <2>3. PlacesOK' BY <2>1, <2>2
  <2>4. StatIsFresh' /\ PowerIsFresh' BY <1>0, <1>8, <2>1, <2>2, ShowExcuses
  <2>5. LedFits'
    <3> SUFFICES ASSUME irq', led_port', cb'["thread"] = "idle", ~pending', cb'["isr"] = "idle",
                        excuse' = {}
                 PROVE  led' = IF pwr_good' = 0 THEN 0 ELSE batt_stat'
      OBVIOUS
    <3>1. /\ seen["isr"].stat # Unread /\ seen["isr"].power # Unread /\ "power" \notin excuse
      BY <1>0, <1>8, <2>1, ShowExcuses
    <3>2. seen["isr"].stat = batt_stat /\ seen["isr"].power = pwr_good BY <2>1, <2>2, <3>1
    <3>3. led' = IF seen["isr"].power = 0 THEN 0 ELSE seen["isr"].stat
      BY <1>0, <1>8, <2>2, <3>1, ShowsLevel
    <3> QED BY <2>2, <3>2, <3>3
  <2> QED BY <2>3, <2>4, <2>5
<1>9. CASE Show("thread")
  <2>1. /\ cb["thread"] = "show" /\ cb'["thread"] = "idle" /\ cb'["isr"] = cb["isr"]
        /\ seen'["isr"] = seen["isr"] /\ cb["isr"] = "idle"
    BY <1>0, <1>9 DEF Show, MayRun, TypeOK
  <2>2. /\ batt_stat' = batt_stat /\ pwr_good' = pwr_good /\ at' = at
        /\ (led_port' <=> led_port) /\ (irq' <=> irq) /\ (pending' <=> pending)
    BY <1>9 DEF Show, pins
  <2>3. PlacesOK' BY <2>1, <2>2
  <2>4. StatIsFresh' /\ PowerIsFresh' BY <1>0, <1>9, <2>1, <2>2, ShowExcuses
  <2>5. LedFits'
    <3> SUFFICES ASSUME irq', led_port', cb'["thread"] = "idle", ~pending', cb'["isr"] = "idle",
                        excuse' = {}
                 PROVE  led' = IF pwr_good' = 0 THEN 0 ELSE batt_stat'
      OBVIOUS
    <3>1. /\ seen["thread"].stat # Unread /\ seen["thread"].power # Unread /\ "power" \notin excuse
          /\ "overtaken" \notin excuse
      BY <1>0, <1>9, <2>1, ShowExcuses
    <3>2. seen["thread"].stat = batt_stat /\ seen["thread"].power = pwr_good BY <2>1, <2>2, <3>1
    <3>3. led' = IF seen["thread"].power = 0 THEN 0 ELSE seen["thread"].stat
      BY <1>0, <1>9, <2>2, <3>1, ShowsLevel
    <3> QED BY <2>2, <3>2, <3>3
  <2> QED BY <2>3, <2>4, <2>5
<1>10. CASE divider_setup BY <1>10 DEF divider_setup, Thread, pins, status
<1>11. CASE pwr_good_setup BY <1>11 DEF pwr_good_setup, Thread, pins, status
<1>12. CASE batt_stat_setup BY <1>12 DEF batt_stat_setup, Thread, pins
<1>13. CASE SetUpLed BY <1>0, <1>13 DEF SetUpLed, Thread, pins, TypeOK
<1>14. CASE LedIsSetUp BY <1>14 DEF LedIsSetUp, Thread, pins, status
<1>15. CASE start_udp BY <1>15 DEF start_udp, Thread, pins, status
<1>16. CASE Enable BY <1>16 DEF Enable, Thread, pins, status
<1>17. CASE battery_sample BY <1>17 DEF battery_sample, Thread, pins, status
<1>18. CASE send_udp_data BY <1>18 DEF send_udp_data, Thread, pins, status
<1>19. CASE SendNothing BY <1>19 DEF SendNothing, Thread, pins, status
<1>20. CASE Disable BY <1>20 DEF Disable, Thread, pins, status
<1>21. CASE UNCHANGED vars BY <1>21 DEF vars, pins, status
<1> QED BY <1>1, <1>2, <1>3, <1>4, <1>5, <1>6, <1>7, <1>8, <1>9, <1>10, <1>11, <1>12, <1>13,
           <1>14, <1>15, <1>16, <1>17, <1>18, <1>19, <1>20, <1>21 DEF Next, Contexts

\* After its set-up the LED shows the charger's status, whatever edge or interrupt came
\* during the set-up, but for the reasons the property names (battery.c:164-283).
THEOREM LedShowsTheCharger == Spec => []LedShowsStatus
<1>1. LedInv => LedShowsStatus BY DEF LedInv, PlacesOK, LedFits, LedShowsStatus
<1> QED BY <1>1, LedInit, LedNext, TypeInit, TypeNext, PTL DEF Spec

--------------------------------------------------------------------------------
(* The voltage.                                                              *)

\* A read succeeds only behind the divider; its value is that of some result of
\* the ADC; the first read carries the request for a calibration.
VoltageInv ==
  /\ at \in {"sample", "send"} => divider /\ battery_ok
  /\ battery_ok => calibrate \/ calibrated \/ spoiled
  /\ at = "send" =>
       /\ calibrated \/ spoiled
       /\ \E raw \in Raws :
            /\ adc.mV = MilliVolts(raw)
            /\ batt_mV = IF adc.ok THEN Undivided(MilliVolts(raw)) ELSE -1

\* Nothing is sampled at first, and every step keeps what is said of the voltage.
LEMMA VoltageInit == Init => VoltageInv
BY DEF Init, VoltageInv

\* The loop of main takes its steps in order; nobody else touches the divider and the ADC.
LEMMA VoltageNext == TypeOK /\ VoltageInv /\ [Next]_vars => VoltageInv'
<1> SUFFICES ASSUME TypeOK, VoltageInv, [Next]_vars PROVE VoltageInv' OBVIOUS
<1> USE DEF VoltageInv
<1>1. CASE StatEdge BY <1>1 DEF StatEdge, sampling
<1>2. CASE PowerEdge BY <1>2 DEF PowerEdge, sampling
<1>3. CASE Interrupt BY <1>3 DEF Interrupt, sampling
<1>4. ASSUME NEW c \in Contexts, ReadStat(c) PROVE VoltageInv' BY <1>4 DEF ReadStat, sampling
<1>5. ASSUME NEW c \in Contexts, ReadPower(c) PROVE VoltageInv' BY <1>5 DEF ReadPower, sampling
<1>6. ASSUME NEW c \in Contexts, Show(c) PROVE VoltageInv' BY <1>6 DEF Show, sampling
<1>7. CASE divider_setup
  <2>1. at' # "sample" /\ at' # "send" BY <1>7 DEF divider_setup
  <2>2. battery_ok' => calibrate' BY <1>7, Zenon DEF divider_setup
  <2> QED BY <2>1, <2>2
<1>8. CASE pwr_good_setup BY <1>8 DEF pwr_good_setup, sampling
<1>9. CASE batt_stat_setup BY <1>9 DEF batt_stat_setup, sampling
<1>10. CASE SetUpLed BY <1>10 DEF SetUpLed, sampling
<1>11. CASE LedIsSetUp BY <1>11 DEF LedIsSetUp, sampling
<1>12. CASE start_udp BY <1>12 DEF start_udp, sampling
<1>13. CASE Enable BY <1>13 DEF Enable
<1>14. CASE battery_sample
  <2>1. PICK raw \in Raws, ok \in BOOLEAN :
          /\ batt_mV' = IF ok THEN Undivided(MilliVolts(raw)) ELSE -1
          /\ adc' = [ok |-> ok, mV |-> MilliVolts(raw)]
          /\ calibrated' = (calibrated \/ (calibrate /\ ok))
          /\ spoiled' = (spoiled \/ (calibrate /\ ~ok))
    BY <1>14 DEF battery_sample
  <2>2. divider /\ battery_ok /\ at' = "send" /\ divider' = divider /\ battery_ok' = battery_ok
    BY <1>14 DEF battery_sample, Thread
  <2>3. calibrated' \/ spoiled' BY <2>1, <2>2
  <2>4. adc'.mV = MilliVolts(raw) /\ adc'.ok = ok BY <2>1
  <2>5. batt_mV' = IF adc'.ok THEN Undivided(MilliVolts(raw)) ELSE -1 BY <2>1, <2>4
  <2> QED BY <2>2, <2>3, <2>4, <2>5
<1>15. CASE send_udp_data BY <1>15 DEF send_udp_data
<1>16. CASE SendNothing BY <1>16 DEF SendNothing, sampling
<1>17. CASE Disable BY <1>17 DEF Disable
<1>18. CASE UNCHANGED vars BY <1>18 DEF vars, sampling
<1> QED BY <1>1, <1>2, <1>3, <1>4, <1>5, <1>6, <1>7, <1>8, <1>9, <1>10, <1>11, <1>12, <1>13,
           <1>14, <1>15, <1>16, <1>17, <1>18 DEF Next

\* Only send_udp_data changes the packet.
LEMMA PacketNext ==
  ASSUME [Next]_vars, packet' # packet
  PROVE  send_udp_data
BY DEF Next, vars, pins, status, sampling, StatEdge, PowerEdge, Interrupt, ReadStat, ReadPower,
   Show, divider_setup, pwr_good_setup, batt_stat_setup, SetUpLed, LedIsSetUp, start_udp, Enable,
   battery_sample, SendNothing, Disable

\* A product below zero begins with four bytes of ones, and its fifth is at least 192.
LEMMA BytesOfNegative ==
  ASSUME NEW n \in -Limit .. -1
  PROVE  /\ Byte(n, 0) = 255 /\ Byte(n, 1) = 255 /\ Byte(n, 2) = 255 /\ Byte(n, 3) = 255
         /\ Byte(n, 4) \in 192 .. 255
BY SMT DEF Byte, Limit

\* The fifth byte of the quotient has the sign bit if and only if what the four bytes of ones
\* leave is at least half of the divisor.
LEMMA SignOfQuotient ==
  ASSUME NEW n \in -Limit .. -1, NEW d \in Nat, d > 0
  PROVE  ToInt(Quotient(n, d)) < 0 <=> 2 * RestOfOnes(d) + 1 >= d
<1> DEFINE q == Quotient(n, d)
           r == Remainders(n, d)
<1>1. r[-1] = 0 BY RemaindersAt
<1>2. ASSUME NEW i \in Bytes
      PROVE  /\ q[i] \in 0 .. 255 /\ r[i] \in 0 .. d - 1
             /\ r[i] = (r[i - 1] * 256 + Byte(n, i)) % d
             /\ r[i - 1] * 256 + Byte(n, i) = q[i] * d + r[i]
  BY QuotientByte, RemaindersAt
<1> HIDE DEF q, r
<1>3. /\ Byte(n, 0) = 255 /\ Byte(n, 1) = 255 /\ Byte(n, 2) = 255 /\ Byte(n, 3) = 255
      /\ Byte(n, 4) \in 192 .. 255
  BY BytesOfNegative
<1>4. r[3] = RestOfOnes(d)
  <2>1. 0 \in Bytes /\ 1 \in Bytes /\ 2 \in Bytes /\ 3 \in Bytes BY DEF Bytes
  <2>2. 0 - 1 = -1 /\ 1 - 1 = 0 /\ 2 - 1 = 1 /\ 3 - 1 = 2 /\ 0 * 256 + 255 = 255 OBVIOUS
  <2>3. r[0] = (r[0 - 1] * 256 + Byte(n, 0)) % d BY <1>2, <2>1
  <2>4. r[1] = (r[1 - 1] * 256 + Byte(n, 1)) % d BY <1>2, <2>1
  <2>5. r[2] = (r[2 - 1] * 256 + Byte(n, 2)) % d BY <1>2, <2>1
  <2>6. r[3] = (r[3 - 1] * 256 + Byte(n, 3)) % d BY <1>2, <2>1
  <2>7. r[0] = 255 % d BY <1>1, <1>3, <2>2, <2>3
  <2>8. r[1] = (r[0] * 256 + 255) % d BY <1>3, <2>2, <2>4
  <2>9. r[2] = (r[1] * 256 + 255) % d BY <1>3, <2>2, <2>5
  <2>10. r[3] = (r[2] * 256 + 255) % d BY <1>3, <2>2, <2>6
  <2> QED BY <2>7, <2>8, <2>9, <2>10 DEF RestOfOnes
<1>5. /\ q[4] \in 0 .. 255 /\ r[4] \in 0 .. d - 1 /\ r[3] \in 0 .. d - 1
      /\ r[3] * 256 + Byte(n, 4) = q[4] * d + r[4]
  <2>1. 3 \in Bytes /\ 4 \in Bytes BY DEF Bytes
  <2>2. r[4 - 1] * 256 + Byte(n, 4) = q[4] * d + r[4] BY <1>2, <2>1
  <2>3. 4 - 1 = 3 OBVIOUS
  <2> QED BY <1>2, <2>1, <2>2, <2>3
<1>6. PICK a \in 0 .. 255, b \in 192 .. 255 : a = q[4] /\ b = Byte(n, 4) BY <1>3, <1>5
<1>7. PICK s \in 0 .. d - 1, t \in 0 .. d - 1 : s = r[3] /\ t = r[4] BY <1>5
<1>8. a >= 128 <=> 2 * s + 1 >= d
  <2>1. s * 256 + b = a * d + t BY <1>5, <1>6, <1>7
  <2>2. ASSUME a >= 128 PROVE 2 * s + 1 >= d
    <3>1. a * d >= 128 * d BY <2>2
    <3> QED BY <2>1, <3>1
  <2>3. ASSUME a < 128 PROVE 2 * s + 1 < d
    <3>1. a * d <= 127 * d BY <2>3
    <3> QED BY <2>1, <3>1
  <2> QED BY <2>2, <2>3
<1>9. PICK e \in 0 .. 255, f \in 0 .. 255, g \in 0 .. 255 : e = q[5] /\ f = q[6] /\ g = q[7]
  <2>1. 5 \in Bytes /\ 6 \in Bytes /\ 7 \in Bytes BY DEF Bytes
  <2> QED BY <1>2, <2>1
<1>10. ToInt(q) < 0 <=> a >= 128
  <2>1. (((IF a < 128 THEN a ELSE a - 256) * 256 + e) * 256 + f) * 256 + g < 0 <=> a >= 128
    OBVIOUS
  <2> QED BY <1>6, <1>9, <2>1 DEF ToInt
<1> QED BY <1>4, <1>7, <1>8, <1>10 DEF q

\* The criterion for the divider: with it no voltage below zero looks like one above it.
THEOREM SignIsKept ==
  ASSUME DividerKeepsSign
  PROVE  NegativesStayNegative
<1> SUFFICES ASSUME NEW raw \in Raws, MilliVolts(raw) < 0 PROVE Undivided(MilliVolts(raw)) < 0
  BY DEF NegativesStayNegative
<1> DEFINE mV == MilliVolts(raw)
<1>1. /\ mV \in Int /\ mV < 0 /\ mV * FullOhm \in -Limit .. Limit
      /\ OutputOhm \in Nat /\ FullOhm \in Nat
  BY BatteryAssumption, LimitIsNat
<1> HIDE DEF mV
<1>2. CASE OutputOhm = 0 BY <1>1, <1>2 DEF Undivided, mV
<1>3. CASE OutputOhm # 0
  <2>1. FullOhm > 0 /\ 2 * RestOfOnes(OutputOhm) + 1 >= OutputOhm BY <1>3 DEF DividerKeepsSign
  <2>2. mV * FullOhm < 0 BY <1>1, <2>1
  <2>3. mV * FullOhm \in -Limit .. -1 BY <1>1, <2>2, LimitIsNat
  <2>4. ToInt(Quotient(mV * FullOhm, OutputOhm)) < 0 BY <1>1, <1>3, <2>1, <2>3, SignOfQuotient
  <2> QED BY <1>3, <2>4 DEF Undivided, mV
<1> QED BY <1>2, <1>3

\* The divider of the boards, 180 kOhm of 1680 kOhm, meets it (rnl_w1.dts:57-63).
LEMMA BoardsKeepSign ==
  ASSUME OutputOhm = 180000, FullOhm = 1680000
  PROVE  DividerKeepsSign
<1>1. RestOfOnes(180000) = 167295
  <2>1. 255 % 180000 = 255 /\ (255 * 256 + 255) % 180000 = 65535 OBVIOUS
  <2>2. (65535 * 256 + 255) % 180000 = 37215 /\ (37215 * 256 + 255) % 180000 = 167295 OBVIOUS
  <2> QED BY <2>1, <2>2 DEF RestOfOnes
<1> QED BY <1>1 DEF DividerKeepsSign

\* What is sent was read behind the divider and is the exact quotient, for every divider
\* that keeps the sign in the unsigned division, like that of the boards (battery.c:313-330).
THEOREM SentVoltageIsMeasured ==
  ASSUME DividerKeepsSign
  PROVE  Spec => VoltageIsMeasured
<1> DEFINE Step == packet' # packet =>
             /\ divider /\ adc.ok /\ (calibrated \/ spoiled)
             /\ adc.mV >= 0
             /\ packet' = (IF OutputOhm = 0 THEN adc.mV ELSE (adc.mV * FullOhm) \div OutputOhm)
<1>1. ASSUME TypeOK, VoltageInv, [Next]_vars PROVE Step
  <2> SUFFICES ASSUME packet' # packet
               PROVE  /\ divider /\ adc.ok /\ (calibrated \/ spoiled)
                      /\ adc.mV >= 0
                      /\ packet' = (IF OutputOhm = 0 THEN adc.mV
                                    ELSE (adc.mV * FullOhm) \div OutputOhm)
    OBVIOUS
  <2>1. send_udp_data BY <1>1, PacketNext
  <2>2. at = "send" /\ batt_mV >= 0 /\ packet' = batt_mV
    BY <2>1 DEF send_udp_data, Thread
  <2>3. PICK raw \in Raws : /\ adc.mV = MilliVolts(raw)
                            /\ batt_mV = IF adc.ok THEN Undivided(MilliVolts(raw)) ELSE -1
    BY <1>1, <2>2 DEF VoltageInv
  <2>4. adc.ok
    <3> SUFFICES ASSUME ~adc.ok PROVE FALSE OBVIOUS
    <3>1. batt_mV = -1 BY <2>3
    <3> QED BY <2>2, <3>1
  <2>5. batt_mV = Undivided(MilliVolts(raw)) BY <2>3, <2>4
  <2>6. MilliVolts(raw) \in Int BY <1>1, <2>3 DEF TypeOK
  <2>7. MilliVolts(raw) >= 0
    <3>1. MilliVolts(raw) < 0 => Undivided(MilliVolts(raw)) < 0
      BY <2>3, SignIsKept DEF NegativesStayNegative
    <3>2. batt_mV \in Int BY <1>1, LimitIsNat DEF TypeOK, Ints
    <3> QED BY <2>2, <2>5, <2>6, <3>1, <3>2
  <2>8. batt_mV = IF OutputOhm = 0 THEN MilliVolts(raw)
                  ELSE (MilliVolts(raw) * FullOhm) \div OutputOhm
    BY <2>5, <2>7, UndividedIsExact
  <2>9. divider /\ (calibrated \/ spoiled) BY <1>1, <2>2 DEF VoltageInv
  <2> QED BY <2>2, <2>3, <2>4, <2>7, <2>8, <2>9
<1>2. TypeOK /\ VoltageInv /\ [Next]_vars => [Step]_vars BY <1>1
<1>3. VoltageIsMeasured <=> [][Step]_vars BY DEF VoltageIsMeasured
<1> QED BY <1>2, <1>3, VoltageInit, VoltageNext, TypeInit, TypeNext, PTL DEF Spec

--------------------------------------------------------------------------------
(* The level.                                                                *)

\* The search ends: the last point stops it, and some point is the first to.
LEMMA StopExists ==
  ASSUME NEW curve, IsCurve(curve), NEW v \in Nat
  PROVE  /\ Stop(v, curve) \in 1 .. Len(curve)
         /\ IsStop(v, curve, Stop(v, curve))
<1> DEFINE T == {i \in 1 .. Len(curve) : Stops(v, curve[i])}
<1>1. Len(curve) \in T BY DEF IsCurve, Stops
<1>2. T \subseteq Nat /\ T # {} BY <1>1
<1>3. PICK m \in T : \A k \in T : ~(<<k, m>> \in OpToRel(<, Nat))
  BY ONLY <1>2, NatLessThanWellFounded, WFMin
<1>4. \A k \in T : ~(k < m) BY <1>2, <1>3 DEF OpToRel
<1>5. m \in 1 .. Len(curve) /\ IsStop(v, curve, m)
  BY <1>4 DEF IsStop, IsCurve
<1> QED BY <1>5 DEF Stop

\* A product shared out by more than its factor is not more than the whole.
LEMMA ShareIsBounded ==
  ASSUME NEW a \in Nat, NEW b \in Nat, NEW c \in Nat, b < c
  PROVE  (a * b) \div c \in 0 .. a
OBVIOUS

\* It grows with the factor, although it is rounded.
LEMMA ShareGrows ==
  ASSUME NEW a \in Nat, NEW b \in Nat, NEW d \in Nat, b <= d, NEW c \in Nat, c > 0
  PROVE  (a * b) \div c <= (a * d) \div c
OBVIOUS

--------------------------------------------------------------------------------
\* The only thing the proofs need to know of the highest level.
LEMMA FullIsNat == Full \in Nat
BY DEF Full

\* The points of a curve have a level and a voltage.
LEMMA PointsOfCurve ==
  ASSUME NEW curve, IsCurve(curve), NEW i \in 1 .. Len(curve)
  PROVE  curve[i].lvl_pptt \in 0 .. Full /\ curve[i].lvl_mV \in Nat
<1>1. curve[i] \in Points BY DEF IsCurve
<1> QED BY <1>1 DEF Points

\* The search passed the point before the one it stopped at, and the first one.
LEMMA Neighbours ==
  ASSUME NEW curve, IsCurve(curve), NEW v \in Nat, Stop(v, curve) # 1
  PROVE  /\ Stop(v, curve) - 1 \in 1 .. Len(curve)
         /\ v < curve[1].lvl_mV /\ v < curve[Stop(v, curve) - 1].lvl_mV
         /\ curve[Stop(v, curve)].lvl_pptt <= curve[Stop(v, curve) - 1].lvl_pptt
<1> DEFINE i == Stop(v, curve)
<1>1. i \in 1 .. Len(curve) /\ IsStop(v, curve, i) BY StopExists
<1>2. Len(curve) \in Nat BY DEF IsCurve
<1>3. i - 1 \in 1 .. i - 1 /\ 1 \in 1 .. i - 1 /\ i - 1 \in 1 .. Len(curve) /\ 1 \in 1 .. Len(curve)
  BY <1>1, <1>2
<1>4. ~Stops(v, curve[i - 1]) /\ ~Stops(v, curve[1]) BY <1>1, <1>3 DEF IsStop
<1>5. curve[i - 1].lvl_mV \in Nat /\ curve[1].lvl_mV \in Nat BY <1>3, PointsOfCurve
<1>6. curve[i].lvl_pptt <= curve[i - 1].lvl_pptt
  <2>1. i - 1 < i BY <1>1
  <2>2. curve[i - 1].lvl_pptt >= curve[i].lvl_pptt BY <1>1, <1>3, <2>1 DEF IsCurve
  <2> QED BY <1>1, <1>3, <2>2, PointsOfCurve, FullIsNat
<1> QED BY <1>3, <1>4, <1>5, <1>6 DEF Stops

\* The level is one of the segment the voltage lies in.
LEMMA LevelOfSegment ==
  ASSUME NEW curve, IsCurve(curve), NEW v \in Nat
  PROVE  LET i == Stop(v, curve)
         IN  /\ battery_level_pptt(v, curve) \in curve[i].lvl_pptt .. Full
             /\ i # 1 => battery_level_pptt(v, curve) <= curve[i - 1].lvl_pptt
<1> DEFINE i == Stop(v, curve)
           level == battery_level_pptt(v, curve)
           pb == curve[i]
           pa == curve[i - 1]
<1>1. i \in 1 .. Len(curve) BY StopExists
<1>2. pb.lvl_pptt \in 0 .. Full /\ pb.lvl_mV \in Nat BY <1>1, PointsOfCurve
<1>3. CASE v >= curve[1].lvl_mV \/ v < pb.lvl_mV
  <2>1. level = pb.lvl_pptt BY <1>3 DEF battery_level_pptt
  <2>2. i # 1 => pb.lvl_pptt <= pa.lvl_pptt BY Neighbours
  <2> QED BY <1>2, <2>1, <2>2, FullIsNat
<1>4. CASE ~(v >= curve[1].lvl_mV \/ v < pb.lvl_mV)
  <2>1. i # 1
    <3>1. 1 \in 1 .. Len(curve) BY <1>1
    <3> QED BY <1>2, <1>4, <3>1, PointsOfCurve
  <2>2. pa.lvl_pptt \in 0 .. Full /\ pa.lvl_mV \in Nat BY <2>1, Neighbours, PointsOfCurve
  <2>3. v < pa.lvl_mV /\ pb.lvl_pptt <= pa.lvl_pptt BY <2>1, Neighbours
  <2> DEFINE part == ((pa.lvl_pptt - pb.lvl_pptt) * (v - pb.lvl_mV)) \div (pa.lvl_mV - pb.lvl_mV)
  <2>4. level = pb.lvl_pptt + part BY <1>4 DEF battery_level_pptt, Between
  <2>5. /\ pa.lvl_pptt - pb.lvl_pptt \in Nat /\ v - pb.lvl_mV \in Nat
        /\ pa.lvl_mV - pb.lvl_mV \in Nat /\ v - pb.lvl_mV < pa.lvl_mV - pb.lvl_mV
    BY <1>2, <1>4, <2>2, <2>3, FullIsNat
  <2>6. part \in 0 .. pa.lvl_pptt - pb.lvl_pptt BY <2>5, ShareIsBounded
  <2> HIDE DEF part
  <2> QED BY <1>2, <2>2, <2>4, <2>6, FullIsNat
<1> QED BY <1>3, <1>4

\* The estimate is within 0 and 10000 for every curve and every voltage, those above
\* the first point and below the last included (battery.c:337-362).
THEOREM LevelIsBounded ==
  ASSUME NEW curve, IsCurve(curve), NEW v \in Nat
  PROVE  battery_level_pptt(v, curve) \in 0 .. Full
<1>1. Stop(v, curve) \in 1 .. Len(curve) BY StopExists
<1>2. curve[Stop(v, curve)].lvl_pptt \in 0 .. Full BY <1>1, PointsOfCurve
<1>3. battery_level_pptt(v, curve) \in curve[Stop(v, curve)].lvl_pptt .. Full BY LevelOfSegment
<1> QED BY <1>2, <1>3, FullIsNat

\* Of two voltages the higher one has no lower level, also across the points of the
\* curve, where the slope changes and the interpolation rounds (battery.c:358-361).
THEOREM LevelFollowsVoltage ==
  ASSUME NEW curve, IsCurve(curve), NEW v \in Nat, NEW w \in Nat, v <= w
  PROVE  battery_level_pptt(v, curve) <= battery_level_pptt(w, curve)
<1> DEFINE i == Stop(v, curve)
           j == Stop(w, curve)
           low == battery_level_pptt(v, curve)
           high == battery_level_pptt(w, curve)
<1>1. /\ i \in 1 .. Len(curve) /\ IsStop(v, curve, i)
      /\ j \in 1 .. Len(curve) /\ IsStop(w, curve, j)
  BY StopExists
<1>2. /\ curve[i].lvl_pptt \in 0 .. Full /\ curve[i].lvl_mV \in Nat
      /\ curve[j].lvl_pptt \in 0 .. Full /\ curve[j].lvl_mV \in Nat
  BY <1>1, PointsOfCurve
<1>3. low \in curve[i].lvl_pptt .. Full /\ high \in curve[j].lvl_pptt .. Full
  BY LevelOfSegment
<1>4. low \in Int /\ high \in Int BY <1>3
<1>5. ~(i < j)
  <2> SUFFICES ASSUME i < j PROVE FALSE OBVIOUS
  <2>1. i \in 1 .. j - 1 BY <1>1
  <2>2. ~Stops(w, curve[i]) BY <1>1, <2>1 DEF IsStop
  <2>3. Stops(v, curve[i]) BY <1>1 DEF IsStop
  <2> QED BY <1>2, <2>2, <2>3 DEF Stops
<1>6. CASE j < i
  <2>1. i # 1 /\ i - 1 \in 1 .. Len(curve) BY <1>1, <1>6
  <2>2. low <= curve[i - 1].lvl_pptt BY <2>1, LevelOfSegment
  <2>3. curve[i - 1].lvl_pptt \in 0 .. Full BY <2>1, PointsOfCurve
  <2>4. curve[i - 1].lvl_pptt <= curve[j].lvl_pptt
    <3>1. j = i - 1 \/ j < i - 1 BY <1>1, <1>6
    <3>2. CASE j = i - 1 BY <2>3, <3>2, FullIsNat
    <3>3. CASE j < i - 1
      <4>1. curve[j].lvl_pptt >= curve[i - 1].lvl_pptt BY <1>1, <2>1, <3>3 DEF IsCurve
      <4> QED BY <1>2, <2>3, <4>1, FullIsNat
    <3> QED BY <3>1, <3>2, <3>3
  <2> QED BY <1>2, <1>3, <1>4, <2>2, <2>3, <2>4, FullIsNat
<1>7. CASE i = j
  <2>1. CASE v >= curve[1].lvl_mV \/ v < curve[i].lvl_mV
    <3>1. low = curve[i].lvl_pptt BY <2>1 DEF battery_level_pptt
    <3> QED BY <1>2, <1>3, <1>7, <3>1, FullIsNat
  <2>2. CASE ~(v >= curve[1].lvl_mV \/ v < curve[i].lvl_mV)
    <3>1. i # 1
      <4>1. 1 \in 1 .. Len(curve) BY <1>1
      <4> QED BY <1>2, <2>2, <4>1, PointsOfCurve
    <3> DEFINE pb == curve[i]
               pa == curve[i - 1]
               a == pa.lvl_pptt - pb.lvl_pptt
               c == pa.lvl_mV - pb.lvl_mV
    <3>2. /\ w < curve[1].lvl_mV /\ w < pa.lvl_mV /\ pb.lvl_pptt <= pa.lvl_pptt
          /\ pa.lvl_pptt \in 0 .. Full /\ pa.lvl_mV \in Nat
      BY <1>7, <3>1, Neighbours, PointsOfCurve
    <3>3. w >= pb.lvl_mV /\ v >= pb.lvl_mV BY <1>2, <2>2
    <3>4. low = pb.lvl_pptt + (a * (v - pb.lvl_mV)) \div c
      BY <2>2 DEF battery_level_pptt, Between
    <3>5. ~(w >= curve[1].lvl_mV \/ w < curve[j].lvl_mV)
      <4>1. 1 \in 1 .. Len(curve) BY <1>1
      <4>2. curve[1].lvl_mV \in Nat BY <4>1, PointsOfCurve
      <4> QED BY <1>2, <1>7, <3>2, <3>3, <4>2
    <3>6. high = pb.lvl_pptt + (a * (w - pb.lvl_mV)) \div c
      BY <1>7, <3>5 DEF battery_level_pptt, Between
    <3>7. /\ a \in Nat /\ v - pb.lvl_mV \in Nat /\ w - pb.lvl_mV \in Nat
          /\ v - pb.lvl_mV <= w - pb.lvl_mV /\ c \in Nat /\ c > 0
      BY <1>2, <3>2, <3>3, FullIsNat
    <3>8. (a * (v - pb.lvl_mV)) \div c <= (a * (w - pb.lvl_mV)) \div c
      BY <3>7, ShareGrows
    <3>9. (a * (v - pb.lvl_mV)) \div c \in Int /\ (a * (w - pb.lvl_mV)) \div c \in Int
      BY <3>7
    <3> QED BY <1>2, <3>4, <3>6, <3>8, <3>9
  <2> QED BY <2>1, <2>2
<1> QED BY <1>1, <1>5, <1>6, <1>7
================================================================================
