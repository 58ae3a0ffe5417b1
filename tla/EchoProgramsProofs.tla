------------------------- MODULE EchoProgramsProofs -------------------------
(***************************************************************************)
(* Proofs about EchoPrograms, for every set of hosts, addresses, files and *)
(* lengths, and whatever the wire loses; and about the folds it rests on:  *)
(* the checksum of Ipv4Header and the two readers of ConfigFile.           *)
(***************************************************************************)
EXTENDS EchoPrograms, OrderProofs, SequenceTheorems

---------------------------------------------------------------------------
(* The checksum.                                                           *)

\* The loop that adds the words, turn by turn.
LEMMA WordSumRuns ==
    ASSUME NEW words \in Seq(Nat)
    PROVE  \E h \in [0 .. Len(words) -> Nat] :
              /\ h[0] = 0
              /\ \A k \in 1 .. Len(words) : h[k] = h[k - 1] + words[k]
              /\ WordSum(words) = h[Len(words)]
<1> DEFINE N == Len(words)
           G == [p \in Nat \X Nat |-> p[1] + p[2]]
           Body(f) == [s \in SUBSET (1 .. N) |->
                          IF s = {} THEN 0 ELSE f[s \ {Max(s)}] + words[Max(s)]]
<1>1. N \in Nat /\ DOMAIN words = 1 .. N /\ words \in [1 .. N -> Nat]
  BY LenProperties
<1>2. WordSum(words) = (CHOOSE f : f = Body(f))[1 .. N]
  BY <1>1, Zenon DEF WordSum, FoldLeft, MapThenFoldSet
<1> HIDE DEF N
<1>3. G \in [Nat \X Nat -> Nat]
  OBVIOUS
<1>4. \A x, y \in Nat : G[x, y] = x + y
  OBVIOUS
<1> HIDE DEF G
<1>5. PICK e \in [SUBSET (1 .. N) -> Nat] : FoldsBy(e, N, 0, G, words)
  BY <1>1, <1>3, FoldExists
<1>6. e = Body(e)
  <2>1. ASSUME NEW s \in SUBSET (1 .. N), s # {}
        PROVE  e[s] = e[s \ {Max(s)}] + words[Max(s)]
    <3> DEFINE m == Max(s)
    <3>1. m \in s
      BY <1>1, <2>1, MaxIsGreatest
    <3> HIDE DEF m
    <3>2. words[m] \in Nat /\ e[s \ {m}] \in Nat
      BY <1>1, <3>1
    <3>3. e[s] = G[e[s \ {m}], words[m]]
      BY <1>5, <2>1 DEF FoldsBy, m
    <3>4. QED
      BY <1>4, <3>2, <3>3 DEF m
  <2>2. e[{}] = 0
    BY <1>5 DEF FoldsBy
  <2>3. QED
    BY <2>1, <2>2
<1>7. PICK g : g = Body(g) /\ WordSum(words) = g[1 .. N]
  <2> HIDE DEF Body
  <2>1. QED
    BY <1>2, <1>6
<1>8. Unrolls(g, N, Nat, 0, G, words)
  <2>1. g[{}] = 0
    BY <1>7
  <2>2. ASSUME NEW s \in SUBSET (1 .. N), s # {}, g[s \ {Max(s)}] \in Nat
        PROVE  g[s] = G[g[s \ {Max(s)}], words[Max(s)]]
    <3> DEFINE m == Max(s)
    <3>1. m \in s
      BY <1>1, <2>2, MaxIsGreatest
    <3>2. g[s] = g[s \ {m}] + words[m]
      BY <1>7, <2>2
    <3> HIDE DEF m
    <3>3. words[m] \in Nat
      BY <1>1, <3>1
    <3>4. QED
      BY <1>4, <2>2, <3>2, <3>3 DEF m
  <2>3. QED
    BY <2>1, <2>2 DEF Unrolls
<1> HIDE DEF Body
<1>9. /\ \A k \in 0 .. N : g[1 .. k] \in Nat
      /\ g[1 .. 0] = 0
      /\ \A k \in 1 .. N : g[1 .. k] = G[g[1 .. k - 1], words[k]]
  <2>1. Runs(g, N, Nat, 0, G, words)
    BY <1>1, <1>3, <1>8, FoldRuns
  <2>2. QED
    BY <2>1 DEF Runs
<1> DEFINE h == [k \in 0 .. N |-> g[1 .. k]]
<1>10. h \in [0 .. N -> Nat] /\ h[0] = 0 /\ h[N] = g[1 .. N]
  <2>1. 0 \in 0 .. N /\ N \in 0 .. N
    BY <1>1
  <2>2. QED
    BY <1>9, <2>1
<1>11. ASSUME NEW k \in 1 .. N PROVE h[k] = h[k - 1] + words[k]
  <2>1. k \in 0 .. N /\ k - 1 \in 0 .. N /\ words[k] \in Nat
    BY <1>1
  <2>2. h[k] = g[1 .. k] /\ h[k - 1] = g[1 .. k - 1] /\ h[k - 1] \in Nat
    BY <1>9, <2>1
  <2>3. QED
    BY <1>4, <1>9, <2>1, <2>2
<1>12. QED
  BY <1>7, <1>10, <1>11 DEF N

\* One word more is added at the end.
LEMMA WordSumAppend ==
    ASSUME NEW words \in Seq(Nat), NEW x \in Nat
    PROVE  WordSum(words) \in Nat /\ WordSum(Append(words, x)) = WordSum(words) + x
<1> DEFINE N == Len(words)
           more == Append(words, x)
<1>1. /\ N \in Nat /\ more \in Seq(Nat) /\ Len(more) = N + 1 /\ more[N + 1] = x
      /\ \A i \in 1 .. N : more[i] = words[i] /\ words[i] \in Nat
  BY AppendProperties, LenProperties
<1>2. PICK h \in [0 .. N -> Nat] : /\ h[0] = 0
                                   /\ \A k \in 1 .. N : h[k] = h[k - 1] + words[k]
                                   /\ WordSum(words) = h[N]
  BY WordSumRuns
<1> HIDE DEF N, more
<1>3. PICK g \in [0 .. N + 1 -> Nat] : /\ g[0] = 0
                                       /\ \A k \in 1 .. N + 1 : g[k] = g[k - 1] + more[k]
                                       /\ WordSum(more) = g[N + 1]
  BY <1>1, WordSumRuns
<1> DEFINE K == {k \in Nat : k <= N => g[k] = h[k]}
<1>4. 0 \in K
  BY <1>2, <1>3
<1>5. ASSUME NEW k \in Nat, k \in K PROVE k + 1 \in K
  <2>1. SUFFICES ASSUME k + 1 <= N PROVE g[k + 1] = h[k + 1]
    OBVIOUS
  <2> DEFINE m == k + 1
  <2>2. m \in 1 .. N /\ m \in 1 .. N + 1 /\ m - 1 = k /\ g[k] = h[k]
    BY <1>1, <1>5, <2>1
  <2> HIDE DEF m
  <2>3. g[m] = g[k] + more[m] /\ h[m] = h[k] + words[m] /\ more[m] = words[m]
    BY <1>1, <1>2, <1>3, <2>2
  <2>4. QED
    BY <2>2, <2>3 DEF m
<1>6. Nat \subseteq K
  <2> HIDE DEF K
  <2>1. QED
    BY <1>4, <1>5, SetInduction
<1>7. g[N] = h[N]
  BY <1>1, <1>6
<1>8. g[N + 1] = g[N] + x
  <2>1. N + 1 \in 1 .. N + 1 /\ (N + 1) - 1 = N
    BY <1>1
  <2>2. QED
    BY <1>1, <1>3, <2>1
<1>9. QED
  <2>1. h[N] \in Nat
    BY <1>1
  <2>2. QED
    BY <1>2, <1>3, <1>7, <1>8, <2>1 DEF more

\* The low word of a sum and what is carried out of it; one turn of the loop.
LowWord(n)    == n % 65536
Carry(n)      == n \div 65536
CarryAdded(n) == LowWord(n) + Carry(n)

\* What is left when no carry is: the remainder by 65535, and 65535 itself rather
\* than 0, of all numbers but 0.
AllOnesRest(n)  == n % 65535
AllOnesTimes(n) == n \div 65535
CarriesAdded(n) == IF n = 0 THEN 0 ELSE AllOnesRest(n - 1) + 1

LEMMA ByWord ==
    ASSUME NEW n \in Nat
    PROVE  /\ Carry(n) \in Nat /\ LowWord(n) \in Nat /\ LowWord(n) < 65536
           /\ n = 65536 * Carry(n) + LowWord(n)
<1>1. Carry(n) \in Nat
  BY SMT DEF Carry
<1>2. LowWord(n) \in Nat /\ LowWord(n) < 65536
  BY SMT DEF LowWord
<1>3. n = 65536 * Carry(n) + LowWord(n)
  BY SMT DEF Carry, LowWord
<1>4. QED
  BY <1>1, <1>2, <1>3, SMT

LEMMA ByAllOnes ==
    ASSUME NEW n \in Nat
    PROVE  /\ AllOnesTimes(n) \in Nat /\ AllOnesRest(n) \in Nat /\ AllOnesRest(n) < 65535
           /\ n = 65535 * AllOnesTimes(n) + AllOnesRest(n)
<1>1. AllOnesTimes(n) \in Nat
  BY SMT DEF AllOnesTimes
<1>2. AllOnesRest(n) \in Nat /\ AllOnesRest(n) < 65535
  BY SMT DEF AllOnesRest
<1>3. n = 65535 * AllOnesTimes(n) + AllOnesRest(n)
  BY SMT DEF AllOnesTimes, AllOnesRest
<1>4. QED
  BY <1>1, <1>2, <1>3, SMT

\* The remainder is what is left.
LEMMA Remainder ==
    ASSUME NEW r \in Nat, r < 65535, NEW q \in Nat
    PROVE  AllOnesRest(65535 * q + r) = r
<1>1. (65535 * q + r) % 65535 = r
  BY SMT
<1>2. QED
  BY <1>1, SMT DEF AllOnesRest

LEMMA CarriesAddedIs ==
    ASSUME NEW n \in Nat, n # 0, NEW r \in Nat, r < 65535, NEW q \in Nat,
           n - 1 = 65535 * q + r
    PROVE  CarriesAdded(n) = r + 1
<1>1. AllOnesRest(65535 * q + r) = r
  BY Remainder, SMT
<1>2. QED
  BY <1>1, SMT DEF CarriesAdded

LEMMA NotZero ==
    ASSUME NEW n \in Nat, n # 0
    PROVE  /\ AllOnesTimes(n - 1) \in Nat /\ CarriesAdded(n) \in Nat
           /\ CarriesAdded(n) > 0 /\ CarriesAdded(n) < 65536
           /\ n = 65535 * AllOnesTimes(n - 1) + CarriesAdded(n)
<1> DEFINE m == n - 1
           q == AllOnesTimes(m)
           r == AllOnesRest(m)
<1>1. m \in Nat
  OBVIOUS
<1>2. q \in Nat /\ r \in Nat /\ r < 65535 /\ m = 65535 * q + r
  <2> HIDE DEF m
  <2>1. QED
    BY <1>1, ByAllOnes, SMT
<1>3. CarriesAdded(n) = r + 1
  BY SMT DEF CarriesAdded
<1> HIDE DEF q, r
<1>4. n = 65535 * q + CarriesAdded(n)
  BY <1>1, <1>2, <1>3, SMT
<1>5. QED
  BY <1>2, <1>3, <1>4, SMT DEF q, m

\* The outcome of the loop over the carries fits into 16 bits.
LEMMA CarriesAddedType ==
    ASSUME NEW n \in Nat
    PROVE  /\ CarriesAdded(n) \in Nat /\ CarriesAdded(n) < 65536
           /\ (n < 65536 => CarriesAdded(n) = n)
<1>1. CASE n = 0
  BY <1>1, SMT DEF CarriesAdded
<1>2. CASE n # 0
  <2> DEFINE q == AllOnesTimes(n - 1)
             d == CarriesAdded(n)
  <2>1. q \in Nat /\ d \in Nat /\ d > 0 /\ d < 65536 /\ n = 65535 * q + d
    BY <1>2, NotZero, SMT
  <2> HIDE DEF q, d
  <2>2. d \in Nat /\ d < 65536 /\ (n < 65536 => d = n)
    BY <2>1, SMT
  <2>3. QED
    BY <2>2, SMT DEF d
<1>3. QED
  BY <1>1, <1>2, SMT

\* A turn makes the number smaller and leaves the remainder.
LEMMA CarryStep ==
    ASSUME NEW n \in Nat, n >= 65536
    PROVE  /\ CarryAdded(n) \in Nat /\ CarryAdded(n) < n
           /\ CarriesAdded(CarryAdded(n)) = CarriesAdded(n)
<1> DEFINE q == Carry(n)
           r == LowWord(n)
           m == CarryAdded(n)
<1>1. q \in Nat /\ r \in Nat /\ r < 65536 /\ n = 65536 * q + r
  BY ByWord, SMT
<1>2. m = r + q
  BY SMT DEF CarryAdded
<1> HIDE DEF q, r, m
<1>3. m \in Nat /\ m # 0 /\ m < n
  BY <1>1, <1>2, SMT
<1> DEFINE p == m - 1
           a == AllOnesTimes(p)
           b == AllOnesRest(p)
<1>4. p \in Nat
  BY <1>3, SMT
<1>5. a \in Nat /\ b \in Nat /\ b < 65535 /\ p = 65535 * a + b
  <2> HIDE DEF p
  <2>1. QED
    BY <1>4, ByAllOnes, SMT
<1> HIDE DEF a, b
<1>6. CarriesAdded(m) = b + 1
  BY <1>3, <1>5, CarriesAddedIs, SMT
<1>7. n # 0 /\ a + q \in Nat /\ n - 1 = 65535 * (a + q) + b
  BY <1>1, <1>2, <1>5, SMT
<1>8. CarriesAdded(n) = b + 1
  <2> DEFINE t == a + q
  <2> HIDE DEF t
  <2>1. t \in Nat /\ n - 1 = 65535 * t + b
    BY <1>7, SMT DEF t
  <2>2. QED
    BY <1>5, <1>7, <2>1, CarriesAddedIs, SMT
<1>9. QED
  BY <1>3, <1>6, <1>8, SMT DEF m

\* The loop over the carries ends with that, however many turns it takes.
LEMMA FoldedIs == \A n \in Nat : Folded[n] = CarriesAdded(n)
<1> DEFINE Body(f) == [n \in Nat |-> IF n < 65536 THEN n ELSE f[CarryAdded(n)]]
           e == [n \in Nat |-> CarriesAdded(n)]
<1>1. \A n \in Nat : n >= 65536 => /\ CarryAdded(n) \in Nat /\ CarryAdded(n) < n
                                   /\ CarriesAdded(CarryAdded(n)) = CarriesAdded(n)
  BY CarryStep
<1>2. \A n \in Nat : n < 65536 => CarriesAdded(n) = n
  BY CarriesAddedType
<1>3. Folded = CHOOSE f : f = Body(f)
  BY DEF Folded, CarryAdded, LowWord, Carry
<1>4. e = Body(e)
  BY <1>1, <1>2
<1>5. Folded = Body(Folded)
  <2> HIDE DEF Body, e
  <2>1. QED
    BY <1>3, <1>4
<1>6. \A n \in Nat : Folded[n] = IF n < 65536 THEN n ELSE Folded[CarryAdded(n)]
  <2> DEFINE F == Folded
  <2>1. F = Body(F)
    BY <1>5
  <2> HIDE DEF F
  <2>2. \A n \in Nat : F[n] = IF n < 65536 THEN n ELSE F[CarryAdded(n)]
    BY <2>1
  <2>3. QED
    BY <2>2 DEF F
<1> DEFINE Bad == {n \in Nat : Folded[n] # CarriesAdded(n)}
<1>7. CASE Bad = {}
  BY <1>7
<1>8. CASE Bad # {}
  <2>1. PICK n \in Nat : n \in Bad /\ \A k \in Bad : n <= k
    BY <1>8, MinIsLeast
  <2>2. n >= 65536
    BY <1>2, <1>6, <2>1
  <2>3. CarryAdded(n) \in Nat /\ ~(n <= CarryAdded(n))
    BY <1>1, <2>1, <2>2
  <2>4. Folded[CarryAdded(n)] = CarriesAdded(CarryAdded(n))
    BY <2>1, <2>3
  <2>5. Folded[n] = CarriesAdded(n)
    BY <1>1, <1>6, <2>2, <2>4
  <2>6. QED
    BY <2>1, <2>5
<1>9. QED
  BY <1>7, <1>8

\* A number and what its remainder lacks.
LEMMA Completed ==
    ASSUME NEW n \in Nat, NEW c \in Nat, c = 65535 - CarriesAdded(n)
    PROVE  CarriesAdded(n + c) = 65535
<1>1. CASE n = 0
  <2>1. CarriesAdded(n) = 0
    BY <1>1 DEF CarriesAdded
  <2>2. n + c = 65535
    BY <1>1, <2>1
  <2>3. CarriesAdded(65535) = 65535
    BY CarriesAddedType
  <2>4. QED
    BY <2>2, <2>3
<1>2. CASE n # 0
  <2> DEFINE q == AllOnesTimes(n - 1)
             d == CarriesAdded(n)
  <2>1. q \in Nat /\ d \in Nat /\ n = 65535 * q + d
    BY <1>2, NotZero, SMT
  <2>2. c = 65535 - d
    OBVIOUS
  <2> HIDE DEF q, d
  <2> DEFINE k == n + c
             s == 65534
  <2>3. k \in Nat /\ k # 0 /\ s \in Nat /\ s < 65535 /\ k - 1 = 65535 * q + s
    BY <1>2, <2>1, <2>2, SMT
  <2> HIDE DEF k, s
  <2>4. CarriesAdded(k) = s + 1
    BY <2>1, <2>3, CarriesAddedIs, SMT
  <2>5. QED
    BY <2>4 DEF k, s
<1>3. QED
  BY <1>1, <1>2

\* The test of RFC 791 that the receiver of a header makes.
Verifies(header) == Folded[WordSum(header)] = 65535

\* The checksum ipv4_checksum makes of any words, added to them, gives all ones,
\* however large they are and however often the carries carry; and it fits
\* into its field (ipv4.c:307-329; the 32 bits of the code's sum hold more than
\* the ten words of a header).
THEOREM ChecksumVerifies ==
    ASSUME NEW words \in Seq(Nat)
    PROVE  /\ Checksum(words) \in Word
           /\ Verifies(Append(words, Checksum(words)))
<1> DEFINE n == WordSum(words)
           c == Checksum(words)
           d == CarriesAdded(n)
<1>1. n \in Nat
  <2>1. 0 \in Nat
    OBVIOUS
  <2>2. QED
    BY <2>1, WordSumAppend
<1>2. c = 65535 - Folded[n]
  BY DEF Checksum
<1> HIDE DEF n, c
<1>3. Folded[n] = d /\ d \in Nat /\ d < 65536
  BY <1>1, FoldedIs, CarriesAddedType
<1> HIDE DEF d
<1>4. c = 65535 - d /\ c \in Nat /\ c < 65536
  BY <1>2, <1>3
<1>5. WordSum(Append(words, c)) = n + c
  BY <1>4, WordSumAppend DEF n
<1>6. n + c \in Nat
  BY <1>1, <1>4
<1>7. CarriesAdded(n + c) = 65535
  BY <1>1, <1>4, Completed DEF d
<1>8. c \in Word
  BY <1>4 DEF Word
<1>9. Folded[n + c] = 65535
  BY <1>6, <1>7, FoldedIs
<1>10. QED
  BY <1>5, <1>8, <1>9 DEF Verifies, c

---------------------------------------------------------------------------
(* The two readers of a configuration file.                                *)

\* What a reader has taken from the lines so far.
Taken == [err : Int, ifname : Names \cup {NoName}, addr : Address,
          mask : Address, read : SUBSET Variables]

\* What ipv4_str_addr makes of a text is an address.
LEMMA StrAddrType ==
    ASSUME NEW t \in Texts, Parses(t)
    PROVE  StrAddr(t) \in Address
<1>1. t \in Seq(Int) /\ Len(t) >= 4
  BY TextsAssumption DEF Parses
<1>2. \A i \in 1 .. 4 : t[i] \in Int
  <2>1. ASSUME NEW i \in 1 .. 4 PROVE i \in 1 .. Len(t)
    BY <1>1, LenProperties
  <2>2. QED
    BY <1>1, <2>1, ElementOfSeq
<1>3. \A x \in Int : x % 256 \in 0 .. 255
  BY SMT
<1> DEFINE Byte == 0 .. 255
<1>4. \A x \in Int : x % 256 \in Byte
  BY <1>3
<1> HIDE DEF Byte
<1>5. [i \in 1 .. 4 |-> t[i] % 256] \in [1 .. 4 -> Byte]
  BY <1>2, <1>4
<1>6. QED
  BY <1>5, Zenon DEF StrAddr, Address, Octet, Byte

LEMMA ZeroAddressType == ZeroAddress \in Address
<1> DEFINE Byte == 0 .. 255
<1>1. 0 \in Byte
  OBVIOUS
<1> HIDE DEF Byte
<1>2. ZeroAddress \in [1 .. 4 -> Byte]
  BY <1>1 DEF ZeroAddress
<1>3. QED
  BY <1>2, Zenon DEF Address, Octet, Byte

LEMMA NothingType == Nothing \in Taken
  BY ZeroAddressType DEF Nothing, Taken

LEMMA LineIs ==
    ASSUME NEW l \in Line
    PROVE  \/ l.var \in {"Interface", "unknown", "unparsed"} /\ l.value \in Names
           \/ l.var \in {"IPv4Address", "SubnetMask"} /\ l.value \in Texts
  BY DEF Line

\* The first reader keeps its record of what it has read in type.
LEMMA ReadLineType ==
    ASSUME NEW s \in Taken, NEW l \in Line
    PROVE  ReadLine(s, l) \in Taken
<1>1. CASE s.err # 0
  BY <1>1 DEF ReadLine
<1>2. CASE s.err = 0 /\ l.var = "Interface"
  BY <1>2, LineIs DEF ReadLine, Reads, Taken, Variables
<1>3. CASE s.err = 0 /\ l.var = "IPv4Address"
  <2>1. l.value \in Texts
    BY <1>3, LineIs
  <2>2. CASE Parses(l.value)
    <3> DEFINE a == StrAddr(l.value)
               r == s.read \cup {l.var}
    <3>1. a \in Address /\ r \in SUBSET Variables
      BY <1>3, <2>1, <2>2, StrAddrType DEF Variables, Taken
    <3>2. ReadLine(s, l) = [s EXCEPT !.addr = a, !.read = r]
      BY <1>3, <2>2 DEF ReadLine, Reads, Taken
    <3> HIDE DEF a, r
    <3>3. QED
      BY <3>1, <3>2 DEF Taken
  <2>3. CASE ~Parses(l.value)
    BY <1>3, <2>3 DEF ReadLine, Fails, Taken
  <2>4. QED
    BY <2>2, <2>3
<1>4. CASE s.err = 0 /\ l.var = "SubnetMask"
  <2>1. l.value \in Texts
    BY <1>4, LineIs
  <2>2. CASE Parses(l.value)
    <3> DEFINE a == StrAddr(l.value)
               r == s.read \cup {l.var}
    <3>1. a \in Address /\ r \in SUBSET Variables
      BY <1>4, <2>1, <2>2, StrAddrType DEF Variables, Taken
    <3>2. ReadLine(s, l) = [s EXCEPT !.mask = a, !.read = r]
      BY <1>4, <2>2 DEF ReadLine, Reads, Taken
    <3> HIDE DEF a, r
    <3>3. QED
      BY <3>1, <3>2 DEF Taken
  <2>3. CASE ~Parses(l.value)
    BY <1>4, <2>3 DEF ReadLine, Fails, Taken
  <2>4. QED
    BY <2>2, <2>3
<1>5. CASE s.err = 0 /\ l.var \notin {"Interface", "IPv4Address", "SubnetMask"}
  <2>1. ReadLine(s, l) = Fails(s, -1)
    BY <1>5 DEF ReadLine
  <2>2. QED
    BY <2>1 DEF Fails, Taken
<1>6. QED
  BY <1>1, <1>2, <1>3, <1>4, <1>5

\* So does the second.
LEMMA GetipLineType ==
    ASSUME NEW s \in Taken, NEW l \in Line
    PROVE  GetipLine(s, l) \in Taken
<1>1. CASE s.err # 0
  BY <1>1 DEF GetipLine
<1>2. CASE s.err = 0 /\ l.var = "Interface"
  BY <1>2, LineIs DEF GetipLine, Reads, Taken, Variables
<1>3. CASE s.err = 0 /\ l.var = "IPv4Address"
  <2>1. l.value \in Texts
    BY <1>3, LineIs
  <2>2. CASE Parses(l.value)
    <3> DEFINE a == StrAddr(l.value)
               r == s.read \cup {l.var}
    <3>1. a \in Address /\ r \in SUBSET Variables
      BY <1>3, <2>1, <2>2, StrAddrType DEF Variables, Taken
    <3>2. GetipLine(s, l) = [s EXCEPT !.addr = a, !.read = r]
      BY <1>3, <2>2 DEF GetipLine, Reads, Taken
    <3> HIDE DEF a, r
    <3>3. QED
      BY <3>1, <3>2 DEF Taken
  <2>3. CASE ~Parses(l.value)
    BY <1>3, <2>3 DEF GetipLine, Fails, Taken
  <2>4. QED
    BY <2>2, <2>3
<1>4. CASE s.err = 0 /\ l.var = "unparsed"
  BY <1>4 DEF GetipLine, Fails, Taken
<1>5. CASE s.err = 0 /\ l.var \notin {"Interface", "IPv4Address", "unparsed"}
  <2>1. GetipLine(s, l) = Fails(s, 2)
    BY <1>5 DEF GetipLine
  <2>2. QED
    BY <2>1 DEF Fails, Taken
<1>6. QED
  BY <1>1, <1>2, <1>3, <1>4, <1>5

\* The loop of ipv4_config_read, line by line.
LEMMA ReadLineRuns ==
    ASSUME NEW file \in File
    PROVE  \E h \in [0 .. Len(file) -> Taken] :
              /\ h[0] = Nothing
              /\ \A k \in 1 .. Len(file) : h[k] = ReadLine(h[k - 1], file[k])
              /\ FoldLeft(ReadLine, Nothing, file) = h[Len(file)]
<1> DEFINE N == Len(file)
           G == [p \in Taken \X Line |-> ReadLine(p[1], p[2])]
           Body(f) == [s \in SUBSET (1 .. N) |->
                          IF s = {} THEN Nothing
                          ELSE ReadLine(f[s \ {Max(s)}], file[Max(s)])]
<1>1. N \in Nat /\ DOMAIN file = 1 .. N /\ file \in [1 .. N -> Line]
  BY LenProperties DEF File
<1>2. FoldLeft(ReadLine, Nothing, file) = (CHOOSE f : f = Body(f))[1 .. N]
  BY <1>1, Zenon DEF FoldLeft, MapThenFoldSet
<1> HIDE DEF N
<1>3. G \in [Taken \X Line -> Taken]
  BY ReadLineType
<1>4. \A s \in Taken, l \in Line : G[s, l] = ReadLine(s, l)
  OBVIOUS
<1> HIDE DEF G
<1>5. PICK e \in [SUBSET (1 .. N) -> Taken] : FoldsBy(e, N, Nothing, G, file)
  BY <1>1, <1>3, NothingType, FoldExists
<1>6. e = Body(e)
  <2>1. ASSUME NEW s \in SUBSET (1 .. N), s # {}
        PROVE  e[s] = ReadLine(e[s \ {Max(s)}], file[Max(s)])
    <3> DEFINE m == Max(s)
    <3>1. m \in s
      BY <1>1, <2>1, MaxIsGreatest
    <3> HIDE DEF m
    <3>2. file[m] \in Line /\ e[s \ {m}] \in Taken
      BY <1>1, <3>1
    <3>3. e[s] = G[e[s \ {m}], file[m]]
      BY <1>5, <2>1 DEF FoldsBy, m
    <3>4. QED
      BY <1>4, <3>2, <3>3 DEF m
  <2>2. e[{}] = Nothing
    BY <1>5 DEF FoldsBy
  <2>3. QED
    BY <2>1, <2>2
<1>7. PICK g : g = Body(g) /\ FoldLeft(ReadLine, Nothing, file) = g[1 .. N]
  <2> HIDE DEF Body
  <2>1. QED
    BY <1>2, <1>6
<1>8. Unrolls(g, N, Taken, Nothing, G, file)
  <2>1. g[{}] = Nothing
    BY <1>7
  <2>2. ASSUME NEW s \in SUBSET (1 .. N), s # {}, g[s \ {Max(s)}] \in Taken
        PROVE  g[s] = G[g[s \ {Max(s)}], file[Max(s)]]
    <3> DEFINE m == Max(s)
    <3>1. m \in s
      BY <1>1, <2>2, MaxIsGreatest
    <3>2. g[s] = ReadLine(g[s \ {m}], file[m])
      BY <1>7, <2>2
    <3> HIDE DEF m
    <3>3. file[m] \in Line
      BY <1>1, <3>1
    <3>4. QED
      BY <1>4, <2>2, <3>2, <3>3 DEF m
  <2>3. QED
    BY <2>1, <2>2 DEF Unrolls
<1> HIDE DEF Body
<1>9. /\ \A k \in 0 .. N : g[1 .. k] \in Taken
      /\ g[1 .. 0] = Nothing
      /\ \A k \in 1 .. N : g[1 .. k] = G[g[1 .. k - 1], file[k]]
  <2>1. Runs(g, N, Taken, Nothing, G, file)
    BY <1>1, <1>3, <1>8, NothingType, FoldRuns
  <2>2. QED
    BY <2>1 DEF Runs
<1> DEFINE h == [k \in 0 .. N |-> g[1 .. k]]
<1>10. h \in [0 .. N -> Taken] /\ h[0] = Nothing /\ h[N] = g[1 .. N]
  <2>1. 0 \in 0 .. N /\ N \in 0 .. N
    BY <1>1
  <2>2. QED
    BY <1>9, <2>1
<1>11. ASSUME NEW k \in 1 .. N PROVE h[k] = ReadLine(h[k - 1], file[k])
  <2>1. k \in 0 .. N /\ k - 1 \in 0 .. N /\ file[k] \in Line
    BY <1>1
  <2>2. h[k] = g[1 .. k] /\ h[k - 1] = g[1 .. k - 1] /\ h[k - 1] \in Taken
    BY <1>9, <2>1
  <2>3. QED
    BY <1>4, <1>9, <2>1, <2>2
<1>12. QED
  BY <1>7, <1>10, <1>11 DEF N

\* The loop of ipv4_config_getip, line by line.
LEMMA GetipLineRuns ==
    ASSUME NEW file \in File
    PROVE  \E h \in [0 .. Len(file) -> Taken] :
              /\ h[0] = Nothing
              /\ \A k \in 1 .. Len(file) : h[k] = GetipLine(h[k - 1], file[k])
              /\ FoldLeft(GetipLine, Nothing, file) = h[Len(file)]
<1> DEFINE N == Len(file)
           G == [p \in Taken \X Line |-> GetipLine(p[1], p[2])]
           Body(f) == [s \in SUBSET (1 .. N) |->
                          IF s = {} THEN Nothing
                          ELSE GetipLine(f[s \ {Max(s)}], file[Max(s)])]
<1>1. N \in Nat /\ DOMAIN file = 1 .. N /\ file \in [1 .. N -> Line]
  BY LenProperties DEF File
<1>2. FoldLeft(GetipLine, Nothing, file) = (CHOOSE f : f = Body(f))[1 .. N]
  BY <1>1, Zenon DEF FoldLeft, MapThenFoldSet
<1> HIDE DEF N
<1>3. G \in [Taken \X Line -> Taken]
  BY GetipLineType
<1>4. \A s \in Taken, l \in Line : G[s, l] = GetipLine(s, l)
  OBVIOUS
<1> HIDE DEF G
<1>5. PICK e \in [SUBSET (1 .. N) -> Taken] : FoldsBy(e, N, Nothing, G, file)
  BY <1>1, <1>3, NothingType, FoldExists
<1>6. e = Body(e)
  <2>1. ASSUME NEW s \in SUBSET (1 .. N), s # {}
        PROVE  e[s] = GetipLine(e[s \ {Max(s)}], file[Max(s)])
    <3> DEFINE m == Max(s)
    <3>1. m \in s
      BY <1>1, <2>1, MaxIsGreatest
    <3> HIDE DEF m
    <3>2. file[m] \in Line /\ e[s \ {m}] \in Taken
      BY <1>1, <3>1
    <3>3. e[s] = G[e[s \ {m}], file[m]]
      BY <1>5, <2>1 DEF FoldsBy, m
    <3>4. QED
      BY <1>4, <3>2, <3>3 DEF m
  <2>2. e[{}] = Nothing
    BY <1>5 DEF FoldsBy
  <2>3. QED
    BY <2>1, <2>2
<1>7. PICK g : g = Body(g) /\ FoldLeft(GetipLine, Nothing, file) = g[1 .. N]
  <2> HIDE DEF Body
  <2>1. QED
    BY <1>2, <1>6
<1>8. Unrolls(g, N, Taken, Nothing, G, file)
  <2>1. g[{}] = Nothing
    BY <1>7
  <2>2. ASSUME NEW s \in SUBSET (1 .. N), s # {}, g[s \ {Max(s)}] \in Taken
        PROVE  g[s] = G[g[s \ {Max(s)}], file[Max(s)]]
    <3> DEFINE m == Max(s)
    <3>1. m \in s
      BY <1>1, <2>2, MaxIsGreatest
    <3>2. g[s] = GetipLine(g[s \ {m}], file[m])
      BY <1>7, <2>2
    <3> HIDE DEF m
    <3>3. file[m] \in Line
      BY <1>1, <3>1
    <3>4. QED
      BY <1>4, <2>2, <3>2, <3>3 DEF m
  <2>3. QED
    BY <2>1, <2>2 DEF Unrolls
<1> HIDE DEF Body
<1>9. /\ \A k \in 0 .. N : g[1 .. k] \in Taken
      /\ g[1 .. 0] = Nothing
      /\ \A k \in 1 .. N : g[1 .. k] = G[g[1 .. k - 1], file[k]]
  <2>1. Runs(g, N, Taken, Nothing, G, file)
    BY <1>1, <1>3, <1>8, NothingType, FoldRuns
  <2>2. QED
    BY <2>1 DEF Runs
<1> DEFINE h == [k \in 0 .. N |-> g[1 .. k]]
<1>10. h \in [0 .. N -> Taken] /\ h[0] = Nothing /\ h[N] = g[1 .. N]
  <2>1. 0 \in 0 .. N /\ N \in 0 .. N
    BY <1>1
  <2>2. QED
    BY <1>9, <2>1
<1>11. ASSUME NEW k \in 1 .. N PROVE h[k] = GetipLine(h[k - 1], file[k])
  <2>1. k \in 0 .. N /\ k - 1 \in 0 .. N /\ file[k] \in Line
    BY <1>1
  <2>2. h[k] = g[1 .. k] /\ h[k - 1] = g[1 .. k - 1] /\ h[k - 1] \in Taken
    BY <1>9, <2>1
  <2>3. QED
    BY <1>4, <1>9, <2>1, <2>2
<1>12. QED
  BY <1>7, <1>10, <1>11 DEF N

\* What the first reader returns.
LEMMA ConfigReadType ==
    ASSUME NEW f, f \in File \/ f = NoFile
    PROVE  ConfigRead(f) \in Taken
<1>1. CASE f = NoFile
  BY <1>1, NothingType DEF ConfigRead, Unreadable, Taken
<1>2. CASE f \in File
  <2>1. f # NoFile
    BY <1>2, NoFileAssumption
  <2>2. PICK h \in [0 .. Len(f) -> Taken] : FoldLeft(ReadLine, Nothing, f) = h[Len(f)]
    BY <1>2, ReadLineRuns
  <2>3. h[Len(f)] \in Taken
    BY <1>2, LenProperties DEF File
  <2>4. QED
    BY <2>1, <2>2, <2>3 DEF ConfigRead, Fails, Taken
<1>3. QED
  BY <1>1, <1>2

\* What the second returns.
LEMMA ConfigGetipType ==
    ASSUME NEW f, f \in File \/ f = NoFile
    PROVE  ConfigGetip(f) \in Taken
<1>1. CASE f = NoFile
  BY <1>1, NothingType DEF ConfigGetip, Unreadable, Taken
<1>2. CASE f \in File
  <2>1. f # NoFile
    BY <1>2, NoFileAssumption
  <2>2. PICK h \in [0 .. Len(f) -> Taken] : FoldLeft(GetipLine, Nothing, f) = h[Len(f)]
    BY <1>2, GetipLineRuns
  <2>3. h[Len(f)] \in Taken
    BY <1>2, LenProperties DEF File
  <2>4. QED
    BY <2>1, <2>2, <2>3 DEF ConfigGetip, Fails, Taken
<1>3. QED
  BY <1>1, <1>2

\* ipv4_config_getip ends with the address ipv4_config_read ends with, for every
\* file that one accepts and that has no address after its mask: whatever stands
\* between, and however often the address is given.  Up to the mask the two go
\* line by line together; after it the first has stopped, and the second finds
\* no address any more (ipv4_config.c:207-234).
THEOREM ReadersAgree ==
    ASSUME NEW file \in File, AddressFirst(file)
    PROVE  ConfigGetip(file).addr = ConfigRead(file).addr
<1> DEFINE N == Len(file)
<1>1. N \in Nat /\ DOMAIN file = 1 .. N /\ file \in [1 .. N -> Line] /\ file # NoFile
  BY LenProperties, NoFileAssumption DEF File
<1>2. PICK h \in [0 .. N -> Taken] :
            /\ h[0] = Nothing
            /\ \A k \in 1 .. N : h[k] = ReadLine(h[k - 1], file[k])
            /\ FoldLeft(ReadLine, Nothing, file) = h[N]
  BY ReadLineRuns
<1>3. PICK g \in [0 .. N -> Taken] :
            /\ g[0] = Nothing
            /\ \A k \in 1 .. N : g[k] = GetipLine(g[k - 1], file[k])
            /\ FoldLeft(GetipLine, Nothing, file) = g[N]
  BY GetipLineRuns
<1> HIDE DEF N
<1>4. /\ ConfigRead(file).err = 0
      /\ \A i, j \in 1 .. N : file[i].var = "IPv4Address" /\ file[j].var = "SubnetMask"
                                 => i < j
  BY <1>1 DEF AddressFirst
<1>5. h[N] \in Taken /\ g[N] \in Taken
  BY <1>1
<1>6. h[N].err = 0 /\ ConfigRead(file).addr = h[N].addr
  BY <1>1, <1>2, <1>4, <1>5 DEF ConfigRead, Fails, Taken
<1>7. ConfigGetip(file).addr = g[N].addr
  BY <1>1, <1>3, <1>5 DEF ConfigGetip, Fails, Taken
\* An error of the first reader stays: there was none.
<1>8. \A k \in 0 .. N : h[k].err = 0
  <2> DEFINE K == {n \in Nat : n <= N => h[N - n].err = 0}
  <2>1. 0 \in K
    BY <1>1, <1>6
  <2>2. ASSUME NEW n \in Nat, n \in K PROVE n + 1 \in K
    <3>1. SUFFICES ASSUME n + 1 <= N PROVE h[N - (n + 1)].err = 0
      OBVIOUS
    <3> DEFINE k == N - n
    <3>2. k \in 1 .. N /\ k - 1 = N - (n + 1) /\ n <= N
      BY <1>1, <3>1
    <3>3. h[k].err = 0
      BY <2>2, <3>2
    <3> HIDE DEF k
    <3>4. h[k] = ReadLine(h[k - 1], file[k])
      BY <1>2, <3>2
    <3>5. h[k - 1].err # 0 => h[k] = h[k - 1]
      BY <3>4 DEF ReadLine
    <3>6. QED
      BY <3>2, <3>3, <3>5
  <2>3. Nat \subseteq K
    <3> HIDE DEF K
    <3>1. QED
      BY <2>1, <2>2, SetInduction
  <2>4. ASSUME NEW k \in 0 .. N PROVE h[k].err = 0
    <3>1. N - k \in Nat /\ N - k <= N /\ N - (N - k) = k
      BY <1>1
    <3> DEFINE n == N - k
    <3> HIDE DEF n
    <3>2. n \in Nat /\ n <= N /\ N - n = k
      BY <3>1 DEF n
    <3>3. QED
      BY <2>3, <3>2
  <2>5. QED
    BY <2>4
<1> DEFINE Masked(k) == \E j \in 1 .. k : file[j].var = "SubnetMask"
           Along(k)  == g[k].addr = h[k].addr /\ (g[k].err # 0 => Masked(k))
<1>9. Along(0)
  BY <1>2, <1>3 DEF Nothing
<1>10. ASSUME NEW k \in 1 .. N, Along(k - 1) PROVE Along(k)
  <2> DEFINE l == file[k]
             m == k - 1
  <2>1. m \in 0 .. N /\ l \in Line /\ (Masked(m) => Masked(k))
    BY <1>1
  <2>2. /\ h[k] = ReadLine(h[m], l) /\ g[k] = GetipLine(g[m], l)
        /\ h[m] \in Taken /\ g[m] \in Taken /\ h[m].err = 0 /\ h[k].err = 0
        /\ g[m].addr = h[m].addr /\ (g[m].err # 0 => Masked(m))
    BY <1>2, <1>3, <1>8, <1>10, <2>1
  <2>3. l.var = "SubnetMask" => Masked(k)
    BY <1>1
  <2>4. ASSUME Masked(m), l.var = "IPv4Address" PROVE FALSE
    <3>1. PICK j \in 1 .. m : file[j].var = "SubnetMask"
      BY <2>4
    <3>2. j \in 1 .. N /\ j < k
      BY <1>1, <3>1
    <3>3. k < j
      BY <1>4, <2>4, <3>1, <3>2
    <3>4. QED
      BY <3>2, <3>3
  <2> HIDE DEF l, m, Masked
  <2>5. \/ l.var = "Interface"
        \/ l.var = "IPv4Address" /\ Parses(l.value)
        \/ l.var = "SubnetMask" /\ Parses(l.value)
    BY <2>2 DEF ReadLine, Fails, Taken
  <2>6. CASE l.var = "Interface"
    <3>1. h[k].addr = h[m].addr
      BY <2>2, <2>6 DEF ReadLine, Reads, Taken
    <3>2. g[k].addr = g[m].addr /\ g[k].err = g[m].err
      BY <2>2, <2>6 DEF GetipLine, Reads, Taken
    <3>3. QED
      BY <2>1, <2>2, <3>1, <3>2
  <2>7. CASE l.var = "IPv4Address" /\ Parses(l.value)
    <3>1. g[m].err = 0
      BY <2>2, <2>4, <2>7
    <3>2. h[k].addr = StrAddr(l.value)
      BY <2>2, <2>7 DEF ReadLine, Reads, Taken
    <3>3. g[k].addr = StrAddr(l.value) /\ g[k].err = 0
      BY <2>2, <2>7, <3>1 DEF GetipLine, Reads, Taken
    <3>4. QED
      BY <3>2, <3>3
  <2>8. CASE l.var = "SubnetMask" /\ Parses(l.value)
    <3>1. h[k].addr = h[m].addr
      BY <2>2, <2>8 DEF ReadLine, Reads, Taken
    <3>2. g[k].addr = g[m].addr
      BY <2>2, <2>8 DEF GetipLine, Fails, Taken
    <3>3. QED
      BY <2>2, <2>3, <2>8, <3>1, <3>2
  <2>9. QED
    BY <2>5, <2>6, <2>7, <2>8
<1>11. Along(N)
  <2> DEFINE K == {n \in Nat : n <= N => Along(n)}
  <2>1. 0 \in K
    BY <1>9
  <2>2. ASSUME NEW n \in Nat, n \in K PROVE n + 1 \in K
    <3>1. SUFFICES ASSUME n + 1 <= N PROVE Along(n + 1)
      OBVIOUS
    <3> HIDE DEF Along
    <3> DEFINE k == n + 1
    <3>2. k \in 1 .. N /\ k - 1 = n /\ Along(n)
      BY <1>1, <2>2, <3>1
    <3> HIDE DEF k
    <3>3. Along(k)
      BY <1>10, <3>2
    <3>4. QED
      BY <3>3 DEF k
  <2>3. Nat \subseteq K
    <3> HIDE DEF K
    <3>1. QED
      BY <2>1, <2>2, SetInduction
  <2>4. QED
    BY <1>1, <2>3
<1>12. QED
  BY <1>6, <1>7, <1>11

---------------------------------------------------------------------------
(* What waits in the interfaces, and where it comes from.                  *)

\* How long the server's packet is, for a request of n bytes.
EchoLengths(l, n) == CASE l = "udp" -> {n}
                       [] l = "ip"  -> {n + IpHeaderLength}
                       [] l = "eth" -> FrameLengths(n)
                       [] l = "arp" -> {0}

\* What a client makes of it.
Reports(l, n) == CASE l = "udp" -> {n}
                   [] l = "ip"  -> {n + 2 * IpHeaderLength}
                   [] l = "eth" -> FrameLengths(n)
                   [] l = "arp" -> {1}

\* A host may find packets that were sent to others.
Overhears(l, h) == l \in {"eth", "arp"} /\ ~(Heard \subseteq {h})

\* At the server waits what clients sent, as long as it was asked for; at a client
\* what is as long as the server makes it, and if it overhears nothing, what the
\* server made of its own requests.
Mail(l, h) ==
    {p \in Packet :
        /\ p.len <= EthMtu
        /\ p.header # <<>> => Verifies(p.header)
        /\ h = Server => p.from = p.req.client /\ p.len = p.req.len
        /\ h # Server => /\ p.len \in EchoLengths(l, p.req.len)
                         /\ ~Overhears(l, h) => p.from = Server /\ p.req.client = h}

\* What a client has to do: its addressee is the server or nobody.
Task(l, c) ==
    {j \in Job : /\ j.to \in {Server, Nobody} /\ j.len <= EthMtu
                 /\ l = "arp" /\ j.asItself => j.addr = IpOf[c]}

\* How a run may end: with a packet only if it is one that may wait there.
Outcome(l, c) ==
    {r \in Result : r.got # None => /\ r.got \in Mail(l, c)
                                    /\ r.value \in Reports(l, r.got.req.len)}

MailFits     == \A h \in Hosts : \A i \in DOMAIN rx[h] : rx[h][i] \in Mail(layer, h)
TasksFit     == \A c \in Clients : job[c] \in Task(layer, c)
OutcomesFit  == \A c \in Clients : \A i \in DOMAIN results[c] :
                                        results[c][i] \in Outcome(layer, c)

Content == TypeOK /\ MailFits /\ TasksFit /\ OutcomesFit

---------------------------------------------------------------------------
(* Every step, whichever program takes it on whichever layer, is of one of *)
(* five kinds.                                                             *)

\* The end of a run; with a packet only if that was the first one waiting.
EndStep(c, kind, value, got) ==
    /\ [kind |-> kind, value |-> value, got |-> got] \in Outcome(layer, c)
    /\ got # None => pc[c] = "wait" /\ rx[c] # <<>> /\ got = Head(rx[c])
    /\ ClientEnds(c, kind, value, got) /\ rx' = [rx EXCEPT ![c] = <<>>]

\* A start.
OpenStep(c, to, n, addr, asItself) ==
    /\ to \in {Server, Nobody} /\ n \in Nat /\ n <= EthMtu
    /\ addr \in Address /\ asItself \in BOOLEAN
    /\ layer = "arp" /\ asItself => addr = IpOf[c]
    /\ pc[c] = "off" /\ ClientOpens(c, to, n, addr, asItself)

\* A packet with so many bytes of a request.
Posted(p, from, to, n, req) ==
    /\ p \in Packet /\ p.from = from /\ p.to = to /\ p.len = n /\ p.req = req
    /\ p.header # <<>> => Verifies(p.header)

\* A request on its way, n packets dropped before.
SendStep(c, n, p) ==
    /\ pc[c] = "opened" /\ n \in 0 .. Len(rx[c])
    /\ Posted(p, c, job[c].to, job[c].len, ThisRequest(c))
    /\ Sends(c, n, p) /\ Waits(c)

\* An answer, the first m packets taken: the one that is answered and what the
\* send drops.
EchoStep(m, n, p) ==
    /\ rx[Server] # <<>> /\ m \in 1 .. Len(rx[Server])
    /\ n \in Nat /\ n <= EthMtu /\ n \in EchoLengths(layer, Asked.req.len)
    /\ Posted(p, Server, Asked.from, n, Asked.req) /\ Sends(Server, m, p)
    /\ UNCHANGED <<layer, pc, ifaces, job, left, results>>

\* The server comes or goes, or only the clock goes on.
QuietStep ==
    /\ UNCHANGED <<layer, job, results>>
    /\ pc' \in [Hosts -> {"off", "opened", "wait", "gone", "crashed"}]
    /\ \A c \in Clients : pc'[c] = pc[c]
    /\ ifaces' \subseteq Hosts /\ left' \in [Clients -> Int]
    /\ rx' = rx \/ rx' = [rx EXCEPT ![Server] = <<>>]

Moves ==
    \/ \E c \in Clients : \E kind, value, got : EndStep(c, kind, value, got)
    \/ \E c \in Clients : \E to, n, addr, asItself : OpenStep(c, to, n, addr, asItself)
    \/ \E c \in Clients : \E n, p : SendStep(c, n, p)
    \/ \E m, n, p : EchoStep(m, n, p)
    \/ QuietStep

\* The numbers that bound a length.
LEMMA Limits ==
    /\ EthMtu \in Nat /\ EthMtu < 2000 /\ 46 <= EthMtu
    /\ UdpMaxPayload \in Nat /\ UdpMaxPayload <= EthMtu
    /\ Ipv4MaxPayload \in Nat /\ Ipv4MaxPayload <= EthMtu
    /\ IpHeaderLength = 20
  BY DEF EthMtu, UdpMaxPayload, Ipv4MaxPayload, IpHeaderLength

\* An octet is a number below 256.
LEMMA OctetIs ==
    ASSUME NEW a \in Address, NEW i \in 1 .. 4
    PROVE  a[i] \in Nat /\ a[i] < 256
<1> DEFINE Byte == 0 .. 255
<1>1. \A x \in Byte : x \in Nat /\ x < 256
  BY SMT
<1>2. a \in [1 .. 4 -> Byte]
  BY Zenon DEF Address, Octet
<1> HIDE DEF Byte
<1>3. a[i] \in Byte
  BY <1>2
<1>4. QED
  BY <1>1, <1>3

\* Two octets make a word.
LEMMA WordIs ==
    ASSUME NEW a \in Address, NEW i \in 1 .. 3
    PROVE  a[i] * 256 + a[i + 1] \in Word
<1> DEFINE x == a[i]
           y == a[i + 1]
<1>1. i \in 1 .. 4 /\ i + 1 \in 1 .. 4
  OBVIOUS
<1>2. x \in Nat /\ x < 256 /\ y \in Nat /\ y < 256
  BY <1>1, OctetIs
<1> HIDE DEF x, y
<1>3. x * 256 + y \in Nat /\ x * 256 + y < 65536
  BY <1>2
<1>4. QED
  BY <1>3 DEF Word, x, y

\* The words of a header fit, and its checksum is right.
LEMMA HeaderIs ==
    ASSUME NEW n \in Nat, n < 3000, NEW proto \in Nat, proto < 256,
           NEW src \in Address, NEW dst \in Address
    PROVE  /\ Header(proto, n, src, dst) \in Seq(Word)
           /\ Verifies(Header(proto, n, src, dst))
<1> DEFINE len == IpHeaderLength + n
           words == HeaderWords(len, proto, src, dst)
<1>1. words \in Seq(Word)
  <2> DEFINE w2 == len
             w5 == 64 * 256 + proto
             w6 == src[1] * 256 + src[2]
             w7 == src[3] * 256 + src[4]
             w8 == dst[1] * 256 + dst[2]
             w9 == dst[3] * 256 + dst[4]
  <2>1. w6 \in Word /\ w7 \in Word
    <3>1. 1 \in 1 .. 3 /\ 3 \in 1 .. 3 /\ 1 + 1 = 2 /\ 3 + 1 = 4
      OBVIOUS
    <3>2. src[1] * 256 + src[1 + 1] \in Word /\ src[3] * 256 + src[3 + 1] \in Word
      BY <3>1, WordIs
    <3>3. QED
      BY <3>1, <3>2
  <2>2. w8 \in Word /\ w9 \in Word
    <3>1. 1 \in 1 .. 3 /\ 3 \in 1 .. 3 /\ 1 + 1 = 2 /\ 3 + 1 = 4
      OBVIOUS
    <3>2. dst[1] * 256 + dst[1 + 1] \in Word /\ dst[3] * 256 + dst[3 + 1] \in Word
      BY <3>1, WordIs
    <3>3. QED
      BY <3>1, <3>2
  <2>3. 17664 \in Word /\ 10355 \in Word /\ 0 \in Word
    BY DEF Word
  <2>4. w2 \in Word /\ w5 \in Word
    BY Limits DEF Word
  <2>5. words = <<17664, w2, 10355, 0, w5, w6, w7, w8, w9>>
    BY DEF HeaderWords
  <2> HIDE DEF w2, w5, w6, w7, w8, w9, words
  <2>6. QED
    BY <2>1, <2>2, <2>3, <2>4, <2>5
<1> HIDE DEF words, len
<1>2. words \in Seq(Nat)
  <2>1. \A x \in Word : x \in Nat
    BY DEF Word
  <2>2. QED
    BY <1>1, <2>1
<1>3. Checksum(words) \in Word /\ Verifies(Append(words, Checksum(words)))
  BY <1>2, ChecksumVerifies
<1>4. Append(words, Checksum(words)) \in Seq(Word)
  BY <1>1, <1>3
<1>5. Header(proto, n, src, dst) = Append(words, Checksum(words))
  BY DEF Header, words, len
<1>6. QED
  BY <1>3, <1>4, <1>5

LEMMA EthPosted ==
    ASSUME NEW from \in Hosts, NEW to \in Hosts \cup {Nobody}, NEW n \in Nat,
           NEW req \in Request
    PROVE  Posted(EthPacket(from, to, n, req), from, to, n, req)
<1>1. <<>> \in Seq(Word)
  OBVIOUS
<1>2. QED
  BY <1>1 DEF Posted, EthPacket, Packet

LEMMA IpPosted ==
    ASSUME NEW from \in Hosts, NEW to \in Hosts, NEW n \in Nat, n <= EthMtu,
           NEW req \in Request
    PROVE  Posted(IpPacket(from, to, n, req), from, to, n, req)
<1> DEFINE h == Header(6, n, IpOf[from], IpOf[to])
<1>1. h \in Seq(Word) /\ Verifies(h)
  <2>1. IpOf[from] \in Address /\ IpOf[to] \in Address /\ n < 3000
    BY HostsAssumption, Limits
  <2>2. QED
    BY <2>1, HeaderIs
<1> HIDE DEF h
<1>2. IpPacket(from, to, n, req) =
        [from |-> from, to |-> to, len |-> n, req |-> req, header |-> h]
  BY DEF IpPacket, EthPacket, h
<1>3. QED
  BY <1>1, <1>2 DEF Posted, Packet

LEMMA UdpPosted ==
    ASSUME NEW from \in Hosts, NEW to \in Hosts, NEW n \in Nat, n <= EthMtu,
           NEW req \in Request
    PROVE  Posted(UdpPacket(from, to, n, req), from, to, n, req)
<1> DEFINE h == Header(17, n + 8, IpOf[from], IpOf[to])
<1>1. h \in Seq(Word) /\ Verifies(h)
  <2>1. IpOf[from] \in Address /\ IpOf[to] \in Address /\ n + 8 \in Nat /\ n + 8 < 3000
    BY HostsAssumption, Limits
  <2>2. QED
    BY <2>1, HeaderIs
<1> HIDE DEF h
<1>2. UdpPacket(from, to, n, req) =
        [from |-> from, to |-> to, len |-> n, req |-> req, header |-> h]
  BY DEF UdpPacket, EthPacket, h
<1>3. QED
  BY <1>1, <1>2 DEF Posted, Packet

\* What is left of a queue, and a queue with a packet more.
LEMMA Dropped ==
    ASSUME NEW S, NEW q \in Seq(S), NEW n \in 0 .. Len(q)
    PROVE  /\ SubSeq(q, n + 1, Len(q)) \in Seq(S)
           /\ Len(SubSeq(q, n + 1, Len(q))) = Len(q) - n
           /\ \A i \in 1 .. Len(q) - n : SubSeq(q, n + 1, Len(q))[i] = q[i + n]
<1>1. Len(q) \in Nat
  BY LenProperties
<1> DEFINE N == Len(q)
           m == n + 1
           t == SubSeq(q, m, N)
<1>2. \A i \in m .. N : q[i] \in S
  BY <1>1, ElementOfSeq
<1>3. m \in Int /\ N \in Int
  BY <1>1
<1> HIDE DEF m
<1>4. /\ t \in Seq(S)
      /\ Len(t) = IF m <= N THEN N - m + 1 ELSE 0
      /\ \A i \in 1 .. N - m + 1 : t[i] = q[m + i - 1]
  BY <1>2, <1>3, SubSeqProperties
<1> HIDE DEF N, t
<1>5. Len(t) = N - n
  BY <1>1, <1>4 DEF m, N
<1>6. ASSUME NEW i \in 1 .. N - n PROVE t[i] = q[i + n]
  <2>1. i \in 1 .. N - m + 1 /\ m + i - 1 = i + n
    BY <1>1 DEF m, N
  <2>2. QED
    BY <1>4, <2>1
<1>7. QED
  BY <1>4, <1>5, <1>6 DEF N, t, m

\* The server is no client, and nobody is no host.
LEMMA HostsDiffer == Server \in Hosts /\ Server \notin Clients /\ Nobody \notin Hosts
                        /\ Clients \subseteq Hosts
  BY HostsAssumption DEF Hosts

\* What a send does to the queues, when what it sends fits.
LEMMA SendsMail ==
    ASSUME TypeOK, MailFits, NEW h \in Hosts, NEW n \in 0 .. Len(rx[h]),
           NEW p, \A g \in Readers(h, p) : p \in Mail(layer, g), Sends(h, n, p)
    PROVE  /\ rx' \in [Hosts -> Seq(Packet)]
           /\ \A g \in Hosts : \A i \in DOMAIN rx'[g] : rx'[g][i] \in Mail(layer, g)
<1> DEFINE left0 == SubSeq(rx[h], n + 1, Len(rx[h]))
           rest == [rx EXCEPT ![h] = left0]
<1>1. rx \in [Hosts -> Seq(Packet)] /\ ifaces \subseteq Hosts
  BY DEF TypeOK
<1>2. /\ left0 \in Seq(Packet) /\ Len(left0) = Len(rx[h]) - n
      /\ \A i \in 1 .. Len(rx[h]) - n : left0[i] = rx[h][i + n]
  BY <1>1, Dropped
<1>3. PICK to \in SUBSET Readers(h, p) :
         rx' = [g \in Hosts |-> IF g \in to THEN Append(rest[g], p) ELSE rest[g]]
  BY DEF Sends
<1> HIDE DEF left0
<1>4. rest \in [Hosts -> Seq(Packet)]
  BY <1>1, <1>2
<1>5. ASSUME NEW g \in Hosts, NEW i \in DOMAIN rest[g]
      PROVE  rest[g][i] \in Mail(layer, g)
  <2>1. CASE g = h
    <3>1. Len(rx[h]) \in Nat /\ DOMAIN rx[h] = 1 .. Len(rx[h])
      BY <1>1, LenProperties
    <3>2. DOMAIN left0 = 1 .. Len(left0)
      BY <1>2, LenProperties
    <3>3. i \in 1 .. Len(rx[h]) - n /\ rest[g] = left0
      BY <1>1, <1>2, <1>5, <2>1, <3>2
    <3>4. i + n \in DOMAIN rx[h]
      BY <3>1, <3>3
    <3>5. QED
      BY <1>2, <2>1, <3>3, <3>4 DEF MailFits
  <2>2. CASE g # h
    <3>1. rest[g] = rx[g]
      BY <1>1, <2>2
    <3>2. QED
      BY <1>5, <3>1 DEF MailFits
  <2>3. QED
    BY <2>1, <2>2
<1> HIDE DEF rest
<1>6. ASSUME NEW g \in Hosts
      PROVE  /\ rx'[g] \in Seq(Packet)
             /\ \A i \in DOMAIN rx'[g] : rx'[g][i] \in Mail(layer, g)
  <2>1. CASE g \notin to
    <3>1. rx'[g] = rest[g]
      BY <1>3, <2>1
    <3>2. QED
      BY <1>4, <1>5, <3>1
  <2>2. CASE g \in to
    <3> DEFINE q == rest[g]
    <3>1. rx'[g] = Append(q, p) /\ q \in Seq(Packet)
      BY <1>3, <1>4, <2>2
    <3>2. p \in Mail(layer, g) /\ p \in Packet
      BY <1>3, <2>2 DEF Mail
    <3>3. Len(q) \in Nat /\ DOMAIN q = 1 .. Len(q)
      BY <3>1, LenProperties
    <3>4. \A i \in 1 .. Len(q) : q[i] \in Mail(layer, g)
      BY <1>5, <3>3
    <3> HIDE DEF q
    <3>5. /\ Append(q, p) \in Seq(Packet) /\ Len(Append(q, p)) = Len(q) + 1
          /\ Append(q, p)[Len(q) + 1] = p
          /\ \A i \in 1 .. Len(q) : Append(q, p)[i] = q[i]
      BY <3>1, <3>2, AppendProperties
    <3>6. DOMAIN Append(q, p) = 1 .. Len(q) + 1
      BY <3>5, LenProperties
    <3>7. ASSUME NEW i \in 1 .. Len(q) + 1 PROVE Append(q, p)[i] \in Mail(layer, g)
      <4>1. CASE i = Len(q) + 1
        BY <3>2, <3>5, <4>1
      <4>2. CASE i # Len(q) + 1
        <5>1. i \in 1 .. Len(q)
          BY <3>3, <4>2
        <5>2. QED
          BY <3>4, <3>5, <5>1
      <4>3. QED
        BY <4>1, <4>2
    <3>8. QED
      BY <3>1, <3>5, <3>6, <3>7
  <2>3. QED
    BY <2>1, <2>2
<1>7. rx' = [g \in Hosts |-> rx'[g]]
  BY <1>3
<1>8. QED
  BY <1>6, <1>7

\* Who reads the request of a client, and the answer of the server.
LEMMA ReadersAre ==
    ASSUME TypeOK, NEW h \in Hosts, NEW p, NEW g \in Readers(h, p)
    PROVE  g \in Hosts /\ g # h /\ (~Overhears(layer, g) => g = p.to)
           /\ (layer # "eth" /\ h # Server => g = p.to)
  BY DEF Readers, Takes, Overhears, TypeOK

\* The end of a run: what was taken is recorded, the interface closed.
LEMMA EndContent ==
    ASSUME Content, NEW c \in Clients, NEW kind, NEW value, NEW got,
           EndStep(c, kind, value, got)
    PROVE  Content'
<1> DEFINE r == [kind |-> kind, value |-> value, got |-> got]
<1>1. TypeOK /\ MailFits /\ TasksFit /\ OutcomesFit
  BY DEF Content
<1>2. /\ results' = [results EXCEPT ![c] = Append(@, r)]
      /\ pc' = [pc EXCEPT ![c] = "off"] /\ job' = [job EXCEPT ![c] = NoJob]
      /\ left' = [left EXCEPT ![c] = 0] /\ ifaces' = ifaces \ {c} /\ layer' = layer
      /\ rx' = [rx EXCEPT ![c] = <<>>]
  BY DEF EndStep, ClientEnds
<1>3. c \in Hosts
  BY HostsDiffer
<1>4. r \in Outcome(layer, c) /\ r \in Result
  BY DEF EndStep, Outcome
<1> HIDE DEF r
<1>5. NoJob \in Task(layer, c) /\ NoJob \in Job
  BY Limits, ZeroAddressType DEF NoJob, Task, Job
<1>6. /\ results[c] \in Seq(Result) /\ Len(results[c]) \in Nat
      /\ DOMAIN results[c] = 1 .. Len(results[c])
  <2>1. results[c] \in Seq(Result)
    BY <1>1 DEF TypeOK
  <2>2. QED
    BY <2>1, LenProperties
<1> DEFINE s == results[c]
           t == Append(s, r)
<1>7. /\ t \in Seq(Result) /\ Len(t) = Len(s) + 1 /\ t[Len(s) + 1] = r
      /\ \A i \in 1 .. Len(s) : t[i] = s[i]
  BY <1>4, <1>6, AppendProperties
<1>8. DOMAIN t = 1 .. Len(s) + 1
  BY <1>7, LenProperties
<1>9. ASSUME NEW i \in DOMAIN t PROVE t[i] \in Outcome(layer, c)
  <2>1. CASE i = Len(s) + 1
    BY <1>4, <1>7, <2>1
  <2>2. CASE i # Len(s) + 1
    <3>1. i \in 1 .. Len(s)
      BY <1>6, <1>8, <2>2
    <3>2. s[i] \in Outcome(layer, c)
      BY <1>1, <1>6, <3>1 DEF OutcomesFit
    <3>3. QED
      BY <1>7, <3>1, <3>2
  <2>3. QED
    BY <2>1, <2>2
<1>10. results' = [results EXCEPT ![c] = t]
  BY <1>2
<1> HIDE DEF t, s
<1>11. TypeOK'
  <2>1. results' \in [Clients -> Seq(Result)]
    BY <1>1, <1>7, <1>10 DEF TypeOK
  <2>2. rx' \in [Hosts -> Seq(Packet)]
    <3>1. <<>> \in Seq(Packet) /\ rx \in [Hosts -> Seq(Packet)]
      BY <1>1 DEF TypeOK
    <3>2. QED
      BY <1>2, <3>1
  <2>3. job' \in [Clients -> Job] /\ left' \in [Clients -> Int]
    BY <1>1, <1>2, <1>5 DEF TypeOK
  <2>4. /\ pc' \in [Hosts -> {"off", "opened", "wait", "gone", "crashed"}]
        /\ ifaces' \subseteq Hosts /\ layer' \in Layers
    BY <1>1, <1>2 DEF TypeOK
  <2>5. QED
    BY <2>1, <2>2, <2>3, <2>4 DEF TypeOK
<1>12. MailFits'
  <2>1. ASSUME NEW h \in Hosts, NEW i \in DOMAIN rx'[h]
        PROVE  rx'[h][i] \in Mail(layer', h)
    <3>1. h # c /\ rx'[h] = rx[h]
      BY <1>1, <1>2, <2>1 DEF TypeOK
    <3>2. QED
      BY <1>1, <1>2, <2>1, <3>1 DEF MailFits
  <2>2. QED
    BY <2>1 DEF MailFits
<1>13. TasksFit'
  BY <1>1, <1>2, <1>5 DEF TasksFit, TypeOK
<1>14. OutcomesFit'
  <2>1. ASSUME NEW d \in Clients, NEW i \in DOMAIN results'[d]
        PROVE  results'[d][i] \in Outcome(layer', d)
    <3>1. CASE d = c
      <4>1. results'[d] = t
        BY <1>1, <1>10, <3>1 DEF TypeOK
      <4>2. QED
        BY <1>2, <1>9, <2>1, <3>1, <4>1
    <3>2. CASE d # c
      <4>1. results'[d] = results[d]
        BY <1>1, <1>10, <3>2 DEF TypeOK
      <4>2. QED
        BY <1>1, <1>2, <2>1, <4>1 DEF OutcomesFit
    <3>3. QED
      BY <3>1, <3>2
  <2>2. QED
    BY <2>1 DEF OutcomesFit
<1>15. QED
  BY <1>11, <1>12, <1>13, <1>14 DEF Content


\* A start leaves everything but the task alone.
LEMMA OpenContent ==
    ASSUME Content, NEW c \in Clients, NEW to, NEW n, NEW addr, NEW asItself,
           OpenStep(c, to, n, addr, asItself)
    PROVE  Content'
<1> DEFINE j == [to |-> to, len |-> n, addr |-> addr, asItself |-> asItself]
<1>1. TypeOK /\ MailFits /\ TasksFit /\ OutcomesFit
  BY DEF Content
<1>2. /\ pc' = [pc EXCEPT ![c] = "opened"] /\ ifaces' \in {ifaces, ifaces \cup {c}}
      /\ job' = [job EXCEPT ![c] = j]
      /\ layer' = layer /\ rx' = rx /\ left' = left /\ results' = results
  BY DEF OpenStep, ClientOpens
<1>3. j \in Task(layer, c) /\ j \in Job
  BY HostsDiffer DEF OpenStep, Task, Job
<1> HIDE DEF j
<1>4. TypeOK'
  BY <1>1, <1>2, <1>3, HostsDiffer DEF TypeOK
<1>5. TasksFit'
  BY <1>1, <1>2, <1>3 DEF TasksFit, TypeOK
<1>6. MailFits' /\ OutcomesFit'
  BY <1>1, <1>2 DEF MailFits, OutcomesFit
<1>7. QED
  BY <1>1, <1>4, <1>5, <1>6 DEF Content

\* The request a client makes is one.
LEMMA RequestIs ==
    ASSUME Content, NEW c \in Clients
    PROVE  /\ ThisRequest(c) \in Request /\ job[c].len \in Nat /\ job[c].len <= EthMtu
           /\ job[c].to \in {Server, Nobody} /\ job[c].to \in Hosts \cup {Nobody}
           /\ rx[c] \in Seq(Packet) /\ Len(rx[c]) \in Nat
<1>1. results[c] \in Seq(Result) /\ rx[c] \in Seq(Packet)
  BY HostsDiffer DEF Content, TypeOK
<1>2. Len(results[c]) \in Nat /\ Len(rx[c]) \in Nat
  BY <1>1, LenProperties
<1>3. job[c] \in Task(layer, c)
  BY DEF Content, TasksFit
<1>4. job[c].len \in Nat /\ job[c].len <= EthMtu /\ job[c].to \in {Server, Nobody}
  BY <1>3 DEF Task, Job
<1>5. QED
  BY <1>1, <1>2, <1>4, HostsDiffer DEF ThisRequest, Request

\* A client sends its request.
LEMMA SendContent ==
    ASSUME Content, NEW c \in Clients, NEW n, NEW p, SendStep(c, n, p)
    PROVE  Content'
<1>1. TypeOK /\ MailFits /\ TasksFit /\ OutcomesFit
  BY DEF Content
<1>2. /\ pc' = [pc EXCEPT ![c] = "wait"] /\ left' = [left EXCEPT ![c] = Patience[layer]]
      /\ layer' = layer /\ ifaces' = ifaces /\ job' = job /\ results' = results
  BY DEF SendStep, Waits
<1>3. /\ p \in Packet /\ p.from = c /\ p.to = job[c].to /\ p.len = job[c].len
      /\ p.req = ThisRequest(c) /\ (p.header # <<>> => Verifies(p.header))
  BY DEF SendStep, Posted
<1>4. ASSUME NEW g \in Readers(c, p) PROVE p \in Mail(layer, g)
  <2>1. /\ c \in Hosts /\ c # Server /\ g \in Hosts
        /\ ~Overhears(layer, g) \/ layer # "eth" => g = p.to
    BY <1>1, ReadersAre, HostsDiffer
  <2>2. p.req.client = c /\ p.req.len = p.len /\ p.len <= EthMtu
    BY <1>3, RequestIs DEF ThisRequest
  <2>3. p.to \in {Server, Nobody} /\ Nobody \notin Hosts
    BY <1>3, RequestIs, HostsDiffer
  <2>4. CASE g = Server
    BY <1>3, <2>2, <2>4 DEF Mail
  <2>5. CASE g # Server
    <3>1. layer = "eth" /\ Overhears(layer, g)
      BY <2>1, <2>3, <2>5
    <3>2. p.len \in EchoLengths(layer, p.req.len)
      BY <2>2, <3>1 DEF EchoLengths, FrameLengths
    <3>3. QED
      BY <1>3, <2>2, <2>5, <3>1, <3>2 DEF Mail
  <2>6. QED
    BY <2>4, <2>5
<1>5. /\ rx' \in [Hosts -> Seq(Packet)]
      /\ \A g \in Hosts : \A i \in DOMAIN rx'[g] : rx'[g][i] \in Mail(layer, g)
  <2>1. c \in Hosts /\ n \in 0 .. Len(rx[c]) /\ Sends(c, n, p)
    BY HostsDiffer DEF SendStep
  <2>2. QED
    BY <1>1, <1>4, <2>1, SendsMail
<1>6. TypeOK'
  <2>1. Patience[layer] \in Int
    BY <1>1, LayersAssumption DEF TypeOK
  <2>2. QED
    BY <1>1, <1>2, <1>5, <2>1 DEF TypeOK
<1>7. MailFits'
  BY <1>2, <1>5 DEF MailFits
<1>8. TasksFit' /\ OutcomesFit'
  BY <1>1, <1>2 DEF TasksFit, OutcomesFit
<1>9. QED
  BY <1>6, <1>7, <1>8 DEF Content

\* The packet that is echoed.
LEMMA AskedIs ==
    ASSUME Content, rx[Server] # <<>>
    PROVE  /\ Asked \in Packet /\ Asked \in Mail(layer, Server)
           /\ Asked.from = Asked.req.client /\ Asked.from \in Clients
           /\ Asked.len = Asked.req.len /\ Asked.len \in Nat /\ Asked.len <= EthMtu
           /\ Asked.req \in Request
           /\ rx[Server] \in Seq(Packet) /\ Len(rx[Server]) \in Nat /\ Len(rx[Server]) >= 1
<1>1. rx[Server] \in Seq(Packet)
  BY HostsDiffer DEF Content, TypeOK
<1>2. Len(rx[Server]) \in Nat /\ Len(rx[Server]) >= 1
  BY <1>1, EmptySeq
<1>3. DOMAIN rx[Server] = 1 .. Len(rx[Server])
  BY <1>1, LenProperties
<1>4. Asked = rx[Server][1] /\ 1 \in DOMAIN rx[Server]
  BY <1>1, <1>2, <1>3 DEF Asked
<1>5. Asked \in Mail(layer, Server)
  BY <1>4, HostsDiffer DEF Content, MailFits
<1>6. QED
  BY <1>1, <1>2, <1>5 DEF Mail, Packet, Request

\* The server, or the kernel of its host, answers.
LEMMA EchoContent ==
    ASSUME Content, NEW m, NEW n, NEW p, EchoStep(m, n, p)
    PROVE  Content'
<1>1. TypeOK /\ MailFits /\ TasksFit /\ OutcomesFit
  BY DEF Content
<1>0. /\ rx[Server] # <<>> /\ m \in 1 .. Len(rx[Server]) /\ n \in Nat /\ n <= EthMtu
      /\ n \in EchoLengths(layer, Asked.req.len)
      /\ Posted(p, Server, Asked.from, n, Asked.req) /\ Sends(Server, m, p)
      /\ UNCHANGED <<layer, pc, ifaces, job, left, results>>
  BY DEF EchoStep
<1>2. ASSUME NEW g \in Readers(Server, p) PROVE p \in Mail(layer, g)
  <2>1. Asked.from = Asked.req.client
    BY <1>0, AskedIs
  <2>2. g # Server /\ (~Overhears(layer, g) => g = p.to)
    BY <1>1, ReadersAre, HostsDiffer
  <2>3. /\ p \in Packet /\ p.from = Server /\ p.to = Asked.from /\ p.len = n
        /\ p.req = Asked.req /\ (p.header # <<>> => Verifies(p.header))
    BY <1>0 DEF Posted
  <2>4. QED
    BY <1>0, <2>1, <2>2, <2>3 DEF Mail
<1>3. /\ rx' \in [Hosts -> Seq(Packet)]
      /\ \A g \in Hosts : \A i \in DOMAIN rx'[g] : rx'[g][i] \in Mail(layer, g)
  <2>1. Server \in Hosts /\ m \in 0 .. Len(rx[Server])
    BY <1>0, HostsDiffer, AskedIs
  <2>2. QED
    BY <1>0, <1>1, <1>2, <2>1, SendsMail
<1>4. TypeOK'
  BY <1>0, <1>1, <1>3 DEF TypeOK
<1>5. MailFits' /\ TasksFit' /\ OutcomesFit'
  BY <1>0, <1>1, <1>3 DEF MailFits, TasksFit, OutcomesFit
<1>6. QED
  BY <1>4, <1>5 DEF Content

\* The server is started, ends, or only the clock goes on.
LEMMA QuietContent ==
    ASSUME Content, QuietStep
    PROVE  Content'
<1>1. TypeOK /\ MailFits /\ TasksFit /\ OutcomesFit
  BY DEF Content
<1>0. /\ UNCHANGED <<layer, job, results>>
      /\ pc' \in [Hosts -> {"off", "opened", "wait", "gone", "crashed"}]
      /\ ifaces' \subseteq Hosts /\ left' \in [Clients -> Int]
      /\ rx' = rx \/ rx' = [rx EXCEPT ![Server] = <<>>]
  BY DEF QuietStep
<1>2. <<>> \in Seq(Packet) /\ rx \in [Hosts -> Seq(Packet)]
  BY <1>1 DEF TypeOK
<1>3. rx' \in [Hosts -> Seq(Packet)]
  BY <1>0, <1>2
<1>4. MailFits'
  <2>1. ASSUME NEW h \in Hosts, NEW i \in DOMAIN rx'[h]
        PROVE  rx'[h][i] \in Mail(layer', h)
    <3>1. rx'[h] = rx[h] \/ rx'[h] = <<>>
      BY <1>0, <1>2
    <3>2. rx'[h] = rx[h]
      BY <2>1, <3>1
    <3>3. QED
      BY <1>0, <1>1, <2>1, <3>2 DEF MailFits
  <2>2. QED
    BY <2>1 DEF MailFits
<1>5. TypeOK'
  BY <1>0, <1>1, <1>3 DEF TypeOK
<1>6. TasksFit' /\ OutcomesFit'
  BY <1>0, <1>1 DEF TasksFit, OutcomesFit
<1>7. QED
  BY <1>4, <1>5, <1>6 DEF Content

---------------------------------------------------------------------------
(* Every action is one of them.                                            *)

\* A run that ends with nothing.
LEMMA NothingGot ==
    ASSUME NEW c \in Clients, NEW kind \in {"answered", "silent", "failed"},
           NEW value \in Int, ClientEnds(c, kind, value, None),
           rx' = [rx EXCEPT ![c] = <<>>]
    PROVE  Moves
<1>1. [kind |-> kind, value |-> value, got |-> None] \in Outcome(layer, c)
  BY DEF Outcome, Result
<1>2. EndStep(c, kind, value, None)
  BY <1>1 DEF EndStep
<1>3. QED
  BY <1>2 DEF Moves

\* A client that gives up.
LEMMA GivesUpMoves ==
    ASSUME NEW c \in Clients, ClientGivesUp(c)
    PROVE  Moves
<1> DEFINE value == -1
<1>1. ClientEnds(c, "failed", value, None) /\ rx' = [rx EXCEPT ![c] = <<>>]
  BY DEF ClientGivesUp
<1>2. value \in Int /\ "failed" \in {"answered", "silent", "failed"}
  OBVIOUS
<1> HIDE DEF value
<1>3. QED
  BY <1>1, <1>2, NothingGot

\* A client that has opened its interface.
LEMMA OpensMoves ==
    ASSUME NEW c \in Clients, NEW to \in {Server, Nobody}, NEW n \in Nat,
           n <= EthMtu, NEW addr \in Address, NEW asItself \in BOOLEAN,
           layer = "arp" /\ asItself => addr = IpOf[c],
           pc[c] = "off", ClientOpens(c, to, n, addr, asItself)
    PROVE  Moves
<1>1. OpenStep(c, to, n, addr, asItself)
  BY DEF OpenStep
<1>2. QED
  BY <1>1 DEF Moves

\* A client whose send succeeds.
LEMMA SendMoves ==
    ASSUME NEW c \in Clients, NEW n \in 0 .. Len(rx[c]), NEW p, pc[c] = "opened",
           Posted(p, c, job[c].to, job[c].len, ThisRequest(c)),
           Sends(c, n, p), Waits(c)
    PROVE  Moves
<1>1. SendStep(c, n, p)
  BY DEF SendStep
<1>2. QED
  BY <1>1 DEF Moves

\* A server, or the kernel of its host, that answers.
LEMMA EchoMoves ==
    ASSUME rx[Server] # <<>>, NEW m \in 1 .. Len(rx[Server]), NEW n \in Nat,
           n <= EthMtu, n \in EchoLengths(layer, Asked.req.len), NEW p,
           Posted(p, Server, Asked.from, n, Asked.req), Sends(Server, m, p),
           UNCHANGED <<layer, pc, ifaces, job, left, results>>
    PROVE  Moves
<1>1. EchoStep(m, n, p)
  BY DEF EchoStep
<1>2. QED
  BY <1>1 DEF Moves

\* Padding twice is padding once.
LEMMA FrameLengthsAre ==
    ASSUME NEW n \in Nat, n <= EthMtu, NEW m \in FrameLengths(n)
    PROVE  /\ m \in Nat /\ m <= EthMtu
           /\ \A k \in FrameLengths(m) : k \in Nat /\ k \in FrameLengths(n)
  BY Limits DEF FrameLengths

\* What a client finds first: the answer to a request of its own.
LEMMA HeadIs ==
    ASSUME Content, NEW c \in Clients, rx[c] # <<>>
    PROVE  /\ Head(rx[c]) \in Mail(layer, c) /\ Head(rx[c]).req.len \in Nat
           /\ Head(rx[c]).len \in Nat /\ Head(rx[c]).len <= EthMtu
           /\ Head(rx[c]).len \in EchoLengths(layer, Head(rx[c]).req.len)
<1>1. rx[c] \in Seq(Packet) /\ c \in Hosts /\ c # Server
  BY HostsDiffer DEF Content, TypeOK
<1>2. Len(rx[c]) \in Nat /\ Len(rx[c]) >= 1
  BY <1>1, EmptySeq
<1>3. DOMAIN rx[c] = 1 .. Len(rx[c])
  BY <1>1, LenProperties
<1>4. Head(rx[c]) = rx[c][1] /\ 1 \in DOMAIN rx[c]
  BY <1>1, <1>2, <1>3
<1>5. Head(rx[c]) \in Mail(layer, c)
  BY <1>1, <1>4 DEF Content, MailFits
<1>6. QED
  BY <1>1, <1>5 DEF Mail, Packet, Request

\* A client that takes the first packet.
LEMMA AnsweredMoves ==
    ASSUME Content, NEW c \in Clients, NEW l, NEW n \in Int, rx[c] # <<>>,
           n \in Reports(layer, Head(rx[c]).req.len), Answered(c, l, n)
    PROVE  Moves
<1> DEFINE kind == IF n = 0 THEN "silent" ELSE "answered"
           p    == Head(rx[c])
<1>1. ClientEnds(c, kind, n, p) /\ rx' = [rx EXCEPT ![c] = <<>>] /\ pc[c] = "wait"
  BY DEF Answered
<1>2. p \in Mail(layer, c)
  BY HeadIs
<1>3. kind \in {"answered", "silent", "failed"}
  OBVIOUS
<1>4. n \in Reports(layer, p.req.len)
  OBVIOUS
<1> HIDE DEF kind, p
<1>5. [kind |-> kind, value |-> n, got |-> p] \in Outcome(layer, c)
  <2>1. p \in Packet
    BY <1>2 DEF Mail
  <2>2. QED
    BY <1>2, <1>3, <1>4, <2>1 DEF Outcome, Result
<1>6. EndStep(c, kind, n, p)
  BY <1>1, <1>5 DEF EndStep, p
<1>7. QED
  BY <1>6 DEF Moves

\* What is typed names the server or nobody.
LEMMA TargetIs ==
    ASSUME NEW t \in Targets, Parses(t)
    PROVE  HostAt(StrAddr(t)) \in {Server, Nobody}
  BY TargetsAssumption DEF Reached

\* A file that can be read gives the address of its host.
LEMMA FileIs ==
    ASSUME NEW c \in Clients, NEW f \in FilesOf[c]
    PROVE  /\ f = NoFile \/ f \in File
           /\ ConfigRead(f).err = 0 => ConfigRead(f).addr = IpOf[c]
           /\ IpOf[c] \in Address
<1>1. c \in Hosts
  BY HostsDiffer
<1>2. QED
  BY <1>1, FilesAssumption, InputsAssumption, HostsAssumption

\* The starts of the four clients, with all their files and arguments.
LEMMA ClientStartsMoves ==
    ASSUME Content, NEW c \in Clients, ClientStarts(c)
    PROVE  Moves
<1>0. pc[c] = "off"
  BY DEF ClientStarts, UdpClientStarts, IpClientStarts, EthClientStarts, ArpClientStarts,
         Starts
<1>1. CASE UdpClientStarts(c)
  <2>1. PICK f \in FilesOf[c], t \in Targets, n \in Lengths :
          IF Parses(t) /\ n \in 0 .. UdpMaxPayload /\ ConfigRead(f).err = 0
          THEN ClientOpens(c, HostAt(StrAddr(t)), n, ConfigRead(f).addr, TRUE)
          ELSE ClientGivesUp(c)
    BY <1>1 DEF UdpClientStarts
  <2>2. CASE Parses(t) /\ n \in 0 .. UdpMaxPayload /\ ConfigRead(f).err = 0
    <3>1. n \in Nat /\ n <= EthMtu
      BY <2>2, Limits
    <3>2. ClientOpens(c, HostAt(StrAddr(t)), n, IpOf[c], TRUE)
      BY <2>1, <2>2, FileIs
    <3>3. QED
      BY <1>0, <2>2, <3>1, <3>2, FileIs, TargetIs, OpensMoves
  <2>3. QED
    BY <2>1, <2>2, GivesUpMoves
<1>2. CASE IpClientStarts(c)
  <2>1. PICK f \in FilesOf[c], t \in Targets, n \in Lengths :
          IF Parses(t) /\ ConfigRead(f).err = 0 /\ n \in 0 .. Ipv4MaxPayload
          THEN ClientOpens(c, HostAt(StrAddr(t)), n, ConfigRead(f).addr, TRUE)
          ELSE ClientGivesUp(c)
    BY <1>2 DEF IpClientStarts
  <2>2. CASE Parses(t) /\ ConfigRead(f).err = 0 /\ n \in 0 .. Ipv4MaxPayload
    <3>1. n \in Nat /\ n <= EthMtu
      BY <2>2, Limits
    <3>2. ClientOpens(c, HostAt(StrAddr(t)), n, IpOf[c], TRUE)
      BY <2>1, <2>2, FileIs
    <3>3. QED
      BY <1>0, <2>2, <3>1, <3>2, FileIs, TargetIs, OpensMoves
  <2>3. QED
    BY <2>1, <2>2, GivesUpMoves
<1>3. CASE EthClientStarts(c)
  <2>1. CASE ClientGivesUp(c)
    BY <2>1, GivesUpMoves
  <2>2. CASE \E to \in Reached, n \in Lengths \cap (0 .. EthMtu) :
                ClientOpens(c, to, n, ZeroAddress, TRUE)
    <3>1. PICK to \in Reached, n \in Lengths \cap (0 .. EthMtu) :
                ClientOpens(c, to, n, ZeroAddress, TRUE)
      BY <2>2
    <3>2. n \in Nat /\ n <= EthMtu /\ to \in {Server, Nobody}
      BY Limits, TargetsAssumption
    <3>3. layer # "arp"
      BY <1>3 DEF EthClientStarts, Starts
    <3>4. QED
      BY <1>0, <3>1, <3>2, <3>3, ZeroAddressType, OpensMoves
  <2>3. QED
    BY <1>3, <2>1, <2>2 DEF EthClientStarts
<1>4. CASE ArpClientStarts(c)
  <2>1. CASE ClientGivesUp(c)
    BY <2>1, GivesUpMoves
  <2>2. CASE \E f \in FilesOf[c], t \in Targets :
               /\ ConfigGetip(f).err # -1
               /\ \E to \in IF Parses(t) THEN {HostAt(StrAddr(t))} ELSE Reached :
                    ClientOpens(c, to, 0, ConfigGetip(f).addr, AddressFirst(f))
    <3>1. PICK f \in FilesOf[c], t \in Targets :
               /\ ConfigGetip(f).err # -1
               /\ \E to \in IF Parses(t) THEN {HostAt(StrAddr(t))} ELSE Reached :
                    ClientOpens(c, to, 0, ConfigGetip(f).addr, AddressFirst(f))
      BY <2>2
    <3>2. PICK to \in IF Parses(t) THEN {HostAt(StrAddr(t))} ELSE Reached :
               ClientOpens(c, to, 0, ConfigGetip(f).addr, AddressFirst(f))
      BY <3>1
    <3>3. to \in {Server, Nobody}
      BY <3>2, TargetIs, TargetsAssumption
    <3>4. f \in File
      BY <3>1, FileIs DEF ConfigGetip, Unreadable, Nothing
    <3>5. ConfigGetip(f).addr \in Address
      BY <3>4, ConfigGetipType DEF Taken
    <3>6. AddressFirst(f) => ConfigGetip(f).addr = IpOf[c]
      <4>1. SUFFICES ASSUME AddressFirst(f) PROVE ConfigGetip(f).addr = IpOf[c]
        OBVIOUS
      <4>2. ConfigRead(f).err = 0
        BY <4>1 DEF AddressFirst
      <4>3. ConfigRead(f).addr = IpOf[c]
        BY <4>2, FileIs
      <4>4. QED
        BY <3>4, <4>1, <4>3, ReadersAgree
    <3>7. AddressFirst(f) \in BOOLEAN
      BY DEF AddressFirst
    <3>8. 0 \in Nat /\ 0 <= EthMtu
      BY Limits
    <3> DEFINE addr == ConfigGetip(f).addr
               asItself == AddressFirst(f)
    <3>9. addr \in Address /\ asItself \in BOOLEAN /\ (asItself => addr = IpOf[c])
      BY <3>5, <3>6, <3>7
    <3>10. ClientOpens(c, to, 0, addr, asItself)
      BY <3>2
    <3> HIDE DEF addr, asItself
    <3>11. QED
      BY <1>0, <3>3, <3>8, <3>9, <3>10, OpensMoves
  <2>3. QED
    BY <1>4, <2>1, <2>2 DEF ArpClientStarts
<1>5. QED
  BY <1>1, <1>2, <1>3, <1>4 DEF ClientStarts

\* The sends of the four clients.
LEMMA ClientSendsMoves ==
    ASSUME Content, NEW c \in Clients, ClientSends(c)
    PROVE  Moves
<1> DEFINE to  == job[c].to
           n   == job[c].len
           req == ThisRequest(c)
<1>1. /\ req \in Request /\ n \in Nat /\ n <= EthMtu /\ to \in {Server, Nobody}
      /\ to \in Hosts \cup {Nobody} /\ c \in Hosts /\ Len(rx[c]) \in Nat
      /\ to # Nobody => to \in Hosts
  BY RequestIs, HostsDiffer
<1> HIDE DEF to, n, req
<1>2. CASE UdpClientSends(c)
  <2>1. PICK k \in 0 .. Len(rx[c]) : Sends(c, k, UdpPacket(c, to, n, req))
    BY <1>2 DEF UdpClientSends, to, n, req
  <2>2. to # Nobody /\ Waits(c) /\ pc[c] = "opened"
    BY <1>2 DEF UdpClientSends, CanSend, to
  <2>3. Posted(UdpPacket(c, to, n, req), c, to, n, req)
    BY <1>1, <2>2, UdpPosted
  <2>4. QED
    BY <2>1, <2>2, <2>3, SendMoves DEF to, n, req
<1>3. CASE IpClientSends(c)
  <2>1. PICK k \in 0 .. Len(rx[c]) : Sends(c, k, IpPacket(c, to, n, req))
    BY <1>3 DEF IpClientSends, to, n, req
  <2>2. to # Nobody /\ Waits(c) /\ pc[c] = "opened"
    BY <1>3 DEF IpClientSends, CanSend, to
  <2>3. Posted(IpPacket(c, to, n, req), c, to, n, req)
    BY <1>1, <2>2, IpPosted
  <2>4. QED
    BY <2>1, <2>2, <2>3, SendMoves DEF to, n, req
<1>4. CASE EthClientSends(c) \/ ArpClientSends(c)
  <2>1. Sends(c, 0, EthPacket(c, to, n, req)) /\ Waits(c) /\ pc[c] = "opened"
    BY <1>4 DEF EthClientSends, ArpClientSends, CanSend, to, n, req
  <2>2. Posted(EthPacket(c, to, n, req), c, to, n, req)
    BY <1>1, EthPosted
  <2>3. 0 \in 0 .. Len(rx[c])
    BY <1>1
  <2>4. QED
    BY <2>1, <2>2, <2>3, SendMoves DEF to, n, req
<1>5. CASE ClientSendFails(c)
  BY <1>5, GivesUpMoves DEF ClientSendFails
<1>6. QED
  BY <1>2, <1>3, <1>4, <1>5 DEF ClientSends

\* The receives of the four clients, and the timeout.
LEMMA ClientReceivesMoves ==
    ASSUME Content, NEW c \in Clients, ClientReceives(c)
    PROVE  Moves
<1> DEFINE p == Head(rx[c])
<1>1. ASSUME rx[c] # <<>>
      PROVE  /\ p.req.len \in Nat /\ p.len \in Nat /\ p.len <= EthMtu
             /\ p.len \in EchoLengths(layer, p.req.len)
  BY <1>1, HeadIs
<1> HIDE DEF p
<1>2. CASE UdpClientReceives(c)
  <2>1. rx[c] # <<>> /\ layer = "udp" /\ Answered(c, "udp", p.len)
    BY <1>2 DEF UdpClientReceives, Answered, p
  <2>2. p.len \in Reports(layer, p.req.len) /\ p.len \in Int
    BY <1>1, <2>1 DEF Reports, EchoLengths
  <2>3. QED
    BY <2>1, <2>2, AnsweredMoves DEF p
<1>3. CASE IpClientReceives(c)
  <2> DEFINE n == p.len + IpHeaderLength
  <2>1. rx[c] # <<>> /\ layer = "ip" /\ Answered(c, "ip", n)
    BY <1>3 DEF IpClientReceives, Answered, p
  <2>2. n \in Reports(layer, p.req.len) /\ n \in Int
    BY <1>1, <2>1, Limits DEF Reports, EchoLengths
  <2> HIDE DEF n
  <2>3. QED
    BY <2>1, <2>2, AnsweredMoves DEF p
<1>4. CASE EthClientReceives(c)
  <2>1. rx[c] # <<>> /\ layer = "eth" /\ \E n \in FrameLengths(p.len) : Answered(c, "eth", n)
    BY <1>4 DEF EthClientReceives, Answered, p
  <2>2. PICK n \in FrameLengths(p.len) : Answered(c, "eth", n)
    BY <2>1
  <2>3. p.len \in FrameLengths(p.req.len)
    BY <1>1, <2>1 DEF EchoLengths
  <2>4. n \in FrameLengths(p.req.len) /\ n \in Nat
    BY <1>1, <2>1, <2>3, Limits DEF FrameLengths
  <2>5. n \in Reports(layer, p.req.len) /\ n \in Int
    BY <2>1, <2>4 DEF Reports
  <2>6. QED
    BY <2>1, <2>2, <2>5, AnsweredMoves DEF p
<1>5. CASE ArpClientReceives(c)
  <2>1. rx[c] # <<>> /\ layer = "arp" /\ Answered(c, "arp", 1)
    BY <1>5 DEF ArpClientReceives, Answered
  <2>2. 1 \in Reports(layer, p.req.len)
    BY <2>1 DEF Reports
  <2>3. QED
    BY <2>1, <2>2, AnsweredMoves DEF p
<1>6. CASE ClientTimesOut(c)
  <2> DEFINE value == 0
  <2>1. ClientEnds(c, "silent", value, None) /\ rx' = [rx EXCEPT ![c] = <<>>]
    BY <1>6 DEF ClientTimesOut
  <2>2. value \in Int /\ "silent" \in {"answered", "silent", "failed"}
    OBVIOUS
  <2> HIDE DEF value
  <2>3. QED
    BY <2>1, <2>2, NothingGot
<1>7. QED
  BY <1>2, <1>3, <1>4, <1>5, <1>6 DEF ClientReceives

\* Whatever the servers and the kernel do.
LEMMA ServerMoves ==
    ASSUME Content, ServerStarts \/ ServerEchoes \/ ServerRecvFails \/ KernelReplies
    PROVE  Moves
<1> DEFINE states == {"off", "opened", "wait", "gone", "crashed"}
<1>1. /\ pc \in [Hosts -> states] /\ ifaces \subseteq Hosts /\ left \in [Clients -> Int]
      /\ Server \in Hosts
  BY HostsDiffer DEF Content, TypeOK
<1>2. ASSUME ServerStarts PROVE Moves
  <2>1. UNCHANGED <<layer, rx, job, left, results>>
    BY <1>2 DEF ServerStarts, UdpServerStarts, IpServerStarts, EthServerStarts, ServerOpens
  <2>2. pc' \in [Hosts -> states] /\ ifaces' \subseteq Hosts
        /\ \A c \in Clients : pc'[c] = pc[c]
    BY <1>1, <1>2, HostsDiffer DEF ServerStarts, UdpServerStarts, IpServerStarts, EthServerStarts,
                      ServerOpens, ServerBecomes
  <2>3. QED
    BY <1>1, <2>1, <2>2 DEF QuietStep, Moves
<1>3. ASSUME NEW s \in {"gone", "crashed"}, ServerEnds(s),
             UNCHANGED <<layer, job, left, results>>
      PROVE  Moves
  <2>1. pc' \in [Hosts -> states] /\ ifaces' \subseteq Hosts
        /\ \A c \in Clients : pc'[c] = pc[c]
    BY <1>1, <1>3, HostsDiffer DEF ServerEnds, ServerBecomes
  <2>2. rx' = [rx EXCEPT ![Server] = <<>>]
    BY <1>3 DEF ServerEnds
  <2>3. QED
    BY <1>1, <1>3, <2>1, <2>2 DEF QuietStep, Moves
<1> HIDE DEF states
<1>4. CASE ServerRecvFails
  BY <1>3, <1>4 DEF ServerRecvFails
<1> DEFINE a == Asked
<1>5. ASSUME rx[Server] # <<>>
      PROVE  /\ a.from \in Hosts /\ a.req \in Request /\ a.req.len = a.len
             /\ a.len \in Nat /\ a.len <= EthMtu /\ Len(rx[Server]) \in Nat
             /\ Len(rx[Server]) >= 1
  BY <1>5, AskedIs, HostsDiffer
<1> HIDE DEF a
<1>6. CASE UdpServerEchoes
  <2>1. layer = "udp" /\ rx[Server] # <<>> /\ UNCHANGED <<layer, job, left, results>>
    BY <1>6 DEF UdpServerEchoes, Serves
  <2>2. CASE Echoes(UdpEcho(a.len))
    <3> DEFINE p == UdpPacket(Server, a.from, a.len, a.req)
    <3>1. p = UdpEcho(a.len)
      BY DEF UdpEcho, a
    <3>2. Posted(p, Server, a.from, a.len, a.req)
      BY <1>1, <1>5, <2>1, UdpPosted
    <3> HIDE DEF p
    <3>3. PICK m \in 1 .. Len(rx[Server]) : Sends(Server, m, p)
      BY <2>2, <3>1 DEF Echoes
    <3>4. a.len \in EchoLengths(layer, a.req.len)
      BY <1>5, <2>1 DEF EchoLengths
    <3>5. UNCHANGED <<layer, pc, ifaces, job, left, results>>
      BY <2>1, <2>2 DEF Echoes
    <3>6. QED
      BY <1>5, <2>1, <3>2, <3>3, <3>4, <3>5, EchoMoves DEF a
  <2>3. QED
    BY <1>3, <1>6, <2>1, <2>2 DEF UdpServerEchoes, a
<1>7. CASE IpServerEchoes
  <2> DEFINE n == a.len + IpHeaderLength
  <2>1. layer = "ip" /\ rx[Server] # <<>> /\ UNCHANGED <<layer, job, left, results>>
    BY <1>7 DEF IpServerEchoes, Serves
  <2>2. n \in Nat /\ n \in EchoLengths(layer, a.req.len) /\ n = EchoLength
    BY <1>5, <2>1, Limits DEF EchoLengths, EchoLength, a
  <2> HIDE DEF n
  <2>3. CASE n <= Ipv4MaxPayload /\ Echoes(IpEcho(n))
    <3> DEFINE p == IpPacket(Server, a.from, n, a.req)
    <3>1. p = IpEcho(n)
      BY DEF IpEcho, a
    <3>2. n <= EthMtu
      BY <2>2, <2>3, Limits
    <3>3. Posted(p, Server, a.from, n, a.req)
      BY <1>1, <1>5, <2>1, <2>2, <3>2, IpPosted
    <3> HIDE DEF p
    <3>4. PICK m \in 1 .. Len(rx[Server]) : Sends(Server, m, p)
      BY <2>3, <3>1 DEF Echoes
    <3>5. UNCHANGED <<layer, pc, ifaces, job, left, results>>
      BY <2>1, <2>3 DEF Echoes
    <3>6. QED
      BY <2>1, <2>2, <3>2, <3>3, <3>4, <3>5, EchoMoves DEF a
  <2>4. QED
    BY <1>3, <1>7, <2>1, <2>2, <2>3 DEF IpServerEchoes
<1>8. CASE EthServerEchoes
  <2>1. /\ layer = "eth" /\ rx[Server] # <<>>
        /\ UNCHANGED <<layer, pc, ifaces, job, left, results>>
    BY <1>8 DEF EthServerEchoes, Serves
  <2>2. PICK n \in FrameLengths(a.len) : Sends(Server, 1, EthPacket(Server, a.from, n, a.req))
    BY <1>8 DEF EthServerEchoes, a
  <2>3. n \in Nat /\ n <= EthMtu
    BY <1>5, <2>1, FrameLengthsAre
  <2>4. Posted(EthPacket(Server, a.from, n, a.req), Server, a.from, n, a.req)
    BY <1>1, <1>5, <2>1, <2>3, EthPosted
  <2>5. n \in EchoLengths(layer, a.req.len) /\ 1 \in 1 .. Len(rx[Server])
    BY <1>5, <2>1, <2>2 DEF EchoLengths
  <2>6. QED
    BY <2>1, <2>2, <2>3, <2>4, <2>5, EchoMoves DEF a
<1>9. CASE KernelReplies
  <2>1. /\ layer = "arp" /\ rx[Server] # <<>>
        /\ Sends(Server, 1, EthPacket(Server, a.from, 0, a.req))
        /\ UNCHANGED <<layer, pc, ifaces, job, left, results>>
    BY <1>9 DEF KernelReplies, Asked, a
  <2>2. Posted(EthPacket(Server, a.from, 0, a.req), Server, a.from, 0, a.req)
    BY <1>1, <1>5, <2>1, EthPosted
  <2>3. /\ 0 \in EchoLengths(layer, a.req.len) /\ 0 \in Nat /\ 0 <= EthMtu
        /\ 1 \in 1 .. Len(rx[Server])
    BY <1>5, <2>1, Limits DEF EchoLengths
  <2>4. QED
    BY <2>1, <2>2, <2>3, EchoMoves DEF a
<1>10. QED
  BY <1>2, <1>4, <1>6, <1>7, <1>8, <1>9 DEF ServerEchoes

\* The clock.
LEMMA TickMoves ==
    ASSUME Content, Tick
    PROVE  Moves
<1>1. left' \in [Clients -> Int]
  BY DEF Tick, Content, TypeOK
<1>2. UNCHANGED <<layer, pc, ifaces, rx, job, results>>
  BY DEF Tick
<1>3. QED
  BY <1>1, <1>2 DEF QuietStep, Moves, Content, TypeOK

\* There is no step of another kind.
LEMMA NextMoves ==
    ASSUME Content, Next
    PROVE  Moves
<1>1. ASSUME NEW c \in Clients, ClientRecvFails(c) PROVE Moves
  BY <1>1, GivesUpMoves DEF ClientRecvFails
<1>2. QED
  BY <1>1, ClientStartsMoves, ClientSendsMoves, ClientReceivesMoves, ServerMoves,
     TickMoves DEF Next

---------------------------------------------------------------------------
(* What follows from the content of the queues.                            *)

LEMMA InitContent == Init => Content
<1> SUFFICES ASSUME Init PROVE Content
  OBVIOUS
<1>1. NoJob \in Job /\ \A l, c : NoJob \in Task(l, c)
  BY Limits, ZeroAddressType DEF NoJob, Task, Job
<1>2. <<>> \in Seq(Packet) /\ <<>> \in Seq(Result)
  OBVIOUS
<1>3. TypeOK
  BY <1>1, <1>2, HostsDiffer DEF Init, TypeOK
<1>4. MailFits /\ TasksFit /\ OutcomesFit
  BY <1>1 DEF Init, MailFits, TasksFit, OutcomesFit
<1>5. QED
  BY <1>3, <1>4 DEF Content

LEMMA NextContent == Content /\ [Next]_vars => Content'
<1> SUFFICES ASSUME Content, [Next]_vars PROVE Content'
  OBVIOUS
<1>1. CASE UNCHANGED vars
  BY <1>1 DEF vars, Content, TypeOK, MailFits, TasksFit, OutcomesFit
<1>2. CASE Next
  <2>1. Moves
    BY <1>2, NextMoves
  <2>2. QED
    BY <2>1, EndContent, OpenContent, SendContent, EchoContent, QuietContent DEF Moves
<1>3. QED
  BY <1>1, <1>2

\* Content is an invariant.
LEMMA ContentHolds == Spec => []Content
  BY InitContent, NextContent, PTL DEF Spec

\* Every variable keeps its type: no send, echo or late packet makes a packet, a
\* length or a result that is none.
THEOREM EchoTypeCorrect == Spec => []TypeOK
  BY ContentHolds, PTL DEF Content

\* Every header on its way passes the test of RFC 791, for all addresses, lengths
\* and numbers of hosts (ipv4.c:115-133, 307-329).
THEOREM HeadersVerify == Spec => []HeaderVerifies
<1>1. Content => HeaderVerifies
  BY DEF Content, MailFits, Mail, HeaderVerifies, Verifies
<1>2. QED
  BY <1>1, ContentHolds, PTL

\* arp_client asks with the address ipv4_open would use, for every configuration
\* file whose addresses stand before its mask (ipv4_config.c:207-234).
THEOREM ArpAsksAsItself == Spec => []AsksAsItself
<1>1. Content => AsksAsItself
  BY DEF Content, TasksFit, Task, AsksAsItself
<1>2. QED
  BY <1>1, ContentHolds, PTL

\* What a client reports is the length of its request, and for IP two headers
\* more, whichever of its requests the packet is about and however late it
\* comes (ipv4.c:288, ipv4_server.c:81, eth_server.c:90).
THEOREM EchoesHaveLength == Spec => []EchoHasLength
<1>1. Content => EchoHasLength
  <2> SUFFICES ASSUME Content, NEW c \in Clients, NEW i \in Got(c)
               PROVE  LET r == results[c][i] IN
                      CASE layer = "udp" -> r.value = r.got.req.len
                        [] layer = "ip"  -> r.value = r.got.req.len + 2 * IpHeaderLength
                        [] layer = "eth" -> r.value \in FrameLengths(r.got.req.len)
                        [] layer = "arp" -> r.value = 1
    BY DEF EchoHasLength
  <2>1. results[c][i] \in Outcome(layer, c) /\ results[c][i].got # None
    BY DEF Got, Content, OutcomesFit
  <2>2. results[c][i].value \in Reports(layer, results[c][i].got.req.len)
    BY <2>1 DEF Outcome
  <2>3. layer \in {"udp", "ip", "eth", "arp"}
    BY LayersAssumption DEF Content, TypeOK
  <2>4. QED
    BY <2>2, <2>3 DEF Reports
<1>2. QED
  BY <1>1, ContentHolds, PTL

---------------------------------------------------------------------------
(* The order of requests and answers.  At each moment the runs of a client  *)
(* are in order along its requests: those answered, those whose answer      *)
(* waits at the client, those that wait at the server, those to come.       *)

\* The runs of client c that the packets of a queue are about.
QueuedRuns(q, c) == {q[i].req.run : i \in {k \in DOMAIN q : q[k].req.client = c}}

Rising(q, c) ==
    \A i, j \in DOMAIN q :
        i < j /\ q[i].req.client = c /\ q[j].req.client = c => q[i].req.run < q[j].req.run

Below(A, B) == \A a \in A, b \in B : a < b

Took(rs)     == {i \in DOMAIN rs : rs[i].got # None}
TookRuns(rs) == {rs[i].got.req.run : i \in Took(rs)}

\* q waits at client c, s at the server, rs are the results of c, which has sent
\* so many requests.
InOrder(q, s, rs, sent, c) ==
    /\ Rising(q, c) /\ Rising(s, c)
    /\ Below(QueuedRuns(q, c), QueuedRuns(s, c))
    /\ Below(TookRuns(rs), QueuedRuns(q, c) \cup QueuedRuns(s, c))
    /\ \A r \in QueuedRuns(q, c) \cup QueuedRuns(s, c) : r <= sent
    /\ \A i \in Took(rs) : /\ rs[i].got.req.run <= i
                           /\ \A j \in Took(rs) :
                                j < i => rs[j].got.req.run < rs[i].got.req.run

Sent(c) == Len(results[c]) + (IF pc[c] = "wait" THEN 1 ELSE 0)

Order(c) == InOrder(rx[c], rx[Server], results[c], Sent(c), c)

---------------------------------------------------------------------------
(* Queues that lose what is first, or get one packet more.                 *)

\* Runs are numbers.
LEMMA RunsAreNat ==
    ASSUME NEW q \in Seq(Packet), NEW c
    PROVE  QueuedRuns(q, c) \subseteq Nat
<1>1. \A i \in DOMAIN q : q[i] \in Packet
  BY LenProperties
<1>2. \A p \in Packet : p.req.run \in Nat
  BY DEF Packet, Request
<1>3. QED
  BY <1>1, <1>2 DEF QueuedRuns

\* An empty queue is about no run.
LEMMA EmptyRuns ==
    ASSUME NEW c
    PROVE  QueuedRuns(<<>>, c) = {} /\ Rising(<<>>, c)
BY DEF QueuedRuns, Rising

\* What is left when the first n packets are gone is in order, and after the first.
LEMMA DropRuns ==
    ASSUME NEW q \in Seq(Packet), NEW n \in 0 .. Len(q), NEW c, Rising(q, c)
    PROVE  LET t == SubSeq(q, n + 1, Len(q)) IN
           /\ QueuedRuns(t, c) \subseteq QueuedRuns(q, c) /\ Rising(t, c)
           /\ n >= 1 /\ q[1].req.client = c => Below({q[1].req.run}, QueuedRuns(t, c))
<1> DEFINE t == SubSeq(q, n + 1, Len(q))
<1>1. /\ t \in Seq(Packet) /\ Len(t) = Len(q) - n
      /\ \A i \in 1 .. Len(q) - n : t[i] = q[i + n]
  BY Dropped
<1>2. Len(q) \in Nat /\ DOMAIN q = 1 .. Len(q)
  BY LenProperties
<1> HIDE DEF t
<1>3. DOMAIN t = 1 .. Len(q) - n
  BY <1>1, LenProperties
<1>4. \A i \in DOMAIN t : i \in Nat /\ i + n \in DOMAIN q /\ t[i] = q[i + n]
  BY <1>1, <1>2, <1>3
<1>5. QueuedRuns(t, c) \subseteq QueuedRuns(q, c)
  BY <1>4 DEF QueuedRuns
<1>6. Rising(t, c)
  <2> SUFFICES ASSUME NEW i \in DOMAIN t, NEW j \in DOMAIN t, i < j,
                      t[i].req.client = c, t[j].req.client = c
               PROVE  t[i].req.run < t[j].req.run
    BY DEF Rising
  <2>1. i + n < j + n
    BY <1>4
  <2>2. QED
    BY <1>4, <2>1 DEF Rising
<1>7. ASSUME n >= 1, q[1].req.client = c, NEW i \in DOMAIN t, t[i].req.client = c
      PROVE  q[1].req.run < t[i].req.run
  <2>1. 1 < i + n /\ 1 \in DOMAIN q
    BY <1>2, <1>3, <1>7
  <2>2. QED
    BY <1>4, <1>7, <2>1 DEF Rising
<1>8. QED
  BY <1>5, <1>6, <1>7 DEF t, Below, QueuedRuns

\* One packet more: of another client, it changes nothing; of this one, it must
\* come after all.
LEMMA AppendRuns ==
    ASSUME NEW q \in Seq(Packet), NEW p \in Packet, NEW c, Rising(q, c)
    PROVE  LET t == Append(q, p) IN
           /\ p.req.client # c => QueuedRuns(t, c) = QueuedRuns(q, c) /\ Rising(t, c)
           /\ p.req.client = c =>
                 /\ QueuedRuns(t, c) = QueuedRuns(q, c) \cup {p.req.run}
                 /\ Below(QueuedRuns(q, c), {p.req.run}) => Rising(t, c)
<1> DEFINE t == Append(q, p)
<1>1. /\ t \in Seq(Packet) /\ Len(t) = Len(q) + 1 /\ t[Len(q) + 1] = p
      /\ \A i \in 1 .. Len(q) : t[i] = q[i]
  BY AppendProperties
<1>2. Len(q) \in Nat /\ DOMAIN q = 1 .. Len(q)
  BY LenProperties
<1> HIDE DEF t
<1> DEFINE last == Len(q) + 1
<1>3. DOMAIN t = 1 .. last
  BY <1>1, LenProperties
<1>4. /\ DOMAIN t = DOMAIN q \cup {last} /\ last \notin DOMAIN q
      /\ \A i \in DOMAIN q : i \in Nat /\ i < last
      /\ t[last] = p /\ \A i \in DOMAIN q : t[i] = q[i]
      /\ last \in Nat
  BY <1>1, <1>2, <1>3
<1> HIDE DEF last
<1>5. /\ p.req.client # c => QueuedRuns(t, c) = QueuedRuns(q, c)
      /\ p.req.client = c => QueuedRuns(t, c) = QueuedRuns(q, c) \cup {p.req.run}
  BY <1>4 DEF QueuedRuns
<1>6. ASSUME p.req.client = c => Below(QueuedRuns(q, c), {p.req.run})
      PROVE  Rising(t, c)
  <2> SUFFICES ASSUME NEW i \in DOMAIN t, NEW j \in DOMAIN t, i < j,
                      t[i].req.client = c, t[j].req.client = c
               PROVE  t[i].req.run < t[j].req.run
    BY DEF Rising
  <2>1. i \in DOMAIN q /\ t[i] = q[i]
    BY <1>4
  <2>2. CASE j = last
    <3>1. q[i].req.run \in QueuedRuns(q, c)
      BY <2>1 DEF QueuedRuns
    <3>2. p.req.client = c /\ t[j] = p
      BY <1>4, <2>2
    <3>3. QED
      BY <1>6, <2>1, <3>1, <3>2 DEF Below
  <2>3. CASE j # last
    <3>1. j \in DOMAIN q /\ t[j] = q[j]
      BY <1>4, <2>3
    <3>2. QED
      BY <2>1, <3>1 DEF Rising
  <2>4. QED
    BY <2>2, <2>3
<1>7. QED
  BY <1>5, <1>6 DEF t

---------------------------------------------------------------------------
(* What keeps the order.                                                   *)

\* Packets are lost.
LEMMA InOrderFewer ==
    ASSUME NEW q, NEW s, NEW q2, NEW s2, NEW rs, NEW c, NEW sent \in Nat,
           NEW sent2 \in Nat, sent <= sent2, InOrder(q, s, rs, sent, c),
           QueuedRuns(q, c) \subseteq Nat, QueuedRuns(s, c) \subseteq Nat,
           QueuedRuns(q2, c) \subseteq QueuedRuns(q, c), Rising(q2, c),
           QueuedRuns(s2, c) \subseteq QueuedRuns(s, c), Rising(s2, c)
    PROVE  InOrder(q2, s2, rs, sent2, c)
<1>1. \A r \in QueuedRuns(q2, c) \cup QueuedRuns(s2, c) : r <= sent2
  <2> SUFFICES ASSUME NEW r \in QueuedRuns(q2, c) \cup QueuedRuns(s2, c)
               PROVE  r <= sent2
    OBVIOUS
  <2>1. r \in Nat /\ r <= sent
    BY DEF InOrder
  <2>2. QED
    BY <2>1
<1>2. QED
  BY <1>1 DEF InOrder, Below

\* The client asks.
LEMMA InOrderAsked ==
    ASSUME NEW q \in Seq(Packet), NEW s \in Seq(Packet), NEW rs, NEW c,
           NEW sent \in Nat, InOrder(q, s, rs, sent, c), NEW p \in Packet,
           p.req.client = c, p.req.run = sent + 1,
           TookRuns(rs) \subseteq Nat, \A r \in TookRuns(rs) : r <= sent
    PROVE  InOrder(q, Append(s, p), rs, sent + 1, c)
<1> DEFINE Q == QueuedRuns(q, c)
           S == QueuedRuns(s, c)
           T == TookRuns(rs)
           t == Append(s, p)
<1>1. Q \subseteq Nat /\ S \subseteq Nat
  BY RunsAreNat
<1>2. /\ Rising(q, c) /\ Rising(s, c) /\ Below(Q, S) /\ Below(T, Q \cup S)
      /\ \A r \in Q \cup S : r <= sent
  BY DEF InOrder
<1>3. /\ QueuedRuns(t, c) = S \cup {sent + 1}
      /\ Below(S, {sent + 1}) => Rising(t, c)
  <2>1. Rising(s, c)
    BY <1>2
  <2>2. /\ QueuedRuns(t, c) = S \cup {p.req.run}
        /\ Below(S, {p.req.run}) => Rising(t, c)
    BY <2>1, AppendRuns
  <2>3. QED
    BY <2>2
<1> HIDE DEF Q, S, T, t
<1>4. \A r \in Q \cup S \cup T : r < sent + 1
  <2>1. \A r \in Q \cup S \cup T : r \in Nat /\ r <= sent
    BY <1>1, <1>2 DEF T
  <2>2. QED
    BY <2>1
<1>5. Below(S, {sent + 1})
  BY <1>4 DEF Below
<1>6. Below(Q, S \cup {sent + 1}) /\ Below(T, Q \cup (S \cup {sent + 1}))
  BY <1>2, <1>4 DEF Below
<1>7. \A r \in Q \cup (S \cup {sent + 1}) : r <= sent + 1
  <2>1. \A r \in Q \cup S : r \in Nat /\ r <= sent
    BY <1>1, <1>2
  <2>2. QED
    BY <2>1
<1>8. InOrder(q, t, rs, sent + 1, c)
  BY <1>2, <1>3, <1>5, <1>6, <1>7 DEF InOrder, Q, T
<1>9. QED
  BY <1>8 DEF t

\* The server answers what is first, and may lose what is next.
LEMMA InOrderEchoed ==
    ASSUME NEW q \in Seq(Packet), NEW s \in Seq(Packet), NEW rs, NEW c,
           NEW sent, InOrder(q, s, rs, sent, c), NEW p \in Packet,
           NEW m \in 1 .. Len(s), s[1].req.client = c, p.req = s[1].req
    PROVE  InOrder(Append(q, p), SubSeq(s, m + 1, Len(s)), rs, sent, c)
<1> DEFINE Q  == QueuedRuns(q, c)
           S  == QueuedRuns(s, c)
           t  == SubSeq(s, m + 1, Len(s))
           R  == QueuedRuns(t, c)
           T  == TookRuns(rs)
           a  == s[1].req.run
           q2 == Append(q, p)
<1>1. /\ Rising(q, c) /\ Rising(s, c) /\ Below(Q, S) /\ Below(T, Q \cup S)
      /\ \A r \in Q \cup S : r <= sent
  BY DEF InOrder
<1>2. a \in S
  <2>1. 1 \in DOMAIN s
    BY LenProperties
  <2>2. QED
    BY <2>1 DEF QueuedRuns
<1>3. R \subseteq S /\ Rising(t, c) /\ Below({a}, R)
  <2>1. m \in 0 .. Len(s) /\ m >= 1
    OBVIOUS
  <2>2. QED
    BY <1>1, <2>1, DropRuns
<1>4. /\ QueuedRuns(q2, c) = Q \cup {a}
      /\ Below(Q, {a}) => Rising(q2, c)
  <2>1. Rising(q, c) /\ p.req.client = c
    BY <1>1
  <2>2. /\ QueuedRuns(q2, c) = Q \cup {p.req.run}
        /\ Below(Q, {p.req.run}) => Rising(q2, c)
    BY <2>1, AppendRuns
  <2>3. QED
    BY <2>2
<1> HIDE DEF Q, S, T, R, q2, t, a
<1>5. Below(Q, {a}) /\ Below(Q \cup {a}, R) /\ Below(T, (Q \cup {a}) \cup R)
  BY <1>1, <1>2, <1>3 DEF Below
<1>6. \A r \in (Q \cup {a}) \cup R : r <= sent
  BY <1>1, <1>2, <1>3
<1>7. InOrder(q2, t, rs, sent, c)
  BY <1>3, <1>4, <1>5, <1>6 DEF InOrder, R, T
<1>8. QED
  BY <1>7 DEF q2, t

\* One result more.
LEMMA OneMoreTook ==
    ASSUME NEW rs \in Seq(Result), NEW r \in Result
    PROVE  LET t == Append(rs, r)  n == Len(rs) + 1 IN
           /\ Took(t) = IF r.got # None THEN Took(rs) \cup {n} ELSE Took(rs)
           /\ \A i \in Took(rs) : i \in Nat /\ i < n /\ t[i] = rs[i]
           /\ t[n] = r /\ n \in Nat
<1> DEFINE t == Append(rs, r)
           n == Len(rs) + 1
<1>1. /\ t \in Seq(Result) /\ Len(t) = n /\ t[n] = r
      /\ \A i \in 1 .. Len(rs) : t[i] = rs[i]
  BY AppendProperties
<1>2. Len(rs) \in Nat /\ DOMAIN rs = 1 .. Len(rs)
  BY LenProperties
<1> HIDE DEF t
<1>3. DOMAIN t = 1 .. n
  BY <1>1, LenProperties
<1>4. /\ DOMAIN t = DOMAIN rs \cup {n} /\ n \notin DOMAIN rs /\ n \in Nat
      /\ \A i \in DOMAIN rs : i \in Nat /\ i < n /\ t[i] = rs[i]
  BY <1>1, <1>2, <1>3
<1> HIDE DEF n
<1>5. QED
  BY <1>1, <1>4 DEF Took, t, n

\* A run ends without a packet.
LEMMA InOrderNothing ==
    ASSUME NEW q \in Seq(Packet), NEW s \in Seq(Packet), NEW rs \in Seq(Result), NEW c,
           NEW sent \in Nat, NEW sent2 \in Nat, sent <= sent2,
           InOrder(q, s, rs, sent, c), NEW r \in Result, r.got = None
    PROVE  InOrder(<<>>, s, Append(rs, r), sent2, c)
<1> DEFINE t == Append(rs, r)
<1>1. InOrder(<<>>, s, rs, sent2, c)
  <2>1. Rising(s, c)
    BY DEF InOrder
  <2>2. QED
    BY <2>1, EmptyRuns, RunsAreNat, InOrderFewer
<1>2. /\ Took(t) = Took(rs)
      /\ \A i \in Took(rs) : t[i] = rs[i]
  BY OneMoreTook
<1> HIDE DEF t
<1>3. TookRuns(t) = TookRuns(rs)
  BY <1>2 DEF TookRuns
<1>4. InOrder(<<>>, s, t, sent2, c)
  BY <1>1, <1>2, <1>3 DEF InOrder
<1>5. QED
  BY <1>4 DEF t

\* A run ends with the packet that is first.
LEMMA InOrderTook ==
    ASSUME NEW q \in Seq(Packet), NEW s \in Seq(Packet), NEW rs \in Seq(Result), NEW c,
           q # <<>>, q[1].req.client = c, InOrder(q, s, rs, Len(rs) + 1, c),
           NEW r \in Result, r.got = q[1], r.got # None
    PROVE  InOrder(<<>>, s, Append(rs, r), Len(rs) + 1, c)
<1> DEFINE t == Append(rs, r)
           n == Len(rs) + 1
           Q == QueuedRuns(q, c)
           S == QueuedRuns(s, c)
           T == TookRuns(rs)
           a == q[1].req.run
<1>1. /\ Took(t) = Took(rs) \cup {n}
      /\ \A i \in Took(rs) : i \in Nat /\ i < n /\ t[i] = rs[i]
      /\ t[n] = r /\ n \in Nat
  BY OneMoreTook
<1>2. /\ Rising(s, c) /\ Below(Q, S) /\ Below(T, Q \cup S) /\ \A x \in Q \cup S : x <= n
      /\ \A i \in Took(rs) : /\ rs[i].got.req.run <= i
                             /\ \A j \in Took(rs) :
                                  j < i => rs[j].got.req.run < rs[i].got.req.run
  BY DEF InOrder
<1>3. a \in Q
  <2>1. 1 \in DOMAIN q
    BY LenProperties, EmptySeq
  <2>2. QED
    BY <2>1 DEF QueuedRuns
<1>4. t[n].got.req.run = a
  BY <1>1
<1> HIDE DEF t, n, Q, S, a
<1>5. \A i \in Took(rs) : rs[i].got.req.run \in T /\ rs[i].got.req.run < a
  BY <1>2, <1>3 DEF TookRuns, Below
<1>6. TookRuns(t) = T \cup {a}
  BY <1>1, <1>4 DEF TookRuns
<1> HIDE DEF T
<1>7. Below(T \cup {a}, {} \cup S) /\ Below({}, S) /\ \A x \in {} \cup S : x <= n
  BY <1>2, <1>3 DEF Below
<1>8. ASSUME NEW i \in Took(t)
      PROVE  /\ t[i].got.req.run <= i
             /\ \A j \in Took(t) : j < i => t[j].got.req.run < t[i].got.req.run
  <2>1. CASE i = n
    <3>1. t[i].got.req.run <= i
      BY <1>2, <1>3, <1>4, <2>1
    <3>2. ASSUME NEW j \in Took(t), j < i PROVE t[j].got.req.run < t[i].got.req.run
      <4>1. j # n
        BY <1>1, <2>1, <3>2
      <4>2. QED
        BY <1>1, <1>4, <1>5, <2>1, <4>1
    <3>3. QED
      BY <3>1, <3>2
  <2>2. CASE i # n
    <3>1. i \in Took(rs) /\ t[i] = rs[i]
      BY <1>1, <2>2
    <3>2. ASSUME NEW j \in Took(t), j < i PROVE j \in Took(rs) /\ t[j] = rs[j]
      BY <1>1, <3>1, <3>2
    <3>3. QED
      BY <1>2, <3>1, <3>2
  <2>3. QED
    BY <2>1, <2>2
<1>9. QueuedRuns(<<>>, c) = {} /\ Rising(<<>>, c)
  BY EmptyRuns
<1>10. InOrder(<<>>, s, t, n, c)
  BY <1>2, <1>6, <1>7, <1>8, <1>9 DEF InOrder, S
<1>11. QED
  BY <1>10 DEF t, n

---------------------------------------------------------------------------
(* The order is kept by the steps.                                         *)

\* The queues after a request was sent: that of the sender, of a client that
\* overhears nothing, and of the server.
LEMMA RequestQueues ==
    ASSUME Content, NEW c \in Clients, NEW d \in Clients, ~Overhears(layer, d),
           NEW n, NEW p, SendStep(c, n, p)
    PROVE  /\ rx'[c] = SubSeq(rx[c], n + 1, Len(rx[c])) /\ n \in 0 .. Len(rx[c])
           /\ d # c => rx'[d] = rx[d]
           /\ rx'[Server] = rx[Server] \/ rx'[Server] = Append(rx[Server], p)
<1> DEFINE t == SubSeq(rx[c], n + 1, Len(rx[c]))
           rest == [rx EXCEPT ![c] = t]
<1>1. Server \in Hosts /\ Server \notin Clients /\ Nobody \notin Hosts /\ Clients \subseteq Hosts
  BY HostsDiffer
<1>2. /\ rx \in [Hosts -> Seq(Packet)] /\ ifaces \subseteq Hosts
      /\ job[c].to \in {Server, Nobody}
  BY DEF Content, TypeOK, TasksFit, Task
<1>3. p.to = job[c].to /\ n \in 0 .. Len(rx[c]) /\ Sends(c, n, p)
  BY DEF SendStep, Posted
<1>4. PICK to \in SUBSET Readers(c, p) :
         rx' = [g \in Hosts |-> IF g \in to THEN Append(rest[g], p) ELSE rest[g]]
  BY <1>3 DEF Sends
<1>5. c \notin to /\ d \notin to
  BY <1>1, <1>2, <1>3, <1>4, ReadersAre DEF Content
<1> HIDE DEF t
<1>6. rest[c] = t /\ \A h \in Hosts : h # c => rest[h] = rx[h]
  BY <1>1, <1>2
<1> HIDE DEF rest
<1>7. rx'[c] = t /\ (d # c => rx'[d] = rx[d])
  BY <1>1, <1>4, <1>5, <1>6
<1>8. rx'[Server] = rx[Server] \/ rx'[Server] = Append(rx[Server], p)
  BY <1>1, <1>4, <1>6
<1>9. QED
  BY <1>3, <1>7, <1>8 DEF t

\* The queues after an answer: that of the server, of a client that overhears
\* nothing, and of the one that had asked.
LEMMA AnswerQueues ==
    ASSUME Content, NEW e \in Clients, ~Overhears(layer, e),
           NEW m, NEW n, NEW p, EchoStep(m, n, p)
    PROVE  LET d == rx[Server][1].req.client IN
           /\ p.req = rx[Server][1].req
           /\ rx'[Server] = SubSeq(rx[Server], m + 1, Len(rx[Server]))
           /\ e # d => rx'[e] = rx[e]
           /\ rx'[d] = rx[d] \/ rx'[d] = Append(rx[d], p)
<1> DEFINE a == rx[Server][1]
           d == a.req.client
           t == SubSeq(rx[Server], m + 1, Len(rx[Server]))
           rest == [rx EXCEPT ![Server] = t]
<1>1. Server \in Hosts /\ Server \notin Clients /\ Clients \subseteq Hosts
  BY HostsDiffer
<1>2. rx \in [Hosts -> Seq(Packet)] /\ ifaces \subseteq Hosts
  BY DEF Content, TypeOK
<1>3. a = Asked /\ rx[Server] # <<>> /\ m \in 1 .. Len(rx[Server])
  BY DEF EchoStep, Asked
<1>4. a \in Mail(layer, Server)
  <2>1. rx[Server] \in Seq(Packet)
    BY <1>1, <1>2
  <2>2. 1 \in DOMAIN rx[Server]
    BY <1>3, <2>1, LenProperties, EmptySeq
  <2>3. QED
    BY <1>1, <2>2 DEF Content, MailFits
<1>5. a.from = d /\ d \in Clients
  BY <1>4 DEF Mail, Packet, Request
<1>6. p.to = d /\ p.req = a.req /\ Sends(Server, m, p)
  BY <1>3, <1>5 DEF EchoStep, Posted
<1>7. PICK to \in SUBSET Readers(Server, p) :
         rx' = [g \in Hosts |-> IF g \in to THEN Append(rest[g], p) ELSE rest[g]]
  BY <1>6 DEF Sends
<1>8. Server \notin to /\ (e # d => e \notin to)
  BY <1>1, <1>6, <1>7, ReadersAre DEF Content
<1> HIDE DEF t
<1>9. rest[Server] = t /\ \A h \in Hosts : h # Server => rest[h] = rx[h]
  BY <1>1, <1>2
<1> HIDE DEF rest, d
<1>10. rx'[Server] = t /\ (e # d => rx'[e] = rx[e])
  BY <1>1, <1>5, <1>7, <1>8, <1>9
<1>11. rx'[d] = rx[d] \/ rx'[d] = Append(rx[d], p)
  BY <1>1, <1>5, <1>7, <1>9
<1>12. QED
  BY <1>6, <1>10, <1>11 DEF t, d

\* What the order says of one client, with the types it needs.
LEMMA OrderOf ==
    ASSUME Content, NEW c \in Clients, Order(c)
    PROVE  /\ rx[c] \in Seq(Packet) /\ rx[Server] \in Seq(Packet)
           /\ results[c] \in Seq(Result) /\ Len(results[c]) \in Nat /\ Sent(c) \in Nat
           /\ InOrder(rx[c], rx[Server], results[c], Sent(c), c)
           /\ Rising(rx[c], c) /\ Rising(rx[Server], c)
           /\ QueuedRuns(rx[c], c) \subseteq Nat /\ QueuedRuns(rx[Server], c) \subseteq Nat
<1>1. /\ rx[c] \in Seq(Packet) /\ rx[Server] \in Seq(Packet)
      /\ results[c] \in Seq(Result)
  BY HostsDiffer DEF Content, TypeOK
<1>2. Len(results[c]) \in Nat
  BY <1>1, LenProperties
<1>3. Sent(c) \in Nat
  <2>1. CASE pc[c] = "wait"
    BY <1>2, <2>1 DEF Sent
  <2>2. CASE pc[c] # "wait"
    BY <1>2, <2>2 DEF Sent
  <2>3. QED
    BY <2>1, <2>2
<1>4. InOrder(rx[c], rx[Server], results[c], Sent(c), c)
  BY DEF Order
<1>5. Rising(rx[c], c) /\ Rising(rx[Server], c)
  BY <1>4 DEF InOrder
<1>6. QED
  BY <1>1, <1>2, <1>3, <1>4, <1>5, RunsAreNat

\* A run ends: the packet it took, if any, was the first that waited.
LEMMA EndOrder ==
    ASSUME Content, NEW d \in Clients, Order(d), ~Overhears(layer, d),
           NEW c \in Clients, NEW kind, NEW value, NEW got, EndStep(c, kind, value, got)
    PROVE  Order(d)'
<1> SUFFICES InOrder(rx'[d], rx'[Server], results'[d], Sent(d)', d)
  BY DEF Order
<1> DEFINE r  == [kind |-> kind, value |-> value, got |-> got]
           rs == results[c]
<1>1. /\ results' = [results EXCEPT ![c] = Append(@, r)]
      /\ pc' = [pc EXCEPT ![c] = "off"] /\ rx' = [rx EXCEPT ![c] = <<>>]
      /\ r \in Outcome(layer, c)
      /\ got # None => pc[c] = "wait" /\ rx[c] # <<>> /\ got = Head(rx[c])
  BY DEF EndStep, ClientEnds
<1>2. /\ pc \in [Hosts -> {"off", "opened", "wait", "gone", "crashed"}]
      /\ rx \in [Hosts -> Seq(Packet)] /\ results \in [Clients -> Seq(Result)]
  BY DEF Content, TypeOK
<1>3. r \in Result /\ r.got = got /\ (got # None => got \in Mail(layer, c))
  BY <1>1 DEF Outcome
<1>4. c \in Hosts /\ d \in Hosts /\ Server \in Hosts /\ Server # c
  BY HostsDiffer
<1> HIDE DEF r
<1>5. rx'[Server] = rx[Server]
  BY <1>1, <1>2, <1>4
<1>6. CASE d # c
  <2>1. rx'[d] = rx[d] /\ results'[d] = results[d] /\ pc'[d] = pc[d]
    BY <1>1, <1>2, <1>4, <1>6
  <2>2. Sent(d)' = Sent(d)
    BY <2>1 DEF Sent
  <2>3. QED
    BY <1>5, <2>1, <2>2, OrderOf
<1>7. CASE d = c
  <2>1. rx'[c] = <<>> /\ results'[c] = Append(rs, r) /\ pc'[c] = "off"
    BY <1>1, <1>2, <1>4
  <2>2. /\ rx[c] \in Seq(Packet) /\ rx[Server] \in Seq(Packet)
        /\ rs \in Seq(Result) /\ Len(rs) \in Nat /\ Sent(c) \in Nat
        /\ InOrder(rx[c], rx[Server], rs, Sent(c), c)
    BY <1>7, OrderOf
  <2>3. Len(Append(rs, r)) = Len(rs) + 1
    BY <1>3, <2>2, AppendProperties
  <2>4. Sent(c)' = Len(rs) + 1 /\ Len(rs) + 1 \in Nat
    BY <2>1, <2>2, <2>3 DEF Sent
  <2>5. Sent(c) <= Len(rs) + 1
    BY <2>2 DEF Sent
  <2> HIDE DEF rs
  <2>6. CASE got = None
    <3>1. InOrder(<<>>, rx[Server], Append(rs, r), Len(rs) + 1, c)
      BY <1>3, <2>2, <2>4, <2>5, <2>6, InOrderNothing
    <3>2. QED
      BY <1>5, <1>7, <2>1, <2>4, <3>1
  <2>7. CASE got # None
    <3>0. Sent(c) = Len(rs) + 1
      BY <1>1, <2>7 DEF Sent, rs
    <3>1. rx[c] # <<>> /\ got = rx[c][1]
      <4>1. rx[c] # <<>> /\ got = Head(rx[c]) /\ rx[c] \in Seq(Packet)
        BY <1>1, <2>2, <2>7
      <4>2. QED
        BY <4>1
    <3>2. rx[c][1].req.client = c
      BY <1>3, <1>4, <1>7, <2>7, <3>1 DEF Mail
    <3>3. InOrder(<<>>, rx[Server], Append(rs, r), Len(rs) + 1, c)
      BY <1>3, <2>2, <2>7, <3>0, <3>1, <3>2, InOrderTook
    <3>4. QED
      BY <1>5, <1>7, <2>1, <2>4, <3>3
  <2>8. QED
    BY <2>6, <2>7
<1>8. QED
  BY <1>6, <1>7

\* A start changes neither queues nor results.
LEMMA OpenOrder ==
    ASSUME Content, NEW d \in Clients, Order(d),
           NEW c \in Clients, NEW to, NEW n, NEW addr, NEW asItself,
           OpenStep(c, to, n, addr, asItself)
    PROVE  Order(d)'
<1>1. /\ pc[c] = "off" /\ pc' = [pc EXCEPT ![c] = "opened"]
      /\ UNCHANGED <<rx, results>>
  BY DEF OpenStep, ClientOpens
<1>2. pc \in [Hosts -> {"off", "opened", "wait", "gone", "crashed"}]
  BY DEF Content, TypeOK
<1>3. Sent(d)' = Sent(d)
  BY <1>1, <1>2, HostsDiffer DEF Sent
<1>4. QED
  BY <1>1, <1>3 DEF Order

\* A request is queued behind all others, or lost.
LEMMA SendOrder ==
    ASSUME Content, NEW d \in Clients, Order(d), ~Overhears(layer, d),
           NEW c \in Clients, NEW n, NEW p, SendStep(c, n, p)
    PROVE  Order(d)'
<1> SUFFICES InOrder(rx'[d], rx'[Server], results'[d], Sent(d)', d)
  BY DEF Order
<1>1. /\ rx'[c] = SubSeq(rx[c], n + 1, Len(rx[c])) /\ n \in 0 .. Len(rx[c])
      /\ d # c => rx'[d] = rx[d]
      /\ rx'[Server] = rx[Server] \/ rx'[Server] = Append(rx[Server], p)
  BY RequestQueues
<1>2. /\ p \in Packet /\ p.req = ThisRequest(c) /\ pc[c] = "opened"
      /\ pc' = [pc EXCEPT ![c] = "wait"] /\ results' = results
  BY DEF SendStep, Posted, Waits
<1>3. p.req.client = c /\ p.req.run = Len(results[c]) + 1
  BY <1>2 DEF ThisRequest
<1>4. pc \in [Hosts -> {"off", "opened", "wait", "gone", "crashed"}] /\ c \in Hosts
  BY HostsDiffer DEF Content, TypeOK
<1>5. CASE d # c
  <2>1. /\ InOrder(rx[d], rx[Server], results[d], Sent(d), d) /\ Sent(d) \in Nat
        /\ Rising(rx[d], d) /\ Rising(rx[Server], d) /\ rx[Server] \in Seq(Packet)
        /\ QueuedRuns(rx[d], d) \subseteq Nat /\ QueuedRuns(rx[Server], d) \subseteq Nat
    BY OrderOf
  <2>2. /\ QueuedRuns(rx'[Server], d) = QueuedRuns(rx[Server], d)
        /\ Rising(rx'[Server], d)
    <3>1. CASE rx'[Server] = rx[Server]
      BY <2>1, <3>1
    <3>2. CASE rx'[Server] = Append(rx[Server], p)
      <4>1. p.req.client # d
        BY <1>3, <1>5
      <4>2. QED
        BY <1>2, <2>1, <3>2, <4>1, AppendRuns
    <3>3. QED
      BY <1>1, <3>1, <3>2
  <2>3. rx'[d] = rx[d] /\ results'[d] = results[d] /\ Sent(d)' = Sent(d)
    BY <1>1, <1>2, <1>4, <1>5, HostsDiffer DEF Sent
  <2>4. Sent(d) <= Sent(d)
    BY <2>1
  <2>5. InOrder(rx[d], rx'[Server], results[d], Sent(d), d)
    BY <2>1, <2>2, <2>4, InOrderFewer
  <2>6. QED
    BY <2>3, <2>5
<1>6. CASE d = c
  <2> DEFINE t == SubSeq(rx[c], n + 1, Len(rx[c]))
             s == rx[Server]
             rs == results[c]
             k == Len(rs)
  <2>1. /\ InOrder(rx[c], s, rs, Sent(c), c) /\ Sent(c) \in Nat
        /\ Rising(rx[c], c) /\ Rising(s, c) /\ rx[c] \in Seq(Packet) /\ s \in Seq(Packet)
        /\ QueuedRuns(rx[c], c) \subseteq Nat /\ QueuedRuns(s, c) \subseteq Nat
        /\ rs \in Seq(Result) /\ k \in Nat
    BY <1>6, OrderOf
  <2>2. Sent(c) = k /\ Sent(c)' = k + 1
    BY <1>2, <1>4, <2>1 DEF Sent
  <2>3. QueuedRuns(t, c) \subseteq QueuedRuns(rx[c], c) /\ Rising(t, c) /\ t \in Seq(Packet)
    BY <1>1, <2>1, DropRuns, Dropped
  <2>4. \A r \in TookRuns(rs) : r \in Nat /\ r <= k
    <3>1. ASSUME NEW i \in Took(rs)
          PROVE  rs[i].got.req.run \in Nat /\ rs[i].got.req.run <= k
      <4>1. i \in 1 .. k /\ i \in DOMAIN results[c] /\ rs[i].got # None
        BY <2>1, LenProperties DEF Took
      <4>2. results[c][i] \in Outcome(layer, c)
        BY <4>1 DEF Content, OutcomesFit
      <4>3. rs[i].got \in Packet
        BY <4>1, <4>2 DEF Outcome, Mail
      <4>4. rs[i].got.req.run \in Nat
        BY <4>3 DEF Packet, Request
      <4>5. rs[i].got.req.run <= i
        BY <2>1, <4>1 DEF InOrder
      <4>6. QED
        BY <2>1, <4>1, <4>4, <4>5
    <3>2. QED
      BY <3>1 DEF TookRuns
  <2> HIDE DEF t, s, rs, k
  <2>5. k <= k /\ k <= k + 1 /\ k + 1 \in Nat
    BY <2>1
  <2>6. CASE rx'[Server] = s
    <3>1. InOrder(t, s, rs, k + 1, c)
      BY <2>1, <2>2, <2>3, <2>5, InOrderFewer
    <3>2. QED
      BY <1>1, <1>2, <1>6, <2>2, <2>6, <3>1 DEF t, s, rs
  <2>7. CASE rx'[Server] = Append(s, p)
    <3>1. InOrder(t, s, rs, k, c)
      BY <2>1, <2>2, <2>3, <2>5, InOrderFewer
    <3>2. TookRuns(rs) \subseteq Nat /\ p.req.run = k + 1
      BY <1>3, <2>4 DEF k, rs
    <3>3. InOrder(t, Append(s, p), rs, k + 1, c)
      BY <1>2, <1>3, <2>1, <2>3, <2>4, <3>1, <3>2, InOrderAsked
    <3>4. QED
      BY <1>1, <1>2, <1>6, <2>2, <2>7, <3>3 DEF t, rs
  <2>8. QED
    BY <1>1, <2>6, <2>7 DEF s
<1>7. QED
  BY <1>5, <1>6

\* The first request leaves the server, its answer is queued or lost.
LEMMA EchoOrder ==
    ASSUME Content, NEW c \in Clients, Order(c), ~Overhears(layer, c),
           NEW m, NEW n, NEW p, EchoStep(m, n, p)
    PROVE  Order(c)'
<1> SUFFICES InOrder(rx'[c], rx'[Server], results'[c], Sent(c)', c)
  BY DEF Order
<1> DEFINE s == rx[Server]
           d == s[1].req.client
           t == SubSeq(s, m + 1, Len(s))
           k == Sent(c)
<1>1. /\ p.req = s[1].req /\ rx'[Server] = t
      /\ c # d => rx'[c] = rx[c]
      /\ c = d => rx'[c] = rx[c] \/ rx'[c] = Append(rx[c], p)
  BY AnswerQueues
<1>2. p \in Packet /\ m \in 1 .. Len(s) /\ results' = results /\ Sent(c)' = k
  BY DEF EchoStep, Posted, Sent
<1>3. /\ InOrder(rx[c], s, results[c], k, c) /\ k \in Nat
      /\ Rising(rx[c], c) /\ Rising(s, c) /\ rx[c] \in Seq(Packet) /\ s \in Seq(Packet)
      /\ QueuedRuns(rx[c], c) \subseteq Nat /\ QueuedRuns(s, c) \subseteq Nat
  BY OrderOf
<1> HIDE DEF s, k
<1>4. QueuedRuns(t, c) \subseteq QueuedRuns(s, c) /\ Rising(t, c)
  <2>1. m \in 0 .. Len(s)
    BY <1>2
  <2>2. QED
    BY <1>3, <2>1, DropRuns
<1>5. CASE rx'[c] = rx[c]
  <2>1. k <= k
    BY <1>3
  <2>2. InOrder(rx[c], t, results[c], k, c)
    BY <1>3, <1>4, <2>1, InOrderFewer
  <2>3. QED
    BY <1>1, <1>2, <1>5, <2>2
<1>6. CASE c = d /\ rx'[c] = Append(rx[c], p)
  <2>1. InOrder(Append(rx[c], p), t, results[c], k, c)
    BY <1>1, <1>2, <1>3, <1>6, InOrderEchoed
  <2>2. QED
    BY <1>1, <1>2, <1>6, <2>1
<1>7. QED
  BY <1>1, <1>5, <1>6

\* The server comes or goes, its queue with it.
LEMMA QuietOrder ==
    ASSUME Content, NEW c \in Clients, Order(c), QuietStep
    PROVE  Order(c)'
<1> SUFFICES InOrder(rx'[c], rx'[Server], results'[c], Sent(c)', c)
  BY DEF Order
<1> DEFINE s == rx[Server]
           k == Sent(c)
<1>1. /\ results' = results /\ Sent(c)' = k
      /\ rx' = rx \/ rx' = [rx EXCEPT ![Server] = <<>>]
  BY DEF QuietStep, Sent
<1>2. /\ InOrder(rx[c], s, results[c], k, c) /\ k \in Nat /\ Rising(rx[c], c)
      /\ QueuedRuns(rx[c], c) \subseteq Nat /\ QueuedRuns(s, c) \subseteq Nat
  BY OrderOf
<1> HIDE DEF k
<1>3. CASE rx' = rx
  BY <1>1, <1>2, <1>3
<1>4. CASE rx' = [rx EXCEPT ![Server] = <<>>]
  <2>1. rx \in [Hosts -> Seq(Packet)]
    BY DEF Content, TypeOK
  <2>2. rx'[c] = rx[c] /\ rx'[Server] = <<>>
    BY <1>4, <2>1, HostsDiffer
  <2>3. QueuedRuns(<<>>, c) = {} /\ Rising(<<>>, c) /\ k <= k
    BY <1>2, EmptyRuns
  <2> HIDE DEF s
  <2>4. InOrder(rx[c], <<>>, results[c], k, c)
    BY <1>2, <2>3, InOrderFewer
  <2>5. QED
    BY <1>1, <2>2, <2>4
<1>5. QED
  BY <1>1, <1>3, <1>4

LEMMA InitOrder ==
    ASSUME Init, NEW c \in Clients
    PROVE  Order(c)
<1> SUFFICES  InOrder(rx[c], rx[Server], results[c], Sent(c), c)
  BY DEF Order
<1>1. rx[c] = <<>> /\ rx[Server] = <<>> /\ results[c] = <<>>
  BY HostsDiffer DEF Init
<1>2. Took(<<>>) = {} /\ QueuedRuns(<<>>, c) = {} /\ Rising(<<>>, c)
  BY EmptyRuns DEF Took
<1>3. TookRuns(<<>>) = {}
  BY <1>2 DEF TookRuns
<1>4. QED
  BY <1>1, <1>2, <1>3 DEF InOrder, Below

\* The layer is chosen once.
LEMMA SameLayer ==
    ASSUME Content, [Next]_vars
    PROVE  layer' = layer
<1>1. CASE UNCHANGED vars
  BY <1>1 DEF vars
<1>2. CASE Next
  <2>1. Moves
    BY <1>2, NextMoves
  <2>2. QED
    BY <2>1 DEF Moves, EndStep, OpenStep, SendStep, EchoStep, QuietStep, ClientEnds,
                ClientOpens, Waits
<1>3. QED
  BY <1>1, <1>2

\* The order of every client that overhears nothing.
Ordered == \A c \in Clients : ~Overhears(layer, c) => Order(c)

LEMMA NextOrder == Content /\ Ordered /\ [Next]_vars => Ordered'
<1> SUFFICES ASSUME Content, Ordered, [Next]_vars, NEW d \in Clients,
                    ~Overhears(layer, d)'
             PROVE  Order(d)'
  BY DEF Ordered
<1>0. Order(d) /\ ~Overhears(layer, d)
  BY SameLayer DEF Ordered, Overhears
<1>1. CASE UNCHANGED vars
  BY <1>0, <1>1 DEF vars, Order, Sent
<1>2. CASE Next
  <2>1. Moves
    BY <1>2, NextMoves
  <2>2. QED
    BY <1>0, <2>1, EndOrder, OpenOrder, SendOrder, EchoOrder, QuietOrder DEF Moves
<1>3. QED
  BY <1>1, <1>2

\* No client takes a packet that is the answer to another's request, to one it has
\* not made yet, or to one whose answer it had, however late the packets come and
\* whichever are lost (udp_client.c:125, ipv4_client.c:111, eth_client.c:112): by IP and
\* UDP always; by Ethernet and ARP if no card's address but its own begins with an
\* octet that is not 0, since the test of eth.c:288 lets in the frames for others.
THEOREM AnswersInOrder == Spec => []AnswersOwnRequests
<1>1. Content /\ Ordered => AnswersOwnRequests
  <2> SUFFICES ASSUME Content, NEW c \in Clients, Order(c), ~Overhears(layer, c),
                      NEW i \in Got(c)
               PROVE  LET req == results[c][i].got.req IN
                      /\ req.client = c /\ req.run <= i
                      /\ \A j \in Got(c) : j < i => results[c][j].got.req.run < req.run
    BY DEF AnswersOwnRequests, Ordered, Overhears
  <2>1. results[c][i] \in Outcome(layer, c) /\ results[c][i].got # None
    BY DEF Got, Content, OutcomesFit
  <2>2. results[c][i].got.req.client = c
    BY <2>1, HostsDiffer DEF Outcome, Mail
  <2>3. Got(c) = Took(results[c])
    BY DEF Got, Took
  <2>4. QED
    BY <2>2, <2>3 DEF Order, InOrder
<1>2. QED
  <2>1. Init => Ordered
    BY InitOrder DEF Ordered
  <2>2. QED
    BY <1>1, <2>1, InitContent, NextContent, NextOrder, PTL DEF Spec
=============================================================================
