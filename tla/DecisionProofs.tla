--------------------------- MODULE DecisionProofs ---------------------------
(***************************************************************************)
(* Theorems about decisions, most of which go through a sequence, for      *)
(* sequences of any length.  TLC evaluates the same operators on the small *)
(* inputs of module MCDecisions, which this module extends.                *)
(*                                                                         *)
(* A loop is a recursive function on the positions of a sequence.  That    *)
(* there is one such function, and what it gives, are inductions, done by  *)
(* the least counterexample (LeastNumber).                                 *)
(***************************************************************************)
EXTENDS MCDecisions, FiniteSetTheorems, SequenceTheorems, WellFoundedInduction, TLAPS

-----------------------------------------------------------------------------
(* Loops *)

LEMMA LeastNumber ==
    ASSUME NEW T \in SUBSET Nat, T # {}
    PROVE  \E x \in T : \A y \in T : x <= y
<1>1. \E x \in T : \A y \in T : ~(<<y, x>> \in OpToRel(<, Nat))
    BY NatLessThanWellFounded, WFMin
<1>2. \A x, y \in Nat : <<y, x>> \in OpToRel(<, Nat) <=> y < x
    BY Zenon DEF OpToRel
<1>3. \E x \in T : \A y \in T : ~(y < x)
    BY <1>1, <1>2, Zenon
<1>4. QED BY <1>3

\* Induction up to L, for a set of positions.
LEMMA UpTo ==
    ASSUME NEW L \in Nat, NEW T, 0 \in T, \A n \in 1..L : n - 1 \in T => n \in T
    PROVE  0..L \subseteq T
<1> DEFINE bad == (0..L) \ T
<1>1. SUFFICES ASSUME bad # {} PROVE FALSE
    OBVIOUS
<1>2. PICK k \in bad : \A j \in bad : k <= j
    <2>1. bad \in SUBSET Nat
        OBVIOUS
    <2> HIDE DEF bad
    <2>2. QED BY <1>1, <2>1, LeastNumber
<1>3. k \in 1..L /\ k - 1 \in 0..L /\ k - 1 \notin bad
    BY <1>2
<1>4. QED BY <1>3

\* f is what a loop from `base` computes in k turns, the n-th of which is step[_, n].
Loops(f, base, step, k) ==
    f[0] = base /\ \A n \in 1..k : f[n] = step[<<f[n - 1], n>>]

LEMMA LoopExists ==
    ASSUME NEW S, NEW base \in S, NEW L \in Nat, NEW step \in [S \X (1..L) -> S]
    PROVE  \E f \in [0..L -> S] : Loops(f, base, step, L)
<1> DEFINE T == {k \in 0..L : \E f \in [0..k -> S] : Loops(f, base, step, k)}
<1>1. 0 \in T
    <2>1. [n \in 0..0 |-> base] \in [0..0 -> S] /\ Loops([n \in 0..0 |-> base], base, step, 0)
        BY DEF Loops
    <2>2. QED BY <2>1
<1>2. ASSUME NEW k \in 1..L, k - 1 \in T PROVE k \in T
    <2>1. PICK f \in [0..(k - 1) -> S] : Loops(f, base, step, k - 1)
        BY <1>2
    <2> DEFINE g == [n \in 0..k |-> IF n = k THEN step[<<f[k - 1], k>>] ELSE f[n]]
    <2>2. f[k - 1] \in S /\ step[<<f[k - 1], k>>] \in S
        BY <2>1
    <2>3. g \in [0..k -> S]
        BY <2>1, <2>2
    <2>4. g[0] = base
        BY <2>1 DEF Loops
    <2>5. ASSUME NEW n \in 1..k PROVE g[n] = step[<<g[n - 1], n>>]
        <3>1. n - 1 \in 0..k - 1 /\ n - 1 # k /\ n \in 0..k
            OBVIOUS
        <3>2. g[n - 1] = f[n - 1]
            BY <3>1
        <3>3. n # k => n \in 1..k - 1 /\ g[n] = f[n]
            OBVIOUS
        <3>4. n = k => g[n] = step[<<f[n - 1], n>>]
            BY <3>1
        <3>5. n # k => f[n] = step[<<f[n - 1], n>>]
            BY <2>1, <3>3 DEF Loops
        <3> HIDE DEF g
        <3>6. QED BY <3>2, <3>3, <3>4, <3>5
    <2>6. Loops(g, base, step, k)
        BY <2>4, <2>5 DEF Loops
    <2> HIDE DEF g
    <2>7. QED BY <2>3, <2>6
<1>3. L \in T
    <2> HIDE DEF T
    <2>1. QED BY <1>1, <1>2, UpTo
<1>4. QED BY <1>3

-----------------------------------------------------------------------------
(* A body read under a cap *)

Readings == [error : {"none", "over"}, buffered : Nat, observed : Nat]

\* The partial sums of the chunks.
Sums(sum, chunks) ==
    /\ sum \in [0..Len(chunks) -> Nat]
    /\ sum[0] = 0
    /\ \A n \in 1..Len(chunks) : sum[n] = sum[n - 1] + chunks[n]

LEMMA ChunksAreNumbers ==
    ASSUME NEW chunks \in Seq(Nat)
    PROVE  Len(chunks) \in Nat /\ \A n \in 1..Len(chunks) : chunks[n] \in Nat
OBVIOUS

LEMMA SumsExist ==
    ASSUME NEW chunks \in Seq(Nat)
    PROVE  \E sum : Sums(sum, chunks)
<1> DEFINE L == Len(chunks)
           step == [p \in Nat \X (1..L) |-> p[1] + chunks[p[2]]]
<1>1. L \in Nat /\ \A n \in 1..L : chunks[n] \in Nat
    BY ChunksAreNumbers
<1> HIDE DEF L
<1>2. step \in [Nat \X (1..L) -> Nat]
    BY <1>1
<1>3. \A t \in Nat, n \in 1..L : step[<<t, n>>] = t + chunks[n]
    OBVIOUS
<1> HIDE DEF step
<1>4. PICK f \in [0..L -> Nat] : Loops(f, 0, step, L)
    BY <1>1, <1>2, LoopExists
<1>5. ASSUME NEW n \in 1..L PROVE f[n] = f[n - 1] + chunks[n]
    <2>1. n - 1 \in 0..L
        BY <1>1
    <2>2. f[n - 1] \in Nat /\ f[n] = step[<<f[n - 1], n>>]
        BY <1>4, <2>1 DEF Loops
    <2>3. QED BY <1>3, <2>2
<1>6. QED BY <1>4, <1>5 DEF Sums, Loops, L

\* Total is the last of them, and each is the Total of the chunks so far.
LEMMA TotalAdds ==
    ASSUME NEW chunks \in Seq(Nat), NEW sum, Sums(sum, chunks)
    PROVE  Total(chunks) = sum[Len(chunks)]
<1> DEFINE L == Len(chunks)
           IsIt(f) == f = [n \in 0..L |-> IF n = 0 THEN 0 ELSE f[n - 1] + chunks[n]]
           F == CHOOSE f : IsIt(f)
           T == {n \in 0..L : F[n] = sum[n]}
<1>1. L \in Nat
    OBVIOUS
<1>2. IsIt(sum)
    BY <1>1 DEF Sums
<1>3. IsIt(F)
    <2> HIDE DEF IsIt
    <2>1. QED BY <1>2
<1>4. Total(chunks) = F[L]
    BY Zenon DEF Total
<1>5. F[0] = 0 /\ \A n \in 1..L : F[n] = F[n - 1] + chunks[n]
    <2>1. F = [n \in 0..L |-> IF n = 0 THEN 0 ELSE F[n - 1] + chunks[n]]
        BY <1>3
    <2> HIDE DEF F, L
    <2>2. QED BY <1>1, <2>1
<1> HIDE DEF F
<1>6. 0 \in T /\ \A n \in 1..L : n - 1 \in T => n \in T
    BY <1>1, <1>5 DEF Sums
<1>7. L \in T
    <2> HIDE DEF T
    <2>1. 0..L \subseteq T
        BY <1>1, <1>6, UpTo, Zenon
    <2>2. QED BY <1>1, <2>1
<1>8. QED BY <1>4, <1>7

LEMMA TotalOfPrefix ==
    ASSUME NEW chunks \in Seq(Nat), NEW sum, Sums(sum, chunks), NEW m \in 0..Len(chunks)
    PROVE  Total(SubSeq(chunks, 1, m)) = sum[m]
<1> DEFINE part == SubSeq(chunks, 1, m)
           begun == [n \in 0..m |-> sum[n]]
<1>1. part \in Seq(Nat) /\ Len(part) = m /\ \A n \in 1..m : part[n] = chunks[n]
    OBVIOUS
<1>2. Sums(begun, part)
    <2>1. m \in Nat /\ m <= Len(chunks)
        OBVIOUS
    <2>2. begun \in [0..m -> Nat] /\ begun[0] = 0
        BY <2>1 DEF Sums
    <2>3. ASSUME NEW n \in 1..m PROVE begun[n] = begun[n - 1] + part[n]
        <3>1. n \in 1..Len(chunks) /\ n - 1 \in 0..m /\ n \in 0..m
            BY <2>1
        <3>2. begun[n - 1] = sum[n - 1] /\ begun[n] = sum[n]
            BY <3>1
        <3>3. QED BY <1>1, <3>1, <3>2 DEF Sums
    <2> HIDE DEF begun, part
    <2>4. QED BY <1>1, <2>2, <2>3 DEF Sums
<1>3. begun[m] = sum[m]
    OBVIOUS
<1> HIDE DEF part, begun
<1>4. QED BY <1>1, <1>2, <1>3, TotalAdds DEF part


\* The readings after each chunk.
Reads(r, chunks, cap) ==
    /\ r \in [0..Len(chunks) -> Readings]
    /\ r[0] = Reading
    /\ \A n \in 1..Len(chunks) : r[n] = Take(r[n - 1], chunks[n], cap)

LEMMA TakeReads ==
    ASSUME NEW reading \in Readings, NEW chunk \in Nat, NEW cap \in Nat
    PROVE  Take(reading, chunk, cap) \in Readings
<1> DEFINE observed == reading.buffered + chunk
           over == [reading EXCEPT !.error = "over"]
<1>1. observed \in Nat
    BY DEF Readings
<1>2. over \in Readings
    BY DEF Readings
<1>3. [over EXCEPT !.observed = observed] \in Readings
    <2> HIDE DEF over, observed
    <2>1. QED BY <1>1, <1>2 DEF Readings
<1>4. [reading EXCEPT !.buffered = observed] \in Readings
    <2> HIDE DEF observed
    <2>1. QED BY <1>1 DEF Readings
<1>5. \/ Take(reading, chunk, cap) = reading
      \/ Take(reading, chunk, cap) = [over EXCEPT !.observed = observed]
      \/ Take(reading, chunk, cap) = [reading EXCEPT !.buffered = observed]
    BY Zenon DEF Take
<1>6. QED BY <1>3, <1>4, <1>5, Zenon

LEMMA ReadsExist ==
    ASSUME NEW chunks \in Seq(Nat), NEW cap \in Nat
    PROVE  \E r : Reads(r, chunks, cap)
<1> DEFINE L == Len(chunks)
           step == [p \in Readings \X (1..L) |-> Take(p[1], chunks[p[2]], cap)]
<1>1. L \in Nat /\ \A n \in 1..L : chunks[n] \in Nat
    BY ChunksAreNumbers
<1> HIDE DEF L
<1>2. step \in [Readings \X (1..L) -> Readings]
    BY <1>1, TakeReads
<1>3. \A r \in Readings, n \in 1..L : step[<<r, n>>] = Take(r, chunks[n], cap)
    OBVIOUS
<1> HIDE DEF step
<1>4. Reading \in Readings
    BY DEF Reading, Readings
<1>5. PICK f \in [0..L -> Readings] : Loops(f, Reading, step, L)
    BY <1>1, <1>2, <1>4, LoopExists
<1>6. ASSUME NEW n \in 1..L PROVE f[n] = Take(f[n - 1], chunks[n], cap)
    <2>1. n - 1 \in 0..L
        BY <1>1
    <2>2. f[n - 1] \in Readings /\ f[n] = step[<<f[n - 1], n>>]
        BY <1>5, <2>1 DEF Loops
    <2>3. QED BY <1>3, <2>2
<1>7. QED BY <1>5, <1>6 DEF Reads, Loops, L

LEMMA ReadAllReads ==
    ASSUME NEW chunks \in Seq(Nat), NEW cap \in Nat, NEW r, Reads(r, chunks, cap)
    PROVE  ReadAll(chunks, cap) = r[Len(chunks)]
<1> DEFINE L == Len(chunks)
           IsIt(f) == f = [n \in 0..L |-> IF n = 0 THEN Reading ELSE Take(f[n - 1], chunks[n], cap)]
           F == CHOOSE f : IsIt(f)
           T == {n \in 0..L : F[n] = r[n]}
<1>1. L \in Nat
    OBVIOUS
<1>2. IsIt(r)
    BY <1>1 DEF Reads
<1>3. IsIt(F)
    <2> HIDE DEF IsIt
    <2>1. QED BY <1>2
<1>4. ReadAll(chunks, cap) = F[L]
    BY Zenon DEF ReadAll
<1>5. F[0] = Reading /\ \A n \in 1..L : F[n] = Take(F[n - 1], chunks[n], cap)
    <2>1. F = [n \in 0..L |-> IF n = 0 THEN Reading ELSE Take(F[n - 1], chunks[n], cap)]
        BY <1>3
    <2> HIDE DEF F, L
    <2>2. QED BY <1>1, <2>1
<1> HIDE DEF F
<1>6. 0 \in T /\ \A n \in 1..L : n - 1 \in T => n \in T
    BY <1>1, <1>5 DEF Reads
<1>7. L \in T
    <2> HIDE DEF T
    <2>1. 0..L \subseteq T
        BY <1>1, <1>6, UpTo, Zenon
    <2>2. QED BY <1>1, <2>1
<1>8. QED BY <1>4, <1>7

\* What the readings say of the sums so far: they are within the cap, or they went
\* over it at some chunk, and what was buffered is what was there before it.
Holds(reading, sum, n, cap) ==
    IF sum[n] <= cap
    THEN reading.error = "none" /\ reading.buffered = sum[n]
    ELSE reading.error = "over" /\ \E m \in 1..n :
             /\ sum[m - 1] <= cap /\ sum[m] > cap
             /\ reading.buffered = sum[m - 1] /\ reading.observed = sum[m]

LEMMA ReadingHolds ==
    ASSUME NEW chunks \in Seq(Nat), NEW cap \in Nat, NEW sum, Sums(sum, chunks),
           NEW r, Reads(r, chunks, cap)
    PROVE  \A n \in 0..Len(chunks) : Holds(r[n], sum, n, cap)
<1> DEFINE L == Len(chunks)
           T == {n \in 0..L : Holds(r[n], sum, n, cap)}
<1>1. L \in Nat
    OBVIOUS
<1>2. 0 \in T
    BY <1>1 DEF Holds, Reads, Sums, Reading
<1>3. ASSUME NEW n \in 1..L, n - 1 \in T PROVE n \in T
    <2>1. /\ n - 1 \in 0..L /\ n \in 0..L /\ n \in Nat /\ n >= 1 /\ chunks[n] \in Nat
          /\ (n - 1) \in Nat
        BY <1>1
    <2> DEFINE before == r[n - 1]
               now == r[n]
               c == chunks[n]
               a == sum[n - 1]
               b == sum[n]
    <2>2. before \in Readings /\ now = Take(before, c, cap)
        BY <1>3, <2>1 DEF Reads
    <2>3. a \in Nat /\ b = a + c /\ c \in Nat
        BY <2>1 DEF Sums
    <2>4. Holds(before, sum, n - 1, cap)
        BY <1>3
    <2> HIDE DEF before, now, c
    <2>5. CASE a > cap
        <3>1. before.error = "over" /\ ~(a <= cap) /\ ~(b <= cap)
            BY <2>3, <2>4, <2>5 DEF Holds
        <3>2. now = before
            BY <2>2, <3>1 DEF Take
        <3>3. PICK m \in 1..(n - 1) : /\ sum[m - 1] <= cap /\ sum[m] > cap
                                      /\ before.buffered = sum[m - 1] /\ before.observed = sum[m]
            BY <2>4, <3>1 DEF Holds
        <3>4. m \in 1..n
            BY <2>1
        <3>5. Holds(now, sum, n, cap)
            BY <3>1, <3>2, <3>3, <3>4 DEF Holds
        <3>6. QED BY <2>1, <3>5 DEF now
    <2>6. CASE a <= cap /\ b <= cap
        <3>1. before.error = "none" /\ before.buffered = a
            BY <2>4, <2>6 DEF Holds
        <3>2. now.error = "none" /\ now.buffered = b
            BY <2>2, <2>3, <2>6, <3>1 DEF Take, Readings
        <3>3. Holds(now, sum, n, cap)
            BY <2>6, <3>2 DEF Holds
        <3>4. QED BY <2>1, <3>3 DEF now
    <2>7. CASE a <= cap /\ b > cap
        <3>1. before.error = "none" /\ before.buffered = a
            BY <2>4, <2>7 DEF Holds
        <3>2. c # 0 /\ a + c > cap
            BY <2>3, <2>7
        <3>3. now.error = "over" /\ now.buffered = a /\ now.observed = b
            BY <2>2, <2>3, <3>1, <3>2 DEF Take, Readings
        <3>4. ~(b <= cap) /\ n \in 1..n
            BY <2>1, <2>3, <2>7
        <3>5. Holds(now, sum, n, cap)
            BY <2>7, <3>3, <3>4 DEF Holds
        <3>6. QED BY <2>1, <3>5 DEF now
    <2>8. QED BY <2>3, <2>5, <2>6, <2>7
<1>4. 0..L \subseteq T
    <2> HIDE DEF T
    <2>1. QED BY <1>1, <1>2, <1>3, UpTo
<1>5. QED BY <1>4

\* The first link that says anything decides, as in TellsOfLeaving.
LEMMA FirstLinkDecides ==
    ASSUME NEW chain \in Seq(Links)
    PROVE  ClassifyBodyError(chain) =
               IF TellsOfLeaving(chain) THEN "client_canceled" ELSE "body_unreadable"
<1> DEFINE says == {i \in 1..Len(chain) : chain[i] \in IoKinds \cup HyperGone}
           first == SelectInSeq(chain, LAMBDA link : link \in IoKinds \cup HyperGone)
           left(i) == chain[i] \in DisconnectKinds \cup HyperGone
           plain(i) == chain[i] \in {"hyper_parse", "opaque"}
<1>1. Len(chain) \in Nat /\ DOMAIN chain = 1..Len(chain)
      /\ \A i \in 1..Len(chain) : chain[i] \in Links
    OBVIOUS
<1>2. first = IF says = {} THEN 0 ELSE Min(says)
    BY Zenon DEF SelectInSeq
<1>3. \A i \in 1..Len(chain) : i \notin says <=> plain(i)
    BY <1>1 DEF Links, IoKinds, DisconnectKinds, HyperGone
<1>4. \A i \in 1..Len(chain) : left(i) => i \in says
    BY DEF IoKinds
<1>5. TellsOfLeaving(chain) <=> first # 0 /\ left(first)
    <2>1. CASE says = {}
        BY <1>1, <1>2, <1>4, <2>1 DEF TellsOfLeaving
    <2>2. CASE says # {}
        <3>1. says \subseteq Nat
            BY <1>1
        <3>2. first \in says /\ \A i \in says : first <= i
            <4>1. PICK least \in says : \A i \in says : least <= i
                <5> HIDE DEF says
                <5>1. QED BY <2>2, <3>1, LeastNumber
            <4>2. first = Min(says)
                BY <1>2, <2>2
            <4> HIDE DEF says, first
            <4>3. QED BY <4>1, <4>2 DEF Min
        <3>3. first \in 1..Len(chain) /\ first # 0
            BY <3>2
        <3>4. \A j \in 1..first - 1 : j \in 1..Len(chain) /\ j \notin says
            <4> HIDE DEF says, first
            <4>1. QED BY <1>1, <3>1, <3>2, <3>3
        <3>5. \A j \in 1..first - 1 : plain(j)
            BY <1>3, <3>4
        <3>6. left(first) => TellsOfLeaving(chain)
            BY <1>1, <3>3, <3>5, Zenon DEF TellsOfLeaving
        <3>7. ASSUME NEW i \in 1..Len(chain), left(i), \A j \in 1..i - 1 : plain(j)
              PROVE  i = first
            <4>1. i \in says /\ \A j \in 1..i - 1 : j \in 1..Len(chain) /\ j \notin says
                BY <1>1, <1>3, <1>4, <3>7
            <4>2. first <= i /\ first \notin 1..i - 1
                BY <3>2, <4>1
            <4> HIDE DEF first
            <4>3. QED BY <1>1, <3>3, <4>2
        <3> HIDE DEF says, first
        <3>8. QED BY <1>1, <3>3, <3>6, <3>7 DEF TellsOfLeaving
    <2>3. QED BY <2>1, <2>2
<1>6. ClassifyBodyError(chain) =
          IF first # 0 /\ (chain[first] \in DisconnectKinds \/ chain[first] \in HyperGone)
          THEN "client_canceled" ELSE "body_unreadable"
    BY Zenon DEF ClassifyBodyError, IsDisconnectKind
<1> HIDE DEF first
<1>7. QED BY <1>5, <1>6

\* How a body is cut decides nothing, for any chunks, error and cap.
THEOREM NoCutMatters ==
    ASSUME NEW chunks \in Seq(Nat), NEW ending \in Seq(Links), NEW cap \in Nat
    PROVE  CutsDoNotMatter(chunks, ending, cap)
<1> DEFINE L == Len(chunks)
           total == Total(chunks)
           reading == ReadAll(chunks, cap)
           body == ReadCapped(chunks, ending, cap)
           response == ExecuteCapped(chunks, ending, cap)
<1>1. L \in Nat /\ L \in 0..L /\ DOMAIN chunks = 1..L
    OBVIOUS
<1>2. PICK sum : Sums(sum, chunks)
    BY SumsExist
<1>3. PICK r : Reads(r, chunks, cap)
    BY ReadsExist
<1>4. total = sum[L] /\ reading = r[L] /\ Holds(r[L], sum, L, cap) /\ total \in Nat
    <2>1. total = sum[L] /\ reading = r[L]
        BY <1>2, <1>3, TotalAdds, ReadAllReads
    <2>2. Holds(r[L], sum, L, cap)
        BY <1>1, <1>2, <1>3, ReadingHolds
    <2>3. sum[L] \in Nat
        BY <1>1, <1>2 DEF Sums
    <2>4. QED BY <2>1, <2>2, <2>3
<1>5. ClassifyBodyError(ending) =
          IF TellsOfLeaving(ending) THEN "client_canceled" ELSE "body_unreadable"
    BY FirstLinkDecides
<1>6. body = CASE reading.error = "over" -> [error |-> "body_too_large", bytes |-> 0]
               [] reading.error # "over" /\ ending # <<>> ->
                      [error |-> ClassifyBodyError(ending), bytes |-> 0]
               [] OTHER -> [error |-> "none", bytes |-> reading.buffered]
    BY Zenon DEF ReadCapped
<1>7. response = CASE reading.error = "over" ->
                          [error |-> "response_too_large", bytes |-> reading.observed]
                   [] reading.error # "over" /\ ending # <<>> ->
                          [error |-> "upstream_failed", bytes |-> 0]
                   [] OTHER -> [error |-> "none", bytes |-> reading.buffered]
    BY Zenon DEF ExecuteCapped
<1> HIDE DEF L, total, reading, body, response
<1>8. reading.buffered <= cap
    <2>1. CASE sum[L] <= cap
        BY <1>4, <2>1 DEF Holds
    <2>2. CASE ~(sum[L] <= cap)
        BY <1>4, <2>2 DEF Holds
    <2>3. QED BY <2>1, <2>2
<1>9. ASSUME total > cap
      PROVE  /\ body.error = "body_too_large" /\ response.error = "response_too_large"
             /\ \E n \in DOMAIN chunks :
                    /\ response.bytes = Total(SubSeq(chunks, 1, n)) /\ response.bytes > cap
                    /\ Total(SubSeq(chunks, 1, n - 1)) <= cap
    <2>1. ~(sum[L] <= cap)
        BY <1>4, <1>9
    <2>2. reading.error = "over"
        BY <1>4, <2>1 DEF Holds
    <2>3. PICK m \in 1..L : sum[m - 1] <= cap /\ sum[m] > cap /\ reading.observed = sum[m]
        BY <1>4, <2>1 DEF Holds
    <2>4. m \in 0..Len(chunks) /\ m - 1 \in 0..Len(chunks)
        BY <1>1 DEF L
    <2>5. Total(SubSeq(chunks, 1, m)) = sum[m] /\ Total(SubSeq(chunks, 1, m - 1)) = sum[m - 1]
        BY <1>2, <2>4, TotalOfPrefix
    <2>6. /\ body.error = "body_too_large" /\ response.error = "response_too_large"
          /\ response.bytes = sum[m]
        BY <1>6, <1>7, <2>2, <2>3
    <2>7. QED BY <1>1, <2>3, <2>5, <2>6
<1>10. ASSUME total <= cap
       PROVE  reading.error = "none" /\ reading.buffered = total
    BY <1>4, <1>10 DEF Holds
<1>11. ASSUME total <= cap, ending = <<>>
       PROVE  body = [error |-> "none", bytes |-> total] /\ response = body
    BY <1>6, <1>7, <1>10, <1>11
<1>12. ASSUME total <= cap, ending # <<>>
       PROVE  /\ body.error = IF TellsOfLeaving(ending) THEN "client_canceled"
                              ELSE "body_unreadable"
              /\ response.error = "upstream_failed"
    BY <1>5, <1>6, <1>7, <1>10, <1>12
<1>13. QED BY <1>8, <1>9, <1>11, <1>12, Zenon
           DEF CutsDoNotMatter, total, reading, body, response

-----------------------------------------------------------------------------
(* The calendar: an era is 400 years that begin in March *)

StartOf(year) == 365 * year + year \div 4 - year \div 100
YearOf(doe) == (doe - doe \div 1460 + doe \div 36524 - doe \div 146096) \div 365
MonthOf(doy) == (5 * doy + 2) \div 153
Numbered(month) == IF month < 10 THEN month + 3 ELSE month - 9
DayOf(doy) == doy - (153 * MonthOf(doy) + 2) \div 5 + 1
DateOf(era, year, doy) ==
    <<year + era * 400 + (IF Numbered(MonthOf(doy)) <= 2 THEN 1 ELSE 0),
      Numbered(MonthOf(doy)), DayOf(doy)>>

\* What an operand of a division is, by linear inequalities.
\* The days and the years of an era.
EraDays == {doe \in Nat : doe <= 146096}
EraYears == {year \in Nat : year <= 399}

\* q is a \div k.
IsQuotient(q, a, k) == q \in Nat /\ k * q <= a /\ a < k * q + k

LEMMA Divided ==
    ASSUME NEW a \in Nat
    PROVE  /\ IsQuotient(a \div 4, a, 4) /\ IsQuotient(a \div 100, a, 100)
           /\ IsQuotient(a \div 365, a, 365) /\ IsQuotient(a \div 1460, a, 1460)
           /\ IsQuotient(a \div 36524, a, 36524) /\ IsQuotient(a \div 146096, a, 146096)
           /\ IsQuotient(a \div 146097, a, 146097)
<1>1. IsQuotient(a \div 4, a, 4) /\ IsQuotient(a \div 100, a, 100)
    BY DEF IsQuotient
<1>2. IsQuotient(a \div 365, a, 365) /\ IsQuotient(a \div 1460, a, 1460)
    BY DEF IsQuotient
<1>3. IsQuotient(a \div 36524, a, 36524) /\ IsQuotient(a \div 146096, a, 146096)
    BY DEF IsQuotient
<1>4. IsQuotient(a \div 146097, a, 146097)
    BY DEF IsQuotient
<1>5. QED BY <1>1, <1>2, <1>3, <1>4

\* The inequalities of YearHolds, with every quotient a number of its own.
LEMMA YearBegan ==
    ASSUME NEW doe \in EraDays, NEW a, IsQuotient(a, doe, 1460),
           NEW b, IsQuotient(b, doe, 36524), NEW c, IsQuotient(c, doe, 146096),
           NEW year, IsQuotient(year, doe - a + b - c, 365),
           NEW p, IsQuotient(p, year, 4), NEW q, IsQuotient(q, year, 100)
    PROVE  year \in EraYears /\ 365 * year + p - q <= doe
<1>1. /\ doe \in Nat /\ a \in Nat /\ b \in Nat /\ c \in Nat /\ year \in Nat /\ p \in Nat
      /\ q \in Nat /\ doe <= 146096
    BY DEF IsQuotient, EraDays
<1>2. /\ 1460 * a <= doe /\ doe < 1460 * a + 1460
      /\ 36524 * b <= doe /\ doe < 36524 * b + 36524
      /\ 146096 * c <= doe /\ doe < 146096 * c + 146096
      /\ 365 * year <= doe - a + b - c /\ doe - a + b - c < 365 * year + 365
      /\ 4 * p <= year /\ year < 4 * p + 4 /\ 100 * q <= year /\ year < 100 * q + 100
    BY DEF IsQuotient
<1>3. year <= 399
    BY <1>1, <1>2
<1>4. 365 * year + p - q <= doe
    BY <1>1, <1>2, SMTT(60)
<1>5. QED BY <1>1, <1>3, <1>4 DEF EraYears

LEMMA YearNotOver ==
    ASSUME NEW doe \in EraDays, NEW a, IsQuotient(a, doe, 1460),
           NEW b, IsQuotient(b, doe, 36524), NEW c, IsQuotient(c, doe, 146096),
           NEW year, IsQuotient(year, doe - a + b - c, 365), year < 399,
           NEW p, IsQuotient(p, year + 1, 4), NEW q, IsQuotient(q, year + 1, 100)
    PROVE  doe < 365 * (year + 1) + p - q
<1>1. /\ doe \in Nat /\ a \in Nat /\ b \in Nat /\ c \in Nat /\ year \in Nat /\ p \in Nat
      /\ q \in Nat /\ doe <= 146096
    BY DEF IsQuotient, EraDays
<1>2. /\ 1460 * a <= doe /\ doe < 1460 * a + 1460
      /\ 36524 * b <= doe /\ doe < 36524 * b + 36524
      /\ 146096 * c <= doe /\ doe < 146096 * c + 146096
      /\ 365 * year <= doe - a + b - c /\ doe - a + b - c < 365 * year + 365
      /\ 4 * p <= year + 1 /\ year + 1 < 4 * p + 4
      /\ 100 * q <= year + 1 /\ year + 1 < 100 * q + 100
    BY DEF IsQuotient
<1>3. QED BY <1>1, <1>2, SMTT(60)

LEMMA StartIsNatural ==
    ASSUME NEW year \in Nat
    PROVE  StartOf(year) \in Nat
<1> DEFINE p == year \div 4
           q == year \div 100
<1>1. IsQuotient(p, year, 4) /\ IsQuotient(q, year, 100)
    BY Divided
<1>2. StartOf(year) = 365 * year + p - q
    BY DEF StartOf
<1> HIDE DEF p, q
<1>3. QED BY <1>1, <1>2 DEF IsQuotient

\* The days of a year precede those of a later one.
LEMMA StartsRise ==
    ASSUME NEW early \in Nat, NEW late \in Nat, early < late
    PROVE  StartOf(early + 1) <= StartOf(late)
<1> DEFINE p == (early + 1) \div 4
           q == (early + 1) \div 100
           p1 == late \div 4
           q1 == late \div 100
<1>1. IsQuotient(p, early + 1, 4) /\ IsQuotient(q, early + 1, 100)
    <2>1. early + 1 \in Nat
        OBVIOUS
    <2>2. QED BY <2>1, Divided
<1>2. IsQuotient(p1, late, 4) /\ IsQuotient(q1, late, 100)
    BY Divided
<1>3. StartOf(early + 1) = 365 * (early + 1) + p - q /\ StartOf(late) = 365 * late + p1 - q1
    BY DEF StartOf
<1> HIDE DEF p, q, p1, q1
<1>4. 365 * (early + 1) + p - q <= 365 * late + p1 - q1
    BY <1>1, <1>2, SMTT(60) DEF IsQuotient
<1>5. QED BY <1>3, <1>4

\* The year of a day of the era is the one it lies in.
LiesIn(doe, year) == StartOf(year) <= doe /\ (year = 399 \/ doe < StartOf(year + 1))

LEMMA YearHolds ==
    ASSUME NEW doe \in EraDays
    PROVE  YearOf(doe) \in EraYears /\ LiesIn(doe, YearOf(doe))
<1> DEFINE a == doe \div 1460
           b == doe \div 36524
           c == doe \div 146096
           days == doe - a + b - c
           year == days \div 365
           p == year \div 4
           q == year \div 100
           p1 == (year + 1) \div 4
           q1 == (year + 1) \div 100
<1>1. doe \in Nat /\ doe <= 146096
    BY DEF EraDays
<1>2. IsQuotient(a, doe, 1460) /\ IsQuotient(b, doe, 36524) /\ IsQuotient(c, doe, 146096)
    BY <1>1, Divided
<1>3. YearOf(doe) = year
    BY DEF YearOf
<1>4. StartOf(year) = 365 * year + p - q /\ StartOf(year + 1) = 365 * (year + 1) + p1 - q1
    <2> HIDE DEF year
    <2>1. QED BY DEF StartOf
<1> HIDE DEF a, b, c
<1>5. days \in Nat
    BY <1>1, <1>2 DEF IsQuotient
<1>6. IsQuotient(year, days, 365)
    <2> HIDE DEF days
    <2>1. QED BY <1>5, Divided
<1> HIDE DEF year
<1>7. year \in Nat /\ year + 1 \in Nat
    BY <1>6 DEF IsQuotient
<1>8. IsQuotient(p, year, 4) /\ IsQuotient(q, year, 100)
    BY <1>7, Divided
<1>9. IsQuotient(p1, year + 1, 4) /\ IsQuotient(q1, year + 1, 100)
    BY <1>7, Divided
<1> HIDE DEF p, q, p1, q1
<1>10. year \in EraYears /\ 365 * year + p - q <= doe
    BY <1>2, <1>6, <1>8, YearBegan
<1>11. year < 399 => doe < 365 * (year + 1) + p1 - q1
    BY <1>2, <1>6, <1>9, YearNotOver
<1>12. year = 399 \/ year < 399
    BY <1>10 DEF EraYears
<1>13. StartOf(year) <= doe
    BY <1>4, <1>10
<1>14. year = 399 \/ doe < StartOf(year + 1)
    BY <1>4, <1>11, <1>12
<1>15. LiesIn(doe, year)
    BY <1>13, <1>14, Zenon DEF LiesIn
<1>16. QED BY <1>3, <1>10, <1>15, Zenon

LEMMA YearIsUnique ==
    ASSUME NEW doe \in EraDays, NEW year \in EraYears, LiesIn(doe, year)
    PROVE  YearOf(doe) = year
<1>1. YearOf(doe) \in EraYears /\ LiesIn(doe, YearOf(doe))
    BY YearHolds, Zenon
<1>2. ASSUME NEW early \in EraYears, NEW late \in EraYears, early < late,
             LiesIn(doe, early), LiesIn(doe, late)
      PROVE  FALSE
    <2>1. early \in Nat /\ late \in Nat /\ early # 399 /\ early + 1 \in Nat
        BY <1>2 DEF EraYears
    <2>2. StartOf(early + 1) <= StartOf(late)
        BY <1>2, <2>1, StartsRise, Zenon
    <2>3. StartOf(late) <= doe /\ doe < StartOf(early + 1)
        BY <1>2, <2>1, Zenon DEF LiesIn
    <2>4. StartOf(early + 1) \in Nat /\ StartOf(late) \in Nat /\ doe \in Nat
        BY <2>1, StartIsNatural DEF EraDays
    <2>5. QED BY <2>2, <2>3, <2>4
<1>3. \A early, late \in EraYears : early < late \/ early = late \/ late < early
    BY DEF EraYears
<1>4. QED BY <1>1, <1>2, <1>3, Zenon

\* A year that begins in March ends with the February of the next.
Length(year) == IF Leap(year + 1) THEN 366 ELSE 365

LEMMA YearLength ==
    ASSUME NEW year \in EraYears
    PROVE  /\ year < 399 => StartOf(year + 1) = StartOf(year) + Length(year)
           /\ year = 399 => StartOf(year) = 145731 /\ Length(year) = 366
BY SMTT(60) DEF StartOf, Leap, Length, EraYears

LEMMA LeapInEveryEra ==
    ASSUME NEW year \in Nat, NEW era \in Nat
    PROVE  Leap(year + era * 400) <=> Leap(year)
<1>1. (year + era * 400) % 4 = year % 4
    BY SMTT(60)
<1>2. (year + era * 400) % 100 = year % 100
    BY SMTT(60)
<1>3. (year + era * 400) % 400 = year % 400
    BY SMTT(60)
<1>4. QED BY <1>1, <1>2, <1>3 DEF Leap

\* From one day of a year to the next: the first eleven months have their lengths,
\* whatever the year.
Turns(doy, month, day, next, after) ==
    /\ month < 11 =>
           \/ day < 30 /\ next = month /\ after = day + 1
           \/ day = 30 /\ month \notin {1, 3, 6, 8} /\ next = month /\ after = 31
           \/ /\ day = IF month \in {1, 3, 6, 8} THEN 30 ELSE 31
              /\ next = month + 1 /\ after = 1
    /\ month = 11 => day = doy - 336 /\ next = 11 /\ after = doy - 335

LEMMA MonthStep ==
    ASSUME NEW doy \in 0..364
    PROVE  /\ MonthOf(doy) \in 0..11 /\ DayOf(doy) \in Nat
           /\ Turns(doy, MonthOf(doy), DayOf(doy), MonthOf(doy + 1), DayOf(doy + 1))
<1>1. MonthOf(doy) \in 0..11 /\ DayOf(doy) \in Nat
    BY SMTT(60) DEF MonthOf, DayOf
<1>2. MonthOf(doy) = 11 =>
          /\ DayOf(doy) = doy - 336
          /\ MonthOf(doy + 1) = 11 /\ DayOf(doy + 1) = doy - 335
    BY SMTT(60) DEF MonthOf, DayOf
<1>3. ASSUME NEW month \in 0..10, MonthOf(doy) = month
      PROVE  \/ /\ DayOf(doy) < 30
                /\ MonthOf(doy + 1) = month /\ DayOf(doy + 1) = DayOf(doy) + 1
             \/ /\ DayOf(doy) = 30 /\ month \notin {1, 3, 6, 8}
                /\ MonthOf(doy + 1) = month /\ DayOf(doy + 1) = 31
             \/ /\ DayOf(doy) = IF month \in {1, 3, 6, 8} THEN 30 ELSE 31
                /\ MonthOf(doy + 1) = month + 1 /\ DayOf(doy + 1) = 1
    BY <1>3, SMTT(60) DEF MonthOf, DayOf
<1>4. QED BY <1>1, <1>2, <1>3 DEF Turns

\* The three cases of a day after, for a date by its parts.
LEMMA TomorrowOf ==
    ASSUME NEW y, NEW month, NEW day
    PROVE  Tomorrow(<<y, month, day>>) =
               CASE day < MonthLength(y, month) -> <<y, month, day + 1>>
                 [] day = MonthLength(y, month) /\ month < 12 -> <<y, month + 1, 1>>
                 [] OTHER -> <<y + 1, 1, 1>>
BY Zenon DEF Tomorrow

\* A day that does not end its year.
LEMMA SameYear ==
    ASSUME NEW era \in Nat, NEW year \in EraYears, NEW doy \in Nat, doy + 1 < Length(year)
    PROVE  DateOf(era, year, doy + 1) = Tomorrow(DateOf(era, year, doy))
<1> DEFINE month == MonthOf(doy)
           day == DayOf(doy)
           next == MonthOf(doy + 1)
           after == DayOf(doy + 1)
           y == year + era * 400 + (IF Numbered(month) <= 2 THEN 1 ELSE 0)
           days == MonthLength(y, Numbered(month))
<1>1. doy \in 0..364 /\ Length(year) \in {365, 366}
    BY DEF Length
<1>2. month \in 0..11 /\ day \in Nat /\ Turns(doy, month, day, next, after)
    <2>1. doy \in 0..364
        BY <1>1
    <2>2. QED BY <2>1, MonthStep, Zenon
<1>3. DateOf(era, year, doy) = <<y, Numbered(month), day>>
    BY DEF DateOf
<1>4. DateOf(era, year, doy + 1) =
          <<year + era * 400 + (IF Numbered(next) <= 2 THEN 1 ELSE 0), Numbered(next), after>>
    BY DEF DateOf
<1>5. Tomorrow(<<y, Numbered(month), day>>) =
          CASE day < days -> <<y, Numbered(month), day + 1>>
            [] day = days /\ Numbered(month) < 12 -> <<y, Numbered(month) + 1, 1>>
            [] OTHER -> <<y + 1, 1, 1>>
    <2> HIDE DEF y, month, day
    <2>1. QED BY TomorrowOf, Zenon DEF days
<1>6. month \in 0..10 => days = IF month \in {1, 3, 6, 8} THEN 30 ELSE 31
    BY DEF MonthLength, Numbered
<1>7. month = 11 => days = IF Leap(year + 1) THEN 29 ELSE 28
    <2>1. ASSUME month = 11 PROVE Numbered(month) = 2 /\ y = (year + 1) + era * 400
        BY <2>1 DEF Numbered, EraYears
    <2>2. year + 1 \in Nat
        BY DEF EraYears
    <2>3. Leap((year + 1) + era * 400) <=> Leap(year + 1)
        BY <2>2, LeapInEveryEra
    <2> HIDE DEF month, y
    <2>4. QED BY <2>1, <2>3 DEF MonthLength
<1>8. \/ day < 30 /\ next = month /\ after = day + 1 /\ month < 11
      \/ day = 30 /\ month \notin {1, 3, 6, 8} /\ next = month /\ after = 31 /\ month < 11
      \/ /\ day = IF month \in {1, 3, 6, 8} THEN 30 ELSE 31
         /\ next = month + 1 /\ after = 1 /\ month < 11
      \/ month = 11 /\ day = doy - 336 /\ next = 11 /\ after = doy - 335
    <2> HIDE DEF month, day, next, after, days
    <2>1. month < 11 \/ month = 11
        BY <1>2
    <2>2. QED BY <1>2, <2>1 DEF Turns
<1>9. (month \in 0..10 <=> month < 11) /\ days \in 28..31
    <2> HIDE DEF month, days
    <2>1. QED BY <1>2, <1>6, <1>7
<1> HIDE DEF month, day, next, after, days
<1>10. CASE day < days /\ next = month /\ after = day + 1
    <2>1. ~(day = days)
        BY <1>2, <1>10, <1>9
    <2>2. Tomorrow(<<y, Numbered(month), day>>) = <<y, Numbered(month), day + 1>>
        BY <1>5, <1>10, <2>1
    <2>3. QED BY <1>3, <1>4, <1>10, <2>2
<1>11. CASE day = days /\ month < 11 /\ next = month + 1 /\ after = 1
    <2>1. CASE month = 9
        <3>1. Numbered(month) = 12 /\ Numbered(next) = 1 /\ y = year + era * 400
            BY <1>11, <2>1 DEF Numbered, EraYears
        <3>2. ~(day < days)
            BY <1>2, <1>11
        <3>3. Tomorrow(<<y, Numbered(month), day>>) = <<y + 1, 1, 1>>
            BY <1>5, <3>1, <3>2
        <3>4. QED BY <1>3, <1>4, <1>11, <3>1, <3>3
    <2>2. CASE month # 9
        <3>1. /\ Numbered(next) = Numbered(month) + 1 /\ Numbered(month) < 12
              /\ Numbered(next) <= 2 <=> Numbered(month) <= 2
            BY <1>2, <1>11, <2>2 DEF Numbered
        <3>2. ~(day < days)
            BY <1>2, <1>11
        <3>3. Tomorrow(<<y, Numbered(month), day>>) = <<y, Numbered(month) + 1, 1>>
            BY <1>5, <1>11, <3>1, <3>2
        <3>4. QED BY <1>3, <1>4, <1>11, <3>1, <3>3
    <2>3. QED BY <2>1, <2>2
<1>12. month = 11 => day < days /\ next = month /\ after = day + 1
    BY <1>1, <1>7, <1>8 DEF Length
<1>13. QED BY <1>2, <1>6, <1>8, <1>9, <1>10, <1>11, <1>12

\* A day that ends its year is the last of February.
LEMMA NewYear ==
    ASSUME NEW era \in Nat, NEW year \in EraYears, NEW doy \in Nat, doy + 1 = Length(year)
    PROVE  /\ Tomorrow(DateOf(era, year, doy)) = DateOf(era, year + 1, 0)
           /\ DateOf(era, 400, 0) = DateOf(era + 1, 0, 0)
<1> DEFINE y == (year + 1) + era * 400
           day == doy - 336
<1>1. doy \in 364..365 /\ (doy = 365 <=> Leap(year + 1))
    BY DEF Length
<1>2. MonthOf(doy) = 11 /\ DayOf(doy) = day
    BY <1>1 DEF MonthOf, DayOf
<1>3. DateOf(era, year, doy) = <<y, 2, day>>
    BY <1>2 DEF DateOf, Numbered, EraYears
<1>4. MonthOf(0) = 0 /\ DayOf(0) = 1
    BY DEF MonthOf, DayOf
<1>5. DateOf(era, year + 1, 0) = <<y, 3, 1>>
    BY <1>4 DEF DateOf, Numbered, EraYears
<1>6. DateOf(era, 400, 0) = <<400 + era * 400, 3, 1>>
    BY <1>4 DEF DateOf, Numbered
<1>7. DateOf(era + 1, 0, 0) = <<(era + 1) * 400, 3, 1>>
    BY <1>4 DEF DateOf, Numbered
<1>8. year + 1 \in Nat
    BY DEF EraYears
<1>9. Leap(y) <=> Leap(year + 1)
    BY <1>8, LeapInEveryEra
<1> HIDE DEF y
<1>10. MonthLength(y, 2) = IF Leap(year + 1) THEN 29 ELSE 28
    BY <1>9 DEF MonthLength
<1>11. day = MonthLength(y, 2) /\ ~(day < MonthLength(y, 2))
    BY <1>1, <1>10
<1>12. Tomorrow(<<y, 2, day>>) =
           CASE day < MonthLength(y, 2) -> <<y, 2, day + 1>>
             [] day = MonthLength(y, 2) /\ 2 < 12 -> <<y, 2 + 1, 1>>
             [] OTHER -> <<y + 1, 1, 1>>
    <2> HIDE DEF day
    <2>1. QED BY TomorrowOf, Zenon
<1> HIDE DEF day
<1>13. Tomorrow(<<y, 2, day>>) = <<y, 3, 1>>
    BY <1>11, <1>12
<1>14. 400 + era * 400 = (era + 1) * 400
    OBVIOUS
<1>15. QED BY <1>3, <1>5, <1>6, <1>7, <1>13, <1>14

\* The first day of a year of the era lies in it.
LEMMA NextYearBegins ==
    ASSUME NEW year \in EraYears, year < 399
    PROVE  /\ StartOf(year + 1) \in EraDays
           /\ YearOf(StartOf(year + 1)) = year + 1
<1>1. year + 1 \in EraYears /\ year + 1 \in Nat
    BY DEF EraYears
<1>2. PICK next \in EraYears : next = year + 1
    BY <1>1
<1>3. next \in Nat /\ next + 1 \in Nat /\ (next = 399 \/ next < 399) /\ 399 \in EraYears
    BY DEF EraYears
<1>4. StartOf(next) \in Nat /\ StartOf(next + 1) \in Nat /\ StartOf(399) = 145731
    BY <1>3, StartIsNatural, YearLength
<1>5. Length(next) \in {365, 366}
    BY DEF Length
<1>6. CASE next = 399
    <2>1. StartOf(next) \in EraDays
        BY <1>4, <1>6 DEF EraDays
    <2>2. LiesIn(StartOf(next), next)
        BY <1>4, <1>6 DEF LiesIn
    <2>3. QED BY <1>2, <2>1, <2>2, YearIsUnique
<1>7. CASE next < 399
    <2>1. StartOf(next + 1) <= StartOf(399)
        BY <1>3, <1>7, StartsRise
    <2>2. StartOf(next + 1) = StartOf(next) + Length(next)
        BY <1>7, YearLength
    <2>3. StartOf(next) < StartOf(next + 1) /\ StartOf(next) <= 146096
        BY <1>4, <1>5, <2>1, <2>2
    <2>4. StartOf(next) \in EraDays
        BY <1>4, <2>3 DEF EraDays
    <2>5. LiesIn(StartOf(next), next)
        BY <1>4, <2>3 DEF LiesIn
    <2>6. QED BY <1>2, <2>4, <2>5, YearIsUnique
<1>8. QED BY <1>3, <1>6, <1>7

\* The day after a day of an era, in that era or the next.
DateIn(era, doe) == DateOf(era, YearOf(doe), doe - StartOf(YearOf(doe)))

LEMMA EraStep ==
    ASSUME NEW era \in Nat, NEW doe \in EraDays
    PROVE  /\ doe < 146096 => DateIn(era, doe + 1) = Tomorrow(DateIn(era, doe))
           /\ doe = 146096 => DateIn(era + 1, 0) = Tomorrow(DateIn(era, doe))
<1> DEFINE year == YearOf(doe)
           start == StartOf(year)
           doy == doe - start
<1>1. year \in EraYears /\ LiesIn(doe, year)
    BY YearHolds
<1>2. doe \in Nat /\ doe <= 146096 /\ year \in Nat /\ year + 1 \in Nat /\ year <= 399
    BY <1>1 DEF EraDays, EraYears
<1>3. start \in Nat /\ StartOf(year + 1) \in Nat
    BY <1>2, StartIsNatural
<1>4. /\ year < 399 => StartOf(year + 1) = start + Length(year)
      /\ year = 399 => start = 145731 /\ Length(year) = 366
    BY <1>1, YearLength
<1>5. Length(year) \in {365, 366} /\ (year < 399 => StartOf(year + 1) <= 146096)
    BY <1>1, NextYearBegins DEF Length, EraDays
<1>6. DateIn(era, doe) = DateOf(era, year, doy)
    BY DEF DateIn
<1> HIDE DEF year, start
<1>7. start <= doe /\ (year = 399 \/ doe < StartOf(year + 1))
    BY <1>1 DEF LiesIn, start
<1>8. doy \in Nat /\ (year < 399 => doy < Length(year)) /\ doy + 1 <= Length(year)
    BY <1>2, <1>3, <1>4, <1>5, <1>7
<1>9. CASE doy + 1 < Length(year)
    <2>1. doe < 146096
        BY <1>2, <1>3, <1>4, <1>5, <1>7, <1>9
    <2>2. doe + 1 \in EraDays
        BY <1>2, <2>1 DEF EraDays
    <2>3. LiesIn(doe + 1, year)
        BY <1>2, <1>3, <1>4, <1>5, <1>7, <1>9 DEF LiesIn, start
    <2>4. YearOf(doe + 1) = year
        BY <1>1, <2>2, <2>3, YearIsUnique
    <2>5. (doe + 1) - start = doy + 1
        BY <1>2, <1>3
    <2> HIDE DEF doy
    <2>6. DateOf(era, year, doy + 1) = Tomorrow(DateOf(era, year, doy))
        BY <1>1, <1>8, <1>9, SameYear
    <2>7. DateIn(era, doe + 1) = DateOf(era, year, doy + 1)
        BY <2>4, <2>5 DEF DateIn, start
    <2>8. QED BY <1>6, <2>1, <2>6, <2>7
<1>10. CASE doy + 1 = Length(year) /\ year < 399
    <2>1. doe + 1 = StartOf(year + 1)
        BY <1>2, <1>3, <1>4, <1>5, <1>10
    <2>2. doe + 1 \in EraDays /\ YearOf(doe + 1) = year + 1
        BY <1>1, <1>10, <2>1, NextYearBegins
    <2>3. doe < 146096
        BY <1>2, <2>2 DEF EraDays
    <2>4. (doe + 1) - StartOf(YearOf(doe + 1)) = 0
        BY <1>2, <2>1, <2>2
    <2> HIDE DEF doy
    <2>5. DateOf(era, year + 1, 0) = Tomorrow(DateOf(era, year, doy))
        BY <1>1, <1>8, <1>10, NewYear
    <2>6. DateIn(era, doe + 1) = DateOf(era, year + 1, 0)
        BY <2>2, <2>4 DEF DateIn
    <2>7. QED BY <1>6, <2>3, <2>5, <2>6
<1>11. CASE doy + 1 = Length(year) /\ year = 399
    <2>1. doe = 146096
        BY <1>2, <1>3, <1>4, <1>11
    <2>2. 0 \in EraDays /\ 0 \in EraYears
        BY DEF EraDays, EraYears
    <2>3. StartOf(0) = 0 /\ StartOf(0 + 1) = 365
        BY DEF StartOf
    <2>4. YearOf(0) = 0
        BY <2>2, <2>3, YearIsUnique DEF LiesIn
    <2>5. 0 - StartOf(YearOf(0)) = 0
        BY <2>3, <2>4
    <2> HIDE DEF doy
    <2>6. Tomorrow(DateOf(era, year, doy)) = DateOf(era, year + 1, 0)
        BY <1>1, <1>8, <1>11, NewYear
    <2>7. DateOf(era, 400, 0) = DateOf(era + 1, 0, 0)
        BY <1>1, <1>8, <1>11, NewYear
    <2>8. DateIn(era + 1, 0) = DateOf(era + 1, 0, 0) /\ year + 1 = 400
        BY <1>11, <2>4, <2>5 DEF DateIn
    <2>9. QED BY <1>6, <2>1, <2>6, <2>7, <2>8
<1>12. QED BY <1>2, <1>5, <1>8, <1>9, <1>10, <1>11

\* The formula of civil_from_days gives the day after, for every day.
THEOREM DaysGoOn ==
    ASSUME NEW days \in Nat
    PROVE  CivilFromDays(days + 1) = Tomorrow(CivilFromDays(days))
<1> DEFINE Era(z) == z \div 146097
           Doe(z) == z - Era(z) * 146097
           Date(z) == DateIn(Era(z), Doe(z))
           z == days + 719468
           era == Era(z)
           doe == Doe(z)
<1>1. ASSUME NEW d \in Nat PROVE CivilFromDays(d) = Date(d + 719468)
    BY DEF CivilFromDays, DateIn, DateOf, YearOf, StartOf, MonthOf, DayOf, Numbered
<1>2. z \in Nat /\ days + 1 + 719468 = z + 1
    OBVIOUS
<1>3. IsQuotient(era, z, 146097)
    BY <1>2, Divided
<1>4. era \in Nat /\ doe \in EraDays
    BY <1>2, <1>3 DEF IsQuotient, EraDays
<1>5. doe < 146096 => Era(z + 1) = era /\ Doe(z + 1) = doe + 1
    BY <1>2, <1>3, SMTT(60) DEF IsQuotient
<1>6. doe = 146096 => Era(z + 1) = era + 1 /\ Doe(z + 1) = 0
    BY <1>2, <1>3, SMTT(60) DEF IsQuotient
<1>7. CivilFromDays(days) = Date(z) /\ CivilFromDays(days + 1) = Date(z + 1)
    BY <1>1, <1>2
<1>8. doe < 146096 \/ doe = 146096
    BY <1>4 DEF EraDays
<1> HIDE DEF Era, Doe
<1>9. CASE doe < 146096
    BY <1>4, <1>5, <1>7, <1>9, EraStep
<1>10. CASE doe = 146096
    BY <1>4, <1>6, <1>7, <1>10, EraStep
<1>11. QED BY <1>8, <1>9, <1>10

\* The clock of a second of the day.
LEMMA ClockTells ==
    ASSUME NEW rem \in Nat, rem < 86400
    PROVE  LET clock == Clock(rem)
           IN  /\ clock \in (0..23) \X (0..59) \X (0..59)
               /\ (clock[1] * 60 + clock[2]) * 60 + clock[3] = rem
<1>1. /\ rem \div 3600 \in 0..23 /\ (rem % 3600) \div 60 \in 0..59 /\ rem % 60 \in 0..59
      /\ ((rem \div 3600) * 60 + (rem % 3600) \div 60) * 60 + (rem % 60) = rem
    BY SMTT(60)
<1>2. QED BY <1>1 DEF Clock

LEMMA FirstDay == CivilFromDays(0) = <<1970, 1, 1>>
BY DEF CivilFromDays

-----------------------------------------------------------------------------
(* The fault of a payload *)

\* The text goes on from p to q by one of the characters.
GoesOn(bytes, chars, p, q) ==
    p < q /\ q <= p + 3 /\ SubSeq(bytes, p + 1, q) \in chars

\* The function that Runs chooses.
IsReached(r, bytes, chars) ==
    r = [n \in 0..Len(bytes) |->
             n = 0 \/ \E k \in 1..3 : /\ k <= n /\ r[n - k]
                                       /\ SubSeq(bytes, n - k + 1, n) \in chars]

LEMMA RunsExist ==
    ASSUME NEW bytes, NEW chars, Len(bytes) \in Nat
    PROVE  \E r : IsReached(r, bytes, chars)
<1> DEFINE L == Len(bytes)
           Goes(k, n) == SubSeq(bytes, n - k + 1, n) \in chars
           Turn(r, n) == n = 0 \/ \E k \in 1..3 : k <= n /\ r[n - k] /\ Goes(k, n)
           T == {m \in 0..L : \E r \in [0..m -> BOOLEAN] : \A n \in 0..m : r[n] = Turn(r, n)}
<1> HIDE DEF Goes
<1>1. 0 \in T
    <2>1. [n \in 0..0 |-> TRUE] \in [0..0 -> BOOLEAN]
        OBVIOUS
    <2>2. \A n \in 0..0 : n = 0 /\ [i \in 0..0 |-> TRUE][n] = TRUE
        OBVIOUS
    <2>3. \A n \in 0..0 : [i \in 0..0 |-> TRUE][n] = Turn([i \in 0..0 |-> TRUE], n)
        BY <2>2, Zenon
    <2>4. 0 \in 0..L
        OBVIOUS
    <2>5. QED BY <2>1, <2>3, <2>4, Zenon
<1>2. ASSUME NEW m \in 1..L, m - 1 \in T PROVE m \in T
    <2>1. PICK r \in [0..(m - 1) -> BOOLEAN] : \A n \in 0..(m - 1) : r[n] = Turn(r, n)
        BY <1>2, Zenon
    <2> DEFINE g == [n \in 0..m |-> IF n = m THEN Turn(r, m) ELSE r[n]]
    <2>2. g[m] = Turn(r, m) /\ \A n \in 0..(m - 1) : g[n] = r[n]
        OBVIOUS
    <2>3. ASSUME NEW n \in 0..m PROVE Turn(g, n) <=> Turn(r, n)
        <3>1. \A k \in 1..3 : k <= n => n - k \in 0..(m - 1)
            OBVIOUS
        <3>2. \A k \in 1..3 : k <= n => g[n - k] = r[n - k]
            BY <2>2, <3>1
        <3> HIDE DEF g
        <3>3. QED BY <3>2, Zenon
    <2>4. g \in [0..m -> BOOLEAN]
        <3>1. \A n \in 0..m : n # m => n \in 0..(m - 1)
            OBVIOUS
        <3>2. \A n \in 0..m : (IF n = m THEN Turn(r, m) ELSE r[n]) \in BOOLEAN
            BY <3>1, <2>1, Zenon
        <3>3. QED BY <3>2, Zenon
    <2>5. \A n \in 0..m : n = m \/ n \in 0..(m - 1)
        OBVIOUS
    <2>6. ASSUME NEW n \in 0..m PROVE g[n] = Turn(g, n)
        <3>1. g[n] = Turn(r, n)
            <4> HIDE DEF g, Turn
            <4>1. QED BY <2>1, <2>2, <2>5
        <3> HIDE DEF g
        <3>2. Turn(g, n) \in BOOLEAN /\ Turn(r, n) \in BOOLEAN
            BY Zenon
        <3> HIDE DEF Turn
        <3>3. QED BY <2>3, <3>1, <3>2, Zenon
    <2> HIDE DEF g, Turn
    <2>7. m \in 0..L
        OBVIOUS
    <2>8. QED BY <2>4, <2>6, <2>7, Zenon
<1>3. 0..L \subseteq T
    <2> HIDE DEF T
    <2>1. QED BY <1>1, <1>2, UpTo DEF L
<1>4. L \in T
    BY <1>3 DEF L
<1>5. PICK r \in [0..L -> BOOLEAN] : \A n \in 0..L : r[n] = Turn(r, n)
    BY <1>4, Zenon
<1>6. r = [n \in 0..L |-> Turn(r, n)]
    <2> HIDE DEF Turn
    <2>1. QED BY <1>5, Zenon
<1>7. IsReached(r, bytes, chars)
    BY <1>6, Zenon DEF IsReached, L, Goes
<1>8. QED BY <1>7, Zenon

\* What the recursion of Runs says of each of its offsets.
LEMMA RunsGrow ==
    ASSUME NEW bytes, NEW chars, Len(bytes) \in Nat
    PROVE  /\ Runs(bytes, chars) \subseteq 0..Len(bytes)
           /\ 0 \in Runs(bytes, chars)
           /\ \A q \in 1..Len(bytes) : q \in Runs(bytes, chars) <=>
                  \E p \in Runs(bytes, chars) : GoesOn(bytes, chars, p, q)
<1> DEFINE L == Len(bytes)
           F == CHOOSE r : IsReached(r, bytes, chars)
           R == Runs(bytes, chars)
           Goes(k, n) == SubSeq(bytes, n - k + 1, n) \in chars
<1>1. IsReached(F, bytes, chars)
    BY RunsExist, Zenon
<1>2. \A n \in 0..L : F[n] <=> n = 0 \/ \E k \in 1..3 : k <= n /\ F[n - k] /\ Goes(k, n)
    <2> HIDE DEF F
    <2>1. QED BY <1>1, Zenon DEF IsReached
<1>3. R = {n \in 0..L : F[n]}
    BY Zenon DEF Runs, IsReached
<1> HIDE DEF F, R, Goes
<1>4. 0 \in 0..L /\ R \subseteq 0..L
    BY <1>3
<1>5. 0 \in R
    BY <1>2, <1>3, <1>4, Zenon
<1>6. ASSUME NEW q \in 1..L
      PROVE  q \in R <=> \E p \in R : GoesOn(bytes, chars, p, q)
    <2>1. q \in 0..L /\ q # 0
        OBVIOUS
    <2>2. q \in R <=> \E k \in 1..3 : k <= q /\ F[q - k] /\ Goes(k, q)
        BY <1>2, <1>3, <2>1, Zenon
    <2>3. ASSUME NEW k \in 1..3, k <= q, F[q - k], Goes(k, q)
          PROVE  \E p \in R : GoesOn(bytes, chars, p, q)
        <3>1. q - k \in 0..L /\ q - k < q /\ q <= (q - k) + 3
            BY <2>3
        <3>2. q - k \in R
            BY <1>3, <2>3, <3>1, Zenon
        <3>3. GoesOn(bytes, chars, q - k, q)
            BY <2>3, <3>1 DEF GoesOn, Goes
        <3>4. QED BY <3>2, <3>3, Zenon
    <2>4. ASSUME NEW p \in R, GoesOn(bytes, chars, p, q)
          PROVE  \E k \in 1..3 : k <= q /\ F[q - k] /\ Goes(k, q)
        <3>1. p \in 0..L /\ p < q /\ q <= p + 3 /\ SubSeq(bytes, p + 1, q) \in chars
            BY <1>4, <2>4 DEF GoesOn
        <3>2. PICK k \in 1..3 : k = q - p
            BY <3>1
        <3>3. k <= q /\ q - k = p /\ q - k + 1 = p + 1
            BY <3>1, <3>2
        <3>4. F[q - k] /\ Goes(k, q)
            BY <1>3, <2>4, <3>1, <3>3, Zenon DEF Goes
        <3>5. QED BY <3>3, <3>4, Zenon
    <2>5. QED BY <2>2, <2>3, <2>4, Zenon
<1>7. QED BY <1>4, <1>5, <1>6 DEF R, L

LEMMA GreatestNumber ==
    ASSUME NEW L \in Nat, NEW T \in SUBSET (0..L), T # {}
    PROVE  Max(T) \in T /\ \A y \in T : y <= Max(T)
<1> DEFINE left == {L - x : x \in T}
<1>1. left \in SUBSET Nat /\ left # {}
    <2>1. \A x \in T : L - x \in Nat /\ L - x \in left
        OBVIOUS
    <2>2. QED BY <2>1
<1> HIDE DEF left
<1>2. PICK z \in left : \A y \in left : z <= y
    BY <1>1, LeastNumber
<1>3. PICK x \in T : z = L - x
    BY DEF left
<1>4. ASSUME NEW y \in T PROVE x >= y
    <2>1. L - y \in left
        BY DEF left
    <2>2. L - x <= L - y /\ x \in Nat /\ y \in Nat
        BY <1>2, <1>3, <2>1
    <2>3. QED BY <2>2
<1>5. Max(T) \in T /\ \A y \in T : Max(T) >= y
    BY <1>4, Zenon DEF Max
<1>6. \A x1, y1 \in T : x1 >= y1 => y1 <= x1
    OBVIOUS
<1>7. QED BY <1>5, <1>6, Zenon

Leads == {"ascii", "C3", "EF"}
Size(byte) == IF byte = "ascii" THEN 1 ELSE IF byte = "C3" THEN 2 ELSE 3

\* Where a character begins and ends is in its bytes.
LEMMA CharacterShows ==
    ASSUME NEW bytes \in Seq(Bytes), NEW p \in Nat, NEW q \in 1..Len(bytes),
           GoesOn(bytes, Characters, p, q)
    PROVE  /\ bytes[p + 1] \in Leads /\ q = p + Size(bytes[p + 1])
           /\ \A i \in (p + 2)..q : bytes[i] \in Continuations
<1> DEFINE c == SubSeq(bytes, p + 1, q)
<1>1. p < q /\ q <= p + 3 /\ c \in Characters /\ q \in Nat
    BY DEF GoesOn
<1>2. Len(c) = q - p /\ \A i \in 1..(q - p) : c[i] = bytes[p + i]
    BY <1>1
<1> HIDE DEF c
<1>3. \A n \in 1..3 : Len(c) = n => q = p + n /\ \A i \in 1..n : c[i] = bytes[p + i]
    <2>1. \A n \in 1..3 : Len(c) = n => q = p + n
        BY <1>1, <1>2
    <2>2. ASSUME NEW n \in 1..3, Len(c) = n PROVE \A i \in 1..n : c[i] = bytes[p + i]
        <3>1. q - p = n
            BY <1>2, <2>2
        <3>2. QED BY <1>2, <3>1, Zenon
    <2>3. QED BY <2>1, <2>2, Zenon
<1>4. CASE c = <<"ascii">>
    <2>1. Len(c) = 1 /\ c[1] = "ascii"
        BY <1>4
    <2>2. q = p + 1 /\ c[1] = bytes[p + 1]
        <3>1. 1 \in 1..3 /\ \A i \in 1..3 : i <= 1 => i \in 1..1
            OBVIOUS
        <3>2. QED BY <1>3, <2>1, <3>1
    <2>3. bytes[p + 1] = "ascii" /\ \A i \in (p + 2)..q : FALSE
        BY <2>1, <2>2
    <2>4. QED BY <2>2, <2>3 DEF Leads, Size
<1>5. CASE c \in {"C3"} \X Continuations
    <2>1. PICK x \in Continuations : c = <<"C3", x>>
        BY <1>5
    <2>2. Len(c) = 2 /\ c[1] = "C3" /\ c[2] = x
        BY <2>1
    <2>3. q = p + 2 /\ c[1] = bytes[p + 1] /\ c[2] = bytes[p + 2]
        <3>1. 2 \in 1..3 /\ \A i \in 1..3 : i <= 2 => i \in 1..2
            OBVIOUS
        <3>2. QED BY <1>3, <2>2, <3>1
    <2>4. bytes[p + 1] = "C3" /\ bytes[p + 2] \in Continuations
        BY <2>2, <2>3, Zenon
    <2>5. \A i \in (p + 2)..q : i = p + 2
        BY <2>3
    <2>6. QED BY <2>3, <2>4, <2>5 DEF Leads, Size
<1>6. CASE c \in {"EF"} \X Continuations \X Continuations
    <2>1. PICK x, y \in Continuations : c = <<"EF", x, y>>
        BY <1>6
    <2>2. Len(c) = 3 /\ c[1] = "EF" /\ c[2] = x /\ c[3] = y
        BY <2>1
    <2>3. q = p + 3 /\ c[1] = bytes[p + 1] /\ c[2] = bytes[p + 2] /\ c[3] = bytes[p + 3]
        <3>1. 3 \in 1..3 /\ \A i \in 1..3 : i <= 3 => i \in 1..3
            OBVIOUS
        <3>2. QED BY <1>3, <2>2, <3>1
    <2>4. /\ bytes[p + 1] = "EF"
          /\ bytes[p + 2] \in Continuations /\ bytes[p + 3] \in Continuations
        BY <2>2, <2>3, Zenon
    <2>5. \A i \in (p + 2)..q : i = p + 2 \/ i = p + 3
        BY <2>3
    <2>6. QED BY <2>3, <2>4, <2>5 DEF Leads, Size
<1>7. QED BY <1>1, <1>4, <1>5, <1>6 DEF Characters

\* A replacement character is three bytes, and a character.
LEMMA ReplacementShows ==
    ASSUME NEW bytes \in Seq(Bytes), NEW i \in 1..(Len(bytes) - 2)
    PROVE  SubSeq(bytes, i, i + 2) = Replacement =>
               bytes[i] = "EF" /\ GoesOn(bytes, Characters, i - 1, i + 2)
<1>1. SUFFICES ASSUME SubSeq(bytes, i, i + 2) = Replacement
               PROVE  bytes[i] = "EF" /\ GoesOn(bytes, Characters, i - 1, i + 2)
    OBVIOUS
<1>2. SubSeq(bytes, i, i + 2)[1] = bytes[i] /\ i \in Nat
    OBVIOUS
<1>3. bytes[i] = "EF"
    <2>1. Replacement[1] = "EF"
        BY DEF Replacement
    <2>2. QED BY <1>1, <1>2, <2>1, Zenon
<1>4. Replacement \in Characters
    BY DEF Replacement, Characters, Continuations
<1>5. i - 1 < i + 2 /\ i + 2 <= (i - 1) + 3 /\ (i - 1) + 1 = i
    OBVIOUS
<1>6. QED BY <1>1, <1>3, <1>4, <1>5 DEF GoesOn

\* Every run goes on from any of its offsets.
LEMMA RunsGoOn ==
    ASSUME NEW bytes \in Seq(Bytes), NEW chars \in SUBSET Characters,
           NEW a \in Runs(bytes, chars), NEW b \in Runs(bytes, chars), a < b
    PROVE  \E q \in Runs(bytes, chars) : q <= b /\ GoesOn(bytes, chars, a, q)
<1> DEFINE L == Len(bytes)
           R == Runs(bytes, chars)
           Goes(x, y) == \E q \in R : q <= y /\ GoesOn(bytes, chars, x, q)
           T == {n \in 0..L : \A x, y \in R : x < y /\ y <= n => Goes(x, y)}
<1>1. L \in Nat
    OBVIOUS
<1>2. /\ R \subseteq 0..L
      /\ \A q \in 1..L : q \in R <=> \E p \in R : GoesOn(bytes, chars, p, q)
    BY <1>1, RunsGrow
<1> HIDE DEF L, R
<1>3. 0 \in T
    BY <1>1, <1>2
<1>4. ASSUME NEW n \in 1..L, n - 1 \in T PROVE n \in T
    <2>1. SUFFICES ASSUME NEW x \in R, n \in R, x < n PROVE Goes(x, n)
        BY <1>2, <1>4
    <2>2. PICK p \in R : GoesOn(bytes, chars, p, n)
        BY <1>2, <2>1
    <2>3. x \in Nat /\ p \in Nat /\ p < n /\ n \in Nat
        BY <1>2, <2>2 DEF GoesOn
    <2>4. CASE x = p
        BY <2>1, <2>2, <2>3, <2>4
    <2>5. CASE x < p
        <3>1. Goes(x, p)
            BY <1>4, <2>3, <2>5
        <3>2. QED BY <1>2, <2>3, <3>1
    <2>6. CASE p < x
        <3>1. PICK q \in R : q <= x /\ GoesOn(bytes, chars, p, q)
            BY <1>4, <2>1, <2>3, <2>6
        <3>2. GoesOn(bytes, Characters, p, q) /\ GoesOn(bytes, Characters, p, n)
            BY <2>2, <3>1 DEF GoesOn
        <3>3. q \in 1..Len(bytes) /\ n \in 1..Len(bytes)
            BY <1>2, <2>3, <3>1 DEF L, GoesOn
        <3>4. q = n
            BY <2>3, <3>2, <3>3, CharacterShows
        <3>5. QED BY <2>1, <2>3, <3>1, <3>4
    <2>7. QED BY <2>3, <2>4, <2>5, <2>6
<1>5. L \in T
    <2> HIDE DEF T
    <2>1. 0..L \subseteq T
        BY <1>1, <1>3, <1>4, UpTo
    <2>2. QED BY <1>1, <2>1
<1>6. a \in R /\ b \in R /\ b <= L
    BY <1>1, <1>2 DEF R
<1>7. Goes(a, b)
    BY <1>5, <1>6
<1>8. QED BY <1>7 DEF R

\* A run of some of the characters is one of the whole alphabet, which has no
\* other offsets up to its last.
LEMMA RunsInside ==
    ASSUME NEW bytes \in Seq(Bytes), NEW chars \in SUBSET Characters
    PROVE  /\ Runs(bytes, chars) \subseteq Runs(bytes, Characters)
           /\ \A a \in Runs(bytes, Characters), b \in Runs(bytes, chars) :
                  a <= b => a \in Runs(bytes, chars)
<1> DEFINE L == Len(bytes)
           S == Runs(bytes, chars)
           V == Runs(bytes, Characters)
           T == {n \in 0..L : n \in S => n \in V /\ \A a \in V : a <= n => a \in S}
           U == {n \in 0..L : \A m \in 0..n : m \in T}
<1>1. L \in Nat
    OBVIOUS
<1>2. /\ S \subseteq 0..L /\ 0 \in S
      /\ \A q \in 1..L : q \in S <=> \E p \in S : GoesOn(bytes, chars, p, q)
    BY <1>1, RunsGrow
<1>3. /\ V \subseteq 0..L /\ 0 \in V
      /\ \A q \in 1..L : q \in V <=> \E p \in V : GoesOn(bytes, Characters, p, q)
    BY <1>1, RunsGrow
<1> HIDE DEF L, S, V
<1>4. 0 \in U
    BY <1>1, <1>2, <1>3
<1>5. ASSUME NEW n \in 1..L, n - 1 \in U PROVE n \in U
    <2>1. SUFFICES ASSUME n \in S PROVE n \in V /\ \A a \in V : a <= n => a \in S
        BY <1>5
    <2>2. PICK p \in S : GoesOn(bytes, chars, p, n)
        BY <1>2, <2>1
    <2>3. p \in Nat /\ p < n /\ n \in Nat /\ GoesOn(bytes, Characters, p, n)
        BY <1>2, <2>2 DEF GoesOn
    <2>4. p \in V /\ \A a \in V : a <= p => a \in S
        BY <1>5, <2>3
    <2>5. n \in V
        BY <1>3, <2>3, <2>4
    <2>6. ASSUME NEW a \in V, a <= n, p < a PROVE a = n
        <3>1. PICK q \in V : q <= a /\ GoesOn(bytes, Characters, p, q)
            BY <2>4, <2>6, RunsGoOn DEF V
        <3>2. a \in Nat /\ q \in 1..Len(bytes) /\ n \in 1..Len(bytes)
            BY <1>3, <2>3, <3>1 DEF L, GoesOn
        <3>3. q = n
            BY <2>3, <3>1, <3>2, CharacterShows
        <3>4. QED BY <2>3, <2>6, <3>1, <3>2, <3>3
    <2>7. \A a \in V : a \in Nat
        BY <1>3
    <2>8. QED BY <2>1, <2>3, <2>4, <2>5, <2>6, <2>7
<1>6. L \in U
    <2> HIDE DEF U
    <2>1. 0..L \subseteq U
        BY <1>1, <1>4, <1>5, UpTo
    <2>2. QED BY <1>1, <2>1
<1>7. \A b \in S : b \in V /\ \A a \in V : a <= b => a \in S
    BY <1>1, <1>2, <1>6
<1>8. QED BY <1>7 DEF S, V

\* A lead byte in a run begins a character of it.
LEMMA LeadsBegin ==
    ASSUME NEW bytes \in Seq(Bytes), NEW b \in Runs(bytes, Characters), NEW p \in 1..b,
           bytes[p] \in Leads
    PROVE  p - 1 \in Runs(bytes, Characters)
<1> DEFINE L == Len(bytes)
           V == Runs(bytes, Characters)
           T == {n \in 0..L : \A y \in V, x \in 1..n : x <= y /\ y <= n /\ bytes[x] \in Leads => x - 1 \in V}
<1>1. L \in Nat
    OBVIOUS
<1>2. /\ V \subseteq 0..L
      /\ \A q \in 1..L : q \in V <=> \E o \in V : GoesOn(bytes, Characters, o, q)
    BY <1>1, RunsGrow
<1> HIDE DEF L, V
<1>3. 0 \in T
    BY <1>1
<1>4. ASSUME NEW n \in 1..L, n - 1 \in T PROVE n \in T
    <2>1. SUFFICES ASSUME n \in V, NEW x \in 1..n, bytes[x] \in Leads PROVE x - 1 \in V
        BY <1>2, <1>4
    <2>2. PICK o \in V : GoesOn(bytes, Characters, o, n)
        BY <1>2, <2>1
    <2>3. o \in Nat /\ o < n /\ n \in Nat /\ x \in Nat
        BY <1>2, <2>2 DEF GoesOn
    <2>4. CASE x <= o
        BY <1>4, <2>1, <2>3, <2>4
    <2>5. CASE x = o + 1
        BY <2>3, <2>5
    <2>6. CASE o + 2 <= x
        <3>1. n \in 1..Len(bytes) /\ x \in (o + 2)..n
            BY <2>3, <2>6 DEF L
        <3>2. bytes[x] \in Continuations
            BY <2>2, <2>3, <3>1, CharacterShows
        <3>3. QED BY <2>1, <3>2 DEF Leads, Continuations
    <2>7. QED BY <2>3, <2>4, <2>5, <2>6
<1>5. L \in T
    <2> HIDE DEF T
    <2>1. 0..L \subseteq T
        BY <1>1, <1>3, <1>4, UpTo
    <2>2. QED BY <1>1, <2>1
<1>6. b \in V /\ b \in 0..L
    BY <1>2 DEF V
<1>7. p \in 1..L /\ p <= b
    BY <1>1, <1>6
<1>8. p - 1 \in V
    BY <1>5, <1>6, <1>7
<1>9. QED BY <1>8 DEF V

\* Where the first n bytes hold a replacement character.
Broken(bytes, n) == {i \in 1..n - 2 : SubSeq(bytes, i, i + 2) = Replacement}

LEMMA FindsBroken ==
    ASSUME NEW bytes \in Seq(Bytes), NEW n \in 0..Len(bytes)
    PROVE  /\ Find(SubSeq(bytes, 1, n)) =
                  IF Broken(bytes, n) = {} THEN None ELSE Min(Broken(bytes, n)) - 1
           /\ n = Len(bytes) => Find(bytes) = Find(SubSeq(bytes, 1, n))
<1> DEFINE text == SubSeq(bytes, 1, n)
<1>1. text \in Seq(Bytes) /\ Len(text) = n /\ \A i \in 1..n : text[i] = bytes[i]
    OBVIOUS
<1>2. n = Len(bytes) => text = bytes
    BY <1>1
<1> HIDE DEF text
<1>3. ASSUME NEW i \in 1..n - 2 PROVE SubSeq(text, i, i + 2) = SubSeq(bytes, i, i + 2)
    <2>1. \A k \in 1..3 : (i + k) - 1 \in 1..n
        OBVIOUS
    <2>2. /\ SubSeq(text, i, i + 2) = [k \in 1..3 |-> text[(i + k) - 1]]
          /\ SubSeq(bytes, i, i + 2) = [k \in 1..3 |-> bytes[(i + k) - 1]]
        BY <1>1
    <2>3. QED BY <1>1, <2>1, <2>2
<1>4. {i \in 1..Len(text) - 2 : SubSeq(text, i, i + 2) = Replacement} = Broken(bytes, n)
    BY <1>1, <1>3 DEF Broken
<1>5. Find(text) = IF Broken(bytes, n) = {} THEN None ELSE Min(Broken(bytes, n)) - 1
    BY <1>4, Zenon DEF Find
<1>6. QED BY <1>2, <1>5 DEF text

SoundUpTo(bytes) == Max(Runs(bytes, Characters \ {Replacement}))

LEMMA BrokenFollowsSound ==
    ASSUME NEW bytes \in Seq(Bytes)
    PROVE  /\ ValidUpTo(bytes) \in 0..Len(bytes) /\ SoundUpTo(bytes) \in 0..Len(bytes)
           /\ SoundUpTo(bytes) <= ValidUpTo(bytes)
           /\ Len(bytes) \in Runs(bytes, Characters \ {Replacement}) =>
                  SoundUpTo(bytes) = Len(bytes)
           /\ SoundUpTo(bytes) \in Runs(bytes, Characters \ {Replacement})
           /\ IF Broken(bytes, ValidUpTo(bytes)) = {} THEN SoundUpTo(bytes) = ValidUpTo(bytes)
              ELSE /\ SoundUpTo(bytes) < ValidUpTo(bytes)
                   /\ Min(Broken(bytes, ValidUpTo(bytes))) = SoundUpTo(bytes) + 1
<1> DEFINE L == Len(bytes)
           chars == Characters \ {Replacement}
           S == Runs(bytes, chars)
           V == Runs(bytes, Characters)
           m == SoundUpTo(bytes)
           v == ValidUpTo(bytes)
           B == Broken(bytes, v)
<1>1. L \in Nat /\ chars \in SUBSET Characters
    OBVIOUS
<1>2. /\ S \subseteq 0..L /\ 0 \in S
      /\ \A q \in 1..L : q \in S <=> \E p \in S : GoesOn(bytes, chars, p, q)
    BY <1>1, RunsGrow
<1>3. V \subseteq 0..L /\ 0 \in V
    BY <1>1, RunsGrow
<1>4. S \subseteq V /\ \A a \in V, b \in S : a <= b => a \in S
    BY <1>1, RunsInside
<1>5. m \in S /\ \A y \in S : y <= m
    <2> HIDE DEF S, L
    <2>1. Max(S) \in S /\ \A y \in S : y <= Max(S)
        BY <1>1, <1>2, GreatestNumber
    <2>2. QED BY <2>1 DEF SoundUpTo, S
<1>6. v \in V /\ \A y \in V : y <= v
    <2> HIDE DEF V, L
    <2>1. Max(V) \in V /\ \A y \in V : y <= Max(V)
        BY <1>1, <1>3, GreatestNumber
    <2>2. QED BY <2>1 DEF ValidUpTo, V
<1> HIDE DEF L, chars, S, V, m, v
<1>7. m \in Nat /\ v \in Nat /\ m <= v /\ v <= L /\ m <= L /\ m \in V
    BY <1>1, <1>2, <1>3, <1>4, <1>5, <1>6
<1>8. ASSUME m < v PROVE m + 1 \in B
    <2>1. PICK q \in V : q <= v /\ GoesOn(bytes, Characters, m, q)
        BY <1>6, <1>7, <1>8, RunsGoOn DEF V
    <2>2. q \in 1..L /\ m < q /\ q \in Nat
        BY <1>3, <1>7, <2>1 DEF GoesOn
    <2>3. ~GoesOn(bytes, chars, m, q)
        <3>1. q \notin S
            BY <1>5, <1>7, <2>2
        <3>2. QED BY <1>2, <1>5, <2>2, <3>1
    <2>4. SubSeq(bytes, m + 1, q) = Replacement
        BY <2>1, <2>3 DEF GoesOn, chars
    <2>5. Len(SubSeq(bytes, m + 1, q)) = q - m
        BY <1>7, <2>2 DEF L
    <2>6. Len(Replacement) = 3
        BY DEF Replacement
    <2>7. q - m = 3
        BY <2>4, <2>5, <2>6, Zenon
    <2>8. q = (m + 1) + 2 /\ m + 1 \in 1..v - 2
        BY <1>7, <2>1, <2>2, <2>7
    <2>9. QED BY <2>4, <2>8 DEF Broken
<1>9. ASSUME NEW i \in B PROVE m + 1 <= i
    <2>1. i \in 1..v - 2 /\ SubSeq(bytes, i, i + 2) = Replacement
        BY DEF Broken
    <2>2. i \in Nat /\ i - 1 \in Nat /\ i + 2 \in 1..L /\ i \in 1..v /\ i \in 1..(L - 2) /\ i + 2 \in Nat
        BY <1>1, <1>7, <2>1
    <2>3. bytes[i] = "EF" /\ GoesOn(bytes, Characters, i - 1, i + 2)
        BY <2>1, <2>2, ReplacementShows DEF L
    <2>4. i - 1 \in V
        BY <1>6, <2>2, <2>3, LeadsBegin DEF V, Leads
    <2>5. ASSUME i - 1 < m PROVE FALSE
        <3>1. i - 1 \in S
            BY <1>4, <1>5, <1>7, <2>2, <2>4, <2>5
        <3>2. PICK q \in S : q <= m /\ GoesOn(bytes, chars, i - 1, q)
            BY <1>1, <1>5, <2>5, <3>1, RunsGoOn DEF S
        <3>3. GoesOn(bytes, Characters, i - 1, q) /\ SubSeq(bytes, (i - 1) + 1, q) # Replacement
            BY <3>2 DEF GoesOn, chars
        <3>4. q \in 1..L
            BY <1>2, <2>2, <3>2 DEF GoesOn
        <3>5. q = i + 2
            BY <2>2, <2>3, <3>3, <3>4, CharacterShows DEF L
        <3>6. (i - 1) + 1 = i
            BY <2>2
        <3>7. QED BY <2>1, <3>3, <3>5, <3>6
    <2>6. QED BY <1>7, <2>2, <2>5
<1>10. ASSUME NEW i \in B PROVE i \in Nat /\ i < v
    BY <1>7 DEF Broken
<1> HIDE DEF B
<1>11. B = {} => m = v
    BY <1>7, <1>8
<1>12. ASSUME B # {} PROVE m < v /\ Min(B) = m + 1
    <2>1. m < v
        BY <1>7, <1>9, <1>10, <1>12
    <2>2. m + 1 \in B /\ \A y \in B : m + 1 <= y
        BY <1>8, <1>9, <2>1
    <2>3. Min(B) \in B /\ \A y \in B : Min(B) <= y
        BY <2>2, Zenon DEF Min
    <2>4. Min(B) = m + 1
        BY <1>7, <1>10, <2>2, <2>3
    <2>5. QED BY <2>1, <2>4
<1>13. L \in S => m = L
    BY <1>1, <1>5, <1>7
<1>14. v \in 0..L /\ m \in 0..L
    BY <1>1, <1>7
<1>15. IF B = {} THEN m = v ELSE m < v /\ Min(B) = m + 1
    BY <1>11, <1>12, Zenon
<1>16. QED BY <1>5, <1>7, <1>13, <1>14, <1>15 DEF L, S, m, v, chars, B

\* The offset logged of a frame is where its first fault begins, for a payload of any
\* length.
THEOREM FaultOfAnyPayload ==
    ASSUME NEW bytes \in Seq(Bytes)
    PROVE  FaultIsTheFirst(bytes)
<1> DEFINE L == Len(bytes)
           S == Runs(bytes, Characters \ {Replacement})
           m == SoundUpTo(bytes)
           v == ValidUpTo(bytes)
           B == Broken(bytes, v)
           fault == FirstFaultByte(bytes)
<1>1. /\ v \in 0..L /\ m \in 0..L /\ m <= v /\ (L \in S => m = L) /\ m \in S
      /\ IF B = {} THEN m = v ELSE m < v /\ Min(B) = m + 1
    BY BrokenFollowsSound
<1>2. /\ Find(SubSeq(bytes, 1, v)) = IF B = {} THEN None ELSE Min(B) - 1
      /\ v = L => Find(bytes) = Find(SubSeq(bytes, 1, v))
    BY <1>1, FindsBroken
<1>3. L \in Nat /\ m \in Nat /\ v \in Nat
    BY <1>1
<1>4. IsText(bytes) <=> v = L
    BY DEF IsText
<1>5. fault = IF IsText(bytes) THEN Find(bytes)
              ELSE IF Find(SubSeq(bytes, 1, v)) # None THEN Find(SubSeq(bytes, 1, v)) ELSE v
    BY Zenon DEF FirstFaultByte
<1> HIDE DEF L, S, m, v, B, fault
<1>6. fault = IF m = L THEN None ELSE m
    <2>1. CASE B = {}
        <3>1. Find(SubSeq(bytes, 1, v)) = None /\ m = v
            BY <1>1, <1>2, <2>1, Zenon
        <3>2. QED BY <1>2, <1>4, <1>5, <3>1, Zenon
    <2>2. CASE B # {}
        <3>1. m < v /\ Min(B) = m + 1 /\ Find(SubSeq(bytes, 1, v)) = Min(B) - 1
            BY <1>1, <1>2, <2>2, Zenon
        <3>2. Find(SubSeq(bytes, 1, v)) = m /\ m # None /\ m # L
            BY <1>1, <1>3, <3>1 DEF None
        <3>3. QED BY <1>2, <1>4, <1>5, <3>2, Zenon
    <2>3. QED BY <2>1, <2>2, Zenon
<1>7. (fault # None <=> L \notin S) /\ (fault # None => fault = m)
    BY <1>1, <1>3, <1>6 DEF None
<1>8. IsText(bytes) => fault = Find(bytes)
    BY <1>5, Zenon
<1>9. BinaryRecord(bytes) = [kind |-> "binary", bytes |-> L, fffd |-> fault # None,
                             fault_byte_offset |-> fault]
    BY DEF BinaryRecord, Record, L, fault
<1>10. TextRecord(bytes) = [kind |-> "text", bytes |-> L, fffd |-> Find(bytes) # None,
                            fault_byte_offset |-> Find(bytes)]
    BY DEF TextRecord, Record, L
<1>11. /\ BinaryRecord(bytes).fffd <=> L \notin S
       /\ BinaryRecord(bytes).fffd => BinaryRecord(bytes).fault_byte_offset = m
    <2> DEFINE told == fault # None
    <2>1. BinaryRecord(bytes) = [kind |-> "binary", bytes |-> L, fffd |-> told,
                                 fault_byte_offset |-> fault]
        BY <1>9
    <2>2. told <=> fault # None
        OBVIOUS
    <2> HIDE DEF told
    <2>3. BinaryRecord(bytes).fffd = told /\ BinaryRecord(bytes).fault_byte_offset = fault
        BY <2>1
    <2>4. QED BY <1>7, <2>2, <2>3, Zenon
<1>12. IsText(bytes) => TextRecord(bytes) = [BinaryRecord(bytes) EXCEPT !.kind = "text"]
    BY <1>8, <1>9, <1>10
<1>13. QED BY <1>11, <1>12, Zenon DEF FaultIsTheFirst, L, S, m, SoundUpTo

-----------------------------------------------------------------------------
(* Checks made one after the other *)

LEMMA SomeFails ==
    ASSUME NEW checks, DOMAIN checks \subseteq Nat
    PROVE  \/ FirstRefusal(checks) = "none" /\ \A i \in DOMAIN checks : ~checks[i][1]
           \/ \E i \in DOMAIN checks : checks[i][1] /\ FirstRefusal(checks) = checks[i][2]
<1>1. CASE Failing(checks) = {}
    BY <1>1 DEF Failing, FirstRefusal
<1> SUFFICES ASSUME Failing(checks) # {}
             PROVE  \E i \in DOMAIN checks : checks[i][1] /\ FirstRefusal(checks) = checks[i][2]
    BY <1>1
<1>2. Failing(checks) \in SUBSET Nat
    BY DEF Failing
<1>3. \E x \in Failing(checks) : \A y \in Failing(checks) : x =< y
    BY <1>2, LeastNumber
<1>4. Min(Failing(checks)) \in Failing(checks)
    BY <1>3 DEF Min
<1>5. FirstRefusal(checks) = checks[Min(Failing(checks))][2]
    BY DEF FirstRefusal
<1>6. QED BY <1>4, <1>5 DEF Failing

LEMMA PassesAll ==
    ASSUME NEW checks, FirstRefusal(checks) = "none", DOMAIN checks \subseteq Nat,
           \A i \in DOMAIN checks : checks[i][2] # "none"
    PROVE  \A i \in DOMAIN checks : ~checks[i][1]
BY SomeFails

LEMMA FirstFails ==
    ASSUME NEW checks, DOMAIN checks \subseteq Nat
    PROVE  \/ FirstRefusal(checks) = "none" /\ \A i \in DOMAIN checks : ~checks[i][1]
           \/ \E i \in DOMAIN checks :
                  /\ checks[i][1] /\ FirstRefusal(checks) = checks[i][2]
                  /\ \A j \in DOMAIN checks : j < i => ~checks[j][1]
<1>1. CASE Failing(checks) = {}
    BY <1>1 DEF Failing, FirstRefusal
<1> SUFFICES ASSUME Failing(checks) # {}
             PROVE  \E i \in DOMAIN checks :
                        /\ checks[i][1] /\ FirstRefusal(checks) = checks[i][2]
                        /\ \A j \in DOMAIN checks : j < i => ~checks[j][1]
    BY <1>1
<1> DEFINE first == Min(Failing(checks))
<1>2. Failing(checks) \in SUBSET Nat
    BY DEF Failing
<1>3. \E x \in Failing(checks) : \A y \in Failing(checks) : x =< y
    BY <1>2, LeastNumber
<1>4. first \in Failing(checks) /\ \A y \in Failing(checks) : first =< y
    BY <1>3 DEF Min
<1>5. FirstRefusal(checks) = checks[first][2]
    BY DEF FirstRefusal
<1> HIDE DEF first
<1>6. \A j \in DOMAIN checks : j < first => ~checks[j][1]
    <2>1. \A j \in DOMAIN checks : checks[j][1] => j \in Failing(checks)
        BY DEF Failing
    <2>2. QED BY <1>2, <1>4, <2>1
<1>7. QED BY <1>4, <1>5, <1>6 DEF Failing

-----------------------------------------------------------------------------
(* One pass over the letters of a token *)

Flags == [padding : BOOLEAN, base : BOOLEAN, valid : BOOLEAN]

\* What the passes over the first letters of a word are.
Passing(seen, word) ==
    /\ seen \in [0..Len(word) -> Flags]
    /\ seen[0] = NoLetter
    /\ \A n \in 1..Len(word) : seen[n] = Letter(seen[n - 1], word[n])

LEMMA LetterIsSeen ==
    ASSUME NEW seen \in Flags, NEW letter
    PROVE  Letter(seen, letter) \in Flags
BY DEF Letter, Flags

LEMMA PassingExists ==
    ASSUME NEW S, NEW word \in Seq(S)
    PROVE  \E seen : Passing(seen, word)
<1> DEFINE L == Len(word)
           step == [p \in Flags \X (1..L) |-> Letter(p[1], word[p[2]])]
<1>1. L \in Nat
    OBVIOUS
<1> HIDE DEF L
<1>2. step \in [Flags \X (1..L) -> Flags]
    BY LetterIsSeen
<1>3. \A s \in Flags, n \in 1..L : step[<<s, n>>] = Letter(s, word[n])
    OBVIOUS
<1> HIDE DEF step
<1>4. NoLetter \in Flags
    BY DEF NoLetter, Flags
<1>5. PICK f \in [0..L -> Flags] : Loops(f, NoLetter, step, L)
    BY <1>1, <1>2, <1>4, LoopExists
<1>6. ASSUME NEW n \in 1..L PROVE f[n] = Letter(f[n - 1], word[n])
    <2>1. n - 1 \in 0..L
        BY <1>1
    <2>2. f[n - 1] \in Flags /\ f[n] = step[<<f[n - 1], n>>]
        BY <1>5, <2>1 DEF Loops
    <2>3. QED BY <1>3, <2>2
<1>7. QED BY <1>5, <1>6 DEF Passing, Loops, L

LEMMA LettersPass ==
    ASSUME NEW S, NEW word \in Seq(S), NEW seen, Passing(seen, word)
    PROVE  Letters(word) = seen[Len(word)]
<1> DEFINE L == Len(word)
           IsIt(f) == f = [n \in 0..L |-> IF n = 0 THEN NoLetter ELSE Letter(f[n - 1], word[n])]
           F == CHOOSE f : IsIt(f)
           T == {n \in 0..L : F[n] = seen[n]}
<1>1. L \in Nat
    OBVIOUS
<1>2. IsIt(seen)
    BY <1>1 DEF Passing
<1>3. IsIt(F)
    <2> HIDE DEF IsIt
    <2>1. QED BY <1>2
<1>4. Letters(word) = F[L]
    BY Zenon DEF Letters
<1>5. F[0] = NoLetter /\ \A n \in 1..L : F[n] = Letter(F[n - 1], word[n])
    <2>1. F = [n \in 0..L |-> IF n = 0 THEN NoLetter ELSE Letter(F[n - 1], word[n])]
        BY <1>3
    <2> HIDE DEF F, L
    <2>2. QED BY <1>1, <2>1
<1> HIDE DEF F
<1>6. 0 \in T /\ \A n \in 1..L : n - 1 \in T => n \in T
    BY <1>1, <1>5 DEF Passing
<1>7. L \in T
    <2> HIDE DEF T
    <2>1. 0..L \subseteq T
        BY <1>1, <1>6, UpTo, Zenon
    <2>2. QED BY <1>1, <2>1
<1>8. QED BY <1>4, <1>7

\* The first n letters are k in a token, and then the padding.
Padded(word, n, k) == \A i \in 1..n : word[i] = (IF i <= k THEN "base" ELSE "pad")

LEMMA PassTells ==
    ASSUME NEW S, NEW word \in Seq(S), NEW seen, Passing(seen, word)
    PROVE  \A n \in 0..Len(word) : seen[n].valid =>
               /\ seen[n].base <=> n # 0
               /\ \E k \in 0..n : /\ n # 0 => k # 0
                                  /\ seen[n].padding <=> k # n
                                  /\ Padded(word, n, k)
<1> DEFINE L == Len(word)
           Good(s, n) == s.valid => /\ s.base <=> n # 0
                                 /\ \E k \in 0..n : /\ n # 0 => k # 0
                                                    /\ s.padding <=> k # n
                                                    /\ Padded(word, n, k)
           T == {n \in 0..L : Good(seen[n], n)}
<1>1. L \in Nat
    OBVIOUS
<1>2. 0 \in T
    <2>1. Good(NoLetter, 0)
        BY DEF NoLetter, Padded
    <2>2. seen[0] = NoLetter
        BY DEF Passing
    <2> HIDE DEF Good
    <2>3. QED BY <1>1, <2>1, <2>2
<1>3. ASSUME NEW n \in 1..L, n - 1 \in T PROVE n \in T
    <2> DEFINE s == seen[n - 1]
               t == seen[n]
    <2>1. n - 1 \in 0..L /\ n \in 0..L /\ n \in Nat /\ n - 1 \in Nat /\ n # 0
        BY <1>1
    <2>2. s \in Flags /\ t = Letter(s, word[n]) /\ t \in Flags /\ Good(s, n - 1)
        BY <1>3, <2>1 DEF Passing
    <2>3. SUFFICES ASSUME t.valid
                   PROVE  t.base /\ \E k \in 0..n : /\ k # 0 /\ (t.padding <=> k # n)
                                                    /\ Padded(word, n, k)
        BY <2>1
    <2> HIDE DEF s, t
    <2>4. CASE word[n] = "pad"
        <3>1. s.valid /\ s.base /\ t.base /\ t.padding
            BY <2>2, <2>3, <2>4 DEF Letter, Flags
        <3>2. PICK k \in 0..(n - 1) : (n - 1 # 0 => k # 0) /\ Padded(word, n - 1, k)
            BY <2>2, <3>1
        <3>3. n - 1 # 0
            BY <2>2, <3>1
        <3>4. k \in 0..n /\ k # 0 /\ k # n
            BY <2>1, <3>2, <3>3
        <3>5. Padded(word, n, k)
            <4>1. ASSUME NEW i \in 1..n PROVE word[i] = (IF i <= k THEN "base" ELSE "pad")
                <5>1. i # n => i \in 1..(n - 1)
                    BY <2>1
                <5>2. i = n => ~(i <= k)
                    BY <2>1, <3>2
                <5>3. QED BY <5>1, <5>2, <2>4, <3>2 DEF Padded
            <4>2. QED BY <4>1 DEF Padded
        <3>6. QED BY <3>1, <3>4, <3>5
    <2>5. CASE word[n] # "pad"
        <3>1. word[n] = "base" /\ ~s.padding /\ s.valid /\ t.base /\ ~t.padding
            BY <2>2, <2>3, <2>5 DEF Letter, Flags
        <3>2. Padded(word, n - 1, n - 1)
            BY <2>2, <3>1
        <3>3. Padded(word, n, n)
            <4>1. ASSUME NEW i \in 1..n PROVE word[i] = "base" /\ i <= n
                <5>1. i # n => i \in 1..(n - 1) /\ i <= n - 1
                    BY <2>1
                <5>2. QED BY <5>1, <2>1, <3>1, <3>2 DEF Padded
            <4>2. QED BY <4>1 DEF Padded
        <3>4. QED BY <2>1, <3>1, <3>3
    <2>6. QED BY <2>4, <2>5
<1>4. 0..L \subseteq T
    <2> HIDE DEF T, L
    <2>1. QED BY <1>1, <1>2, <1>3, UpTo, Zenon
<1>5. QED BY <1>4

LEMMA TokenPasses ==
    ASSUME NEW S, NEW word \in Seq(S), NEW seen, Passing(seen, word),
           NEW k \in 1..Len(word), Padded(word, Len(word), k)
    PROVE  seen[Len(word)].valid /\ seen[Len(word)].base
<1> DEFINE L == Len(word)
           Good(s, n) == s.valid /\ (s.base <=> n # 0) /\ (s.padding <=> n > k)
           T == {n \in 0..L : Good(seen[n], n)}
<1>1. L \in Nat /\ k \in Nat /\ k # 0
    OBVIOUS
<1>2. 0 \in T
    <2>1. Good(NoLetter, 0)
        BY <1>1 DEF NoLetter
    <2>2. seen[0] = NoLetter
        BY DEF Passing
    <2> HIDE DEF Good
    <2>3. QED BY <1>1, <2>1, <2>2
<1>3. ASSUME NEW n \in 1..L, n - 1 \in T PROVE n \in T
    <2> DEFINE s == seen[n - 1]
               t == seen[n]
    <2>1. n - 1 \in 0..L /\ n \in 0..L /\ n \in Nat /\ n - 1 \in Nat /\ n # 0
        BY <1>1
    <2>2. s \in Flags /\ t = Letter(s, word[n]) /\ Good(s, n - 1)
        BY <1>3, <2>1 DEF Passing
    <2>3. word[n] = IF n <= k THEN "base" ELSE "pad"
        BY DEF Padded
    <2> SUFFICES Good(t, n)
        BY <2>1
    <2> HIDE DEF s, t
    <2>4. CASE n <= k
        <3>1. word[n] = "base" /\ ~s.padding /\ s.valid
            BY <1>1, <2>1, <2>2, <2>3, <2>4
        <3>2. t.valid /\ t.base /\ ~t.padding
            BY <2>2, <3>1 DEF Letter, Flags
        <3>3. QED BY <1>1, <2>1, <2>4, <3>2
    <2>5. CASE ~(n <= k)
        <3>1. word[n] = "pad" /\ s.base /\ s.valid
            BY <1>1, <2>1, <2>2, <2>3, <2>5
        <3>2. t.valid /\ t.base /\ t.padding
            BY <2>2, <3>1 DEF Letter, Flags
        <3>3. QED BY <1>1, <2>1, <2>5, <3>2
    <2>6. QED BY <2>4, <2>5
<1>4. 0..L \subseteq T
    <2> HIDE DEF T, L
    <2>1. QED BY <1>1, <1>2, <1>3, UpTo, Zenon
<1>5. L \in 0..L /\ L # 0
    BY <1>1
<1>6. QED BY <1>4, <1>5

\* The one pass of valid_bearer with its two flags lets through the words of the
\* grammar of a bearer token and no other, whatever their length.
THEOREM BearerIsToken ==
    ASSUME NEW S, NEW form, form.words \in Seq(Seq(S))
    PROVE  ValidBearer(form) <=>
               form.scheme = "bearer" /\ Len(form.words) = 1 /\ B64Token(form.words[1])
<1>1. ASSUME Len(form.words) = 1, NEW word, word = form.words[1]
      PROVE  Letters(word).valid /\ Letters(word).base <=> B64Token(word)
    <2>1. word \in Seq(S)
        BY <1>1
    <2>2. PICK seen : Passing(seen, word)
        BY <2>1, PassingExists
    <2>3. Letters(word) = seen[Len(word)]
        BY <2>1, <2>2, LettersPass
    <2>4. Len(word) \in Nat /\ Len(word) \in 0..Len(word)
        BY <2>1
    <2>5. ASSUME Letters(word).valid, Letters(word).base PROVE B64Token(word)
        <3>1. Len(word) # 0 /\ \E k \in 0..Len(word) : k # 0 /\ Padded(word, Len(word), k)
            BY <2>1, <2>2, <2>3, <2>4, <2>5, PassTells
        <3>2. QED BY <2>4, <3>1 DEF B64Token, Padded
    <2>6. ASSUME B64Token(word) PROVE Letters(word).valid /\ Letters(word).base
        <3>1. PICK k \in 1..Len(word) : Padded(word, Len(word), k)
            BY <2>6 DEF B64Token, Padded
        <3>2. QED BY <2>1, <2>2, <2>3, <3>1, TokenPasses
    <2>7. QED BY <2>5, <2>6
<1>2. QED BY <1>1 DEF ValidBearer

-----------------------------------------------------------------------------
(* The values of a header that are not blank *)

\* What append_non_empty_values has after each of the values.
Keeps(kept, values, S) ==
    /\ kept \in [0..Len(values) -> Seq(S)]
    /\ kept[0] = <<>>
    /\ \A n \in 1..Len(values) :
           kept[n] = IF values[n] = "blank" THEN kept[n - 1] ELSE Append(kept[n - 1], values[n])

LEMMA KeepsExist ==
    ASSUME NEW S, NEW values \in Seq(S)
    PROVE  \E kept : Keeps(kept, values, S)
<1> DEFINE L == Len(values)
           keep(s, n) == IF values[n] = "blank" THEN s ELSE Append(s, values[n])
           step == [p \in Seq(S) \X (1..L) |-> keep(p[1], p[2])]
<1>1. L \in Nat /\ \A n \in 1..L : values[n] \in S
    OBVIOUS
<1>2. \A s \in Seq(S), n \in 1..L : keep(s, n) \in Seq(S)
    BY <1>1
<1> HIDE DEF L, keep
<1>3. step \in [Seq(S) \X (1..L) -> Seq(S)]
    BY <1>2
<1>4. \A s \in Seq(S), n \in 1..L : step[<<s, n>>] = keep(s, n)
    OBVIOUS
<1> HIDE DEF step
<1>5. <<>> \in Seq(S)
    OBVIOUS
<1>6. PICK f \in [0..L -> Seq(S)] : Loops(f, <<>>, step, L)
    BY <1>1, <1>3, <1>5, LoopExists
<1>7. ASSUME NEW n \in 1..L PROVE f[n] = keep(f[n - 1], n)
    <2>1. n - 1 \in 0..L
        BY <1>1
    <2>2. f[n - 1] \in Seq(S) /\ f[n] = step[<<f[n - 1], n>>]
        BY <1>6, <2>1 DEF Loops
    <2>3. QED BY <1>4, <2>2
<1>8. QED BY <1>6, <1>7 DEF Keeps, Loops, L, keep

LEMMA NonEmptyIsKept ==
    ASSUME NEW S, NEW h, NEW name, h[name] \in Seq(S), NEW kept, Keeps(kept, h[name], S)
    PROVE  NonEmpty(h, name) = kept[Len(h[name])]
<1> DEFINE values == h[name]
           L == Len(values)
           keep(s, n) == IF values[n] = "blank" THEN s ELSE Append(s, values[n])
           IsIt(f) == f = [n \in 0..L |-> IF n = 0 THEN <<>> ELSE keep(f[n - 1], n)]
           F == CHOOSE f : IsIt(f)
           T == {n \in 0..L : F[n] = kept[n]}
<1>1. L \in Nat
    OBVIOUS
<1>2. /\ kept \in [0..L -> Seq(S)] /\ kept[0] = <<>>
      /\ \A n \in 1..L : kept[n] = keep(kept[n - 1], n)
    BY DEF Keeps
<1>3. NonEmpty(h, name) = F[L]
    BY Zenon DEF NonEmpty
<1> HIDE DEF keep, L
<1>4. IsIt(kept)
    <2>1. \A n \in 0..L : kept[n] = IF n = 0 THEN <<>> ELSE keep(kept[n - 1], n)
        BY <1>1, <1>2
    <2>2. QED BY <1>2, <2>1
<1>5. IsIt(F)
    <2> HIDE DEF IsIt
    <2>1. QED BY <1>4
<1>6. F[0] = <<>> /\ \A n \in 1..L : F[n] = keep(F[n - 1], n)
    <2>1. F = [n \in 0..L |-> IF n = 0 THEN <<>> ELSE keep(F[n - 1], n)]
        BY <1>5
    <2> HIDE DEF F
    <2>2. QED BY <1>1, <2>1
<1> HIDE DEF F
<1>7. 0 \in T /\ \A n \in 1..L : n - 1 \in T => n \in T
    BY <1>1, <1>2, <1>6
<1>8. L \in T
    <2> HIDE DEF T
    <2>1. 0..L \subseteq T
        BY <1>1, <1>7, UpTo, Zenon
    <2>2. QED BY <1>1, <2>1
<1>9. QED BY <1>3, <1>8 DEF L

LEMMA NonEmptyKeeps ==
    ASSUME NEW S, NEW h, NEW name, h[name] \in Seq(S)
    PROVE  /\ NonEmpty(h, name) \in Seq(S)
           /\ (\A i \in 1..Len(h[name]) : h[name][i] # "blank") => NonEmpty(h, name) = h[name]
<1> DEFINE values == h[name]
           L == Len(values)
<1>1. L \in Nat /\ values = [i \in 1..L |-> values[i]] /\ L \in 0..L
    OBVIOUS
<1>2. PICK kept : Keeps(kept, values, S)
    BY KeepsExist
<1>3. NonEmpty(h, name) = kept[L]
    BY <1>2, NonEmptyIsKept
<1>4. kept[L] \in Seq(S)
    BY <1>1, <1>2 DEF Keeps
<1>5. ASSUME \A i \in 1..L : values[i] # "blank" PROVE kept[L] = values
    <2> DEFINE T == {n \in 0..L : kept[n] = [i \in 1..n |-> values[i]]}
    <2> HIDE DEF values, L
    <2>1. 0 \in T
        BY <1>1, <1>2 DEF Keeps, L
    <2>2. ASSUME NEW n \in 1..L, n - 1 \in T PROVE n \in T
        <3>1. n - 1 \in 0..L /\ n \in 0..L /\ n \in Nat /\ n - 1 \in Nat
            BY <1>1
        <3>2. kept[n] = Append(kept[n - 1], values[n]) /\ kept[n - 1] \in Seq(S)
            BY <1>2, <1>5, <3>1 DEF Keeps, L
        <3>3. kept[n - 1] = [i \in 1..(n - 1) |-> values[i]]
            BY <2>2
        <3>4. Len(kept[n - 1]) = n - 1
            BY <3>1, <3>3
        <3>5. kept[n] = [i \in 1..n |-> values[i]]
            BY <3>1, <3>2, <3>3, <3>4
        <3>6. QED BY <3>1, <3>5
    <2>3. 0..L \subseteq T
        <3> HIDE DEF T
        <3>1. QED BY <1>1, <2>1, <2>2, UpTo, Zenon
    <2>4. QED BY <1>1, <2>3
<1>6. QED BY <1>3, <1>4, <1>5

-----------------------------------------------------------------------------
(* What a request that was not refused looks like *)

LEMMA RangesAre ==
    /\ Range(RequestAllowlist) =
           {"content-type", "accept", "openai-organization", "openai-project",
            "openai-safety-identifier", "openai-beta", "idempotency-key", "openai-alpha",
            "x-oai-attestation"}
    /\ Range(ClientProtocolHeaders) =
           {"openai-alpha", "x-session-id", "session-id", "thread-id", "originator",
            "x-oai-attestation"}
<1>1. Range(RequestAllowlist) = {RequestAllowlist[i] : i \in 1..9}
    BY DEF Range, RequestAllowlist
<1>2. Range(ClientProtocolHeaders) = {ClientProtocolHeaders[i] : i \in 1..6}
    BY DEF Range, ClientProtocolHeaders
<1>3. QED BY <1>1, <1>2 DEF RequestAllowlist, ClientProtocolHeaders

LEMMA SplitChecks ==
    ASSUME NEW T, NEW a \in Seq(T), NEW b \in Seq(T),
           \A i \in 1..Len(a \o b) : ~(a \o b)[i][1]
    PROVE  (\A i \in 1..Len(a) : ~a[i][1]) /\ (\A i \in 1..Len(b) : ~b[i][1])
<1>1. ASSUME NEW i \in 1..Len(a) PROVE i \in 1..Len(a \o b) /\ (a \o b)[i] = a[i]
    OBVIOUS
<1>2. ASSUME NEW i \in 1..Len(b)
      PROVE  Len(a) + i \in 1..Len(a \o b) /\ (a \o b)[Len(a) + i] = b[i]
    OBVIOUS
<1>3. QED BY <1>1, <1>2, Zenon

LEMMA OfficialPasses ==
    ASSUME NEW h, NEW dialect, OfficialRefusal(h, dialect) = "none"
    PROVE  \A name \in {"content-type", "openai-organization", "openai-project",
                        "openai-safety-identifier", "idempotency-key", "openai-alpha",
                        "authorization", "x-oai-attestation"} :
               ~(Counts(name, dialect) /\ Repeated(h, name))
<1> DEFINE names == SingletonRequestHeaders
           checks == [i \in 1..Len(names) |->
                         <<Counts(names[i], dialect) /\ Repeated(h, names[i]),
                           RepetitionRefusal(names[i])>>]
<1>1. FirstRefusal(checks) = "none"
    BY Zenon DEF OfficialRefusal, ForEach
<1>2. DOMAIN checks = 1..8
    BY DEF SingletonRequestHeaders
<1>3. \A i \in 1..8 : /\ checks[i][1] <=> Counts(names[i], dialect) /\ Repeated(h, names[i])
                      /\ checks[i][2] = RepetitionRefusal(names[i])
    BY <1>2
<1> HIDE DEF checks
<1>4. \A i \in 1..8 : checks[i][2] # "none"
    BY <1>3 DEF RepetitionRefusal
<1>5. \A i \in 1..8 : ~(Counts(names[i], dialect) /\ Repeated(h, names[i]))
    BY <1>1, <1>2, <1>3, <1>4, PassesAll
<1>6. QED BY <1>5 DEF SingletonRequestHeaders

HeaderErrors == {"invalid_header", "ambiguous_authorization", "invalid_subprotocol", "no_credential"}

LEMMA MadeOfChecks ==
    ASSUME NEW n \in Nat, NEW T, NEW a, a = [i \in 1..n |-> a[i]], \A i \in 1..n : a[i] \in T
    PROVE  a \in Seq(T) /\ Len(a) = n
OBVIOUS

LEMMA AppendTo ==
    ASSUME NEW S, NEW s \in Seq(S), NEW x
    PROVE  /\ Len(Append(s, x)) = Len(s) + 1
           /\ Append(s, x)[Len(s) + 1] = x
           /\ \A i \in 1..Len(s) : Append(s, x)[i] = s[i]
OBVIOUS

LEMMA SocketPasses ==
    ASSUME NEW h, NEW dialect, WebSocketRefusal(h, dialect) = "none"
    PROVE  \A name \in {"origin", "openai-organization", "openai-project",
                        "openai-safety-identifier", "openai-alpha", "x-oai-attestation",
                        "authorization"} :
               ~(Counts(name, dialect) /\ Repeated(h, name))
<1> DEFINE counted == Append(SocketSingletons, "authorization")
           read == Append(SocketSingletons, "openai-beta")
           offered == Range(h["sec-websocket-protocol"])
           twice(kind, name) == kind \in offered /\ h[name] # <<>>
           a == [i \in 1..Len(counted) |->
                    <<Counts(counted[i], dialect) /\ Repeated(h, counted[i]),
                      RepetitionRefusal(counted[i])>>]
           b == [i \in 1..Len(read) |-> <<Undecodable(h, read[i]), InvalidHeader(read[i])>>]
           c == <<<<dialect # "official" /\ offered # {}, "invalid_subprotocol">>,
                  <<twice("organization", "openai-organization")
                       \/ twice("project", "openai-project"), "invalid_subprotocol">>,
                  <<"credential" \in offered /\ h["authorization"] # <<>>,
                       "invalid_subprotocol">>>>
           T == BOOLEAN \X HeaderErrors
<1>1. FirstRefusal(a \o b \o c) = "none"
    BY Zenon DEF WebSocketRefusal, ForEach
<1>2. PICK S : SocketSingletons \in Seq(S) /\ Len(SocketSingletons) = 6
    <2>1. ASSUME NEW p, NEW q, NEW r, NEW s, NEW t, NEW u
          PROVE  <<p, q, r, s, t, u>> \in Seq({p, q, r, s, t, u}) /\ Len(<<p, q, r, s, t, u>>) = 6
        OBVIOUS
    <2>2. QED BY <2>1, Zenon DEF SocketSingletons
<1>3. /\ Len(counted) = 7 /\ Len(read) = 7 /\ counted[7] = "authorization"
      /\ \A i \in 1..6 : counted[i] = SocketSingletons[i]
    <2> DEFINE L == Len(SocketSingletons)
    <2> HIDE DEF counted
    <2>1. /\ Len(counted) = L + 1 /\ counted[L + 1] = "authorization"
          /\ \A i \in 1..L : counted[i] = SocketSingletons[i]
        <3>1. ASSUME NEW s, s = SocketSingletons, NEW x, NEW t, t = Append(s, x)
              PROVE  /\ Len(t) = Len(s) + 1 /\ t[Len(s) + 1] = x
                     /\ \A i \in 1..Len(s) : t[i] = s[i]
            BY <1>2, <3>1, AppendTo
        <3>2. QED BY <3>1 DEF counted
    <2>2. Len(read) = L + 1
        BY <1>2, AppendTo, Zenon
    <2>3. L = 6
        BY <1>2
    <2> HIDE DEF L, counted, read
    <2>4. QED BY <2>1, <2>2, <2>3
<1> HIDE DEF counted, read
<1>4. a \in Seq(T)
    <2>1. \A i \in 1..7 : /\ (Counts(counted[i], dialect) /\ Repeated(h, counted[i])) \in BOOLEAN
                          /\ RepetitionRefusal(counted[i]) \in HeaderErrors
        BY DEF RepetitionRefusal, HeaderErrors
    <2>2. \A i \in 1..7 : a[i] \in T
        BY <1>3, <2>1, Zenon
    <2>3. a = [i \in 1..7 |-> a[i]]
        BY <1>3
    <2> HIDE DEF a, T
    <2>4. QED BY <2>2, <2>3, MadeOfChecks
<1>5. b \in Seq(T)
    <2>1. \A i \in 1..7 : Undecodable(h, read[i]) \in BOOLEAN /\ InvalidHeader(read[i]) \in HeaderErrors
        BY DEF InvalidHeader, HeaderErrors, Undecodable
    <2>2. \A i \in 1..7 : b[i] \in T
        BY <1>3, <2>1, Zenon
    <2>3. b = [i \in 1..7 |-> b[i]]
        BY <1>3
    <2> HIDE DEF b, T
    <2>4. QED BY <2>2, <2>3, MadeOfChecks
<1>6. c \in Seq(T)
    <2>1. ASSUME NEW x \in BOOLEAN, NEW y \in BOOLEAN, NEW z \in BOOLEAN,
                 NEW r \in HeaderErrors
          PROVE  <<<<x, r>>, <<y, r>>, <<z, r>>>> \in Seq(T)
        OBVIOUS
    <2>2. "invalid_subprotocol" \in HeaderErrors
        BY DEF HeaderErrors
    <2>3. QED BY <2>1, <2>2
<1>7. \A i \in 1..7 : a[i][1] <=> Counts(counted[i], dialect) /\ Repeated(h, counted[i])
    BY <1>3
<1>8. Len(a) = 7
    BY <1>3
<1> HIDE DEF a, b, c
<1>9. a \o b \in Seq(T) /\ a \o b \o c \in Seq(T)
    BY <1>4, <1>5, <1>6
<1>10. \A i \in 1..Len(a \o b \o c) : ~(a \o b \o c)[i][1]
    <2> DEFINE checks == a \o b \o c
    <2>1. DOMAIN checks = 1..Len(checks) /\ DOMAIN checks \subseteq Nat
        BY <1>9
    <2>2. \A i \in DOMAIN checks : checks[i] \in T
        BY <1>9
    <2>3. \A t \in T : t[2] # "none"
        BY DEF HeaderErrors
    <2> HIDE DEF checks, T
    <2>4. QED BY <1>1, <2>1, <2>2, <2>3, PassesAll DEF checks
<1>11. \A i \in 1..Len(a) : ~a[i][1]
    <2>1. \A i \in 1..Len(a \o b) : ~(a \o b)[i][1]
        <3> HIDE DEF T
        <3>1. QED BY <1>6, <1>9, <1>10, SplitChecks
    <2> HIDE DEF T
    <2>2. QED BY <1>4, <1>5, <2>1, SplitChecks
<1>12. \A i \in 1..7 : ~(Counts(counted[i], dialect) /\ Repeated(h, counted[i]))
    BY <1>7, <1>8, <1>11
<1>13. QED BY <1>3, <1>12 DEF SocketSingletons

\* What the private validations say of the headers that name a session.
LEMMA ProtocolHeadersPass ==
    ASSUME NEW h
    PROVE  /\ ProtocolHeadersRefused(h) \in Seq(BOOLEAN \X HeaderErrors)
           /\ (\A i \in 1..Len(ProtocolHeadersRefused(h)) : ~ProtocolHeadersRefused(h)[i][1])
                  => \A name \in Range(ClientProtocolHeaders) : ~Repeated(h, name)
<1> DEFINE names == ClientProtocolHeaders
           checks == [i \in 1..Len(names) |->
                         <<Repeated(h, names[i]) \/ Undecodable(h, names[i]),
                           InvalidHeader(names[i])>>]
<1>1. ProtocolHeadersRefused(h) = checks
    BY Zenon DEF ProtocolHeadersRefused, ForEach
<1>2. Len(names) = 6
    BY DEF ClientProtocolHeaders
<1>3. \A i \in 1..6 : /\ (Repeated(h, names[i]) \/ Undecodable(h, names[i])) \in BOOLEAN
                      /\ InvalidHeader(names[i]) \in HeaderErrors
    BY DEF InvalidHeader, HeaderErrors
<1>4. checks \in Seq(BOOLEAN \X HeaderErrors) /\ Len(checks) = 6
    <2>1. \A i \in 1..6 : checks[i] \in BOOLEAN \X HeaderErrors
        BY <1>2, <1>3, Zenon
    <2>2. checks = [i \in 1..6 |-> checks[i]]
        BY <1>2
    <2> HIDE DEF checks
    <2>3. QED BY <2>1, <2>2, MadeOfChecks
<1>5. \A i \in 1..6 : checks[i][1] <=> Repeated(h, names[i]) \/ Undecodable(h, names[i])
    BY <1>2
<1>6. (\A i \in 1..6 : ~checks[i][1]) => \A i \in 1..6 : ~Repeated(h, names[i])
    BY <1>5
<1>7. \A name \in Range(names) : \E i \in 1..6 : name = names[i]
    BY <1>2 DEF Range, ClientProtocolHeaders
<1> HIDE DEF checks
<1>8. QED BY <1>1, <1>4, <1>6, <1>7

LEMMA NoneFails ==
    ASSUME NEW checks \in Seq(BOOLEAN \X HeaderErrors), FirstRefusal(checks) = "none"
    PROVE  \A i \in 1..Len(checks) : ~checks[i][1]
<1> DEFINE T == BOOLEAN \X HeaderErrors
<1>1. DOMAIN checks = 1..Len(checks) /\ DOMAIN checks \subseteq Nat
    OBVIOUS
<1>2. \A i \in DOMAIN checks : checks[i] \in T
    OBVIOUS
<1>3. \A t \in T : t[2] # "none"
    BY DEF HeaderErrors
<1> HIDE DEF T
<1>4. QED BY <1>1, <1>2, <1>3, PassesAll

LEMMA CallPasses ==
    ASSUME NEW h, NEW dialect, CallRefusal(h, dialect) = "none", Len(h["content-type"]) \in Nat
    PROVE  /\ \A name \in Range(ClientProtocolHeaders) : ~Repeated(h, name)
           /\ Len(h["content-type"]) = 1
<1> DEFINE T == BOOLEAN \X HeaderErrors
           typed == Len(h["content-type"]) # 1 \/ Undecodable(h, "content-type")
           a == <<<<dialect = "official", "invalid_header">>>>
           b == ProtocolHeadersRefused(h)
           c == <<<<Repeated(h, "authorization"), "ambiguous_authorization">>,
                  <<Undecodable(h, "authorization"), "invalid_header">>,
                  <<typed, "invalid_header">>,
                  <<AlphaDisagrees(h, dialect), "invalid_header">>>>
<1>1. FirstRefusal(a \o b \o c) = "none"
    BY Zenon DEF CallRefusal
<1>2. b \in Seq(T)
    BY ProtocolHeadersPass
<1>3. a \in Seq(T) /\ c \in Seq(T) /\ Len(c) = 4 /\ (c[3][1] <=> typed)
    <2>1. ASSUME NEW p \in T, NEW q \in T, NEW r \in T, NEW s \in T
          PROVE  <<p, q, r, s>> \in Seq(T) /\ Len(<<p, q, r, s>>) = 4
        OBVIOUS
    <2>2. ASSUME NEW p \in T PROVE <<p>> \in Seq(T)
        OBVIOUS
    <2>3. ASSUME NEW p \in BOOLEAN, NEW e \in {"invalid_header", "ambiguous_authorization"}
          PROVE  <<p, e>> \in T /\ <<p, e>>[1] = p
        BY DEF HeaderErrors
    <2>4. /\ Repeated(h, "authorization") \in BOOLEAN /\ typed \in BOOLEAN
          /\ Undecodable(h, "authorization") \in BOOLEAN /\ AlphaDisagrees(h, dialect) \in BOOLEAN
          /\ (dialect = "official") \in BOOLEAN
        BY DEF Repeated, Undecodable, AlphaDisagrees
    <2>5. c[3] = <<typed, "invalid_header">>
        OBVIOUS
    <2> HIDE DEF T, typed
    <2>6. QED BY <2>1, <2>2, <2>3, <2>4, <2>5, Zenon
<1> HIDE DEF T, a, b, c
<1>4. a \o b \in Seq(T) /\ a \o b \o c \in Seq(T)
    BY <1>2, <1>3
<1>5. \A i \in 1..Len(a \o b \o c) : ~(a \o b \o c)[i][1]
    BY <1>1, <1>4, NoneFails DEF T
<1>6. (\A i \in 1..Len(a \o b) : ~(a \o b)[i][1]) /\ (\A i \in 1..Len(c) : ~c[i][1])
    BY <1>3, <1>4, <1>5, SplitChecks
<1>7. \A i \in 1..Len(b) : ~b[i][1]
    BY <1>2, <1>3, <1>6, SplitChecks
<1>8. ~c[3][1]
    BY <1>3, <1>6
<1>9. QED BY <1>3, <1>7, <1>8, ProtocolHeadersPass DEF b

LEMMA SidebandPasses ==
    ASSUME NEW h, NEW dialect, SidebandRefusal(h, dialect) = "none"
    PROVE  \A name \in Range(ClientProtocolHeaders) : ~Repeated(h, name)
<1> DEFINE T == BOOLEAN \X HeaderErrors
           a == ProtocolHeadersRefused(h)
           b == <<<<Repeated(h, "authorization"), "ambiguous_authorization">>,
                  <<AlphaDisagrees(h, dialect), "invalid_header">>>>
<1>1. FirstRefusal(a \o b) = "none"
    BY Zenon DEF SidebandRefusal
<1>2. a \in Seq(T)
    BY ProtocolHeadersPass
<1>3. b \in Seq(T)
    <2>1. ASSUME NEW p \in T, NEW q \in T PROVE <<p, q>> \in Seq(T)
        OBVIOUS
    <2>2. ASSUME NEW p \in BOOLEAN, NEW e \in {"invalid_header", "ambiguous_authorization"}
          PROVE  <<p, e>> \in T
        BY DEF HeaderErrors
    <2>3. Repeated(h, "authorization") \in BOOLEAN /\ AlphaDisagrees(h, dialect) \in BOOLEAN
        BY DEF Repeated, AlphaDisagrees
    <2> HIDE DEF T
    <2>4. QED BY <2>1, <2>2, <2>3, Zenon
<1> HIDE DEF T, a, b
<1>4. a \o b \in Seq(T)
    BY <1>2, <1>3
<1>5. \A i \in 1..Len(a \o b) : ~(a \o b)[i][1]
    BY <1>1, <1>4, NoneFails DEF T
<1>6. QED BY <1>2, <1>3, <1>5, SplitChecks, ProtocolHeadersPass DEF a

\* What the building has left to say after validation.
LEMMA BuildingPasses ==
    ASSUME NEW h, NEW upstream, NEW policy, NEW route,
           route \in {"official", "websocket"},
           BuildRefusal(route, h, upstream, policy) = "none"
    PROVE  \/ ~AuthorizationRefused(h, upstream, policy)
           \/ route = "websocket" /\ "credential" \in Range(h["sec-websocket-protocol"])
<1> DEFINE dialect == DialectOf(h)
           browser == route = "websocket" /\ "credential" \in Range(h["sec-websocket-protocol"])
           private == route \in {"private_call", "sideband"}
           checks == <<
            <<~private /\ dialect # "official"
                  /\ (AlphaDisagrees(h, dialect) \/ h["openai-alpha"][1] = "blank"),
                "invalid_header">>,
            <<~private /\ dialect # "official" /\ AccountRefused(upstream), "invalid_header">>,
            <<~browser /\ AuthorizationRefused(h, upstream, policy), "no_credential">>,
            <<private /\ AccountRefused(upstream), "no_credential">>>>
<1>1. FirstRefusal(checks) = "none"
    BY Zenon DEF BuildRefusal
<1>2. /\ DOMAIN checks = 1..4 /\ \A i \in 1..4 : checks[i][2] # "none"
      /\ checks[3][1] = (~browser /\ AuthorizationRefused(h, upstream, policy))
    OBVIOUS
<1> HIDE DEF checks
<1>3. ~checks[3][1]
    BY <1>1, <1>2, PassesAll
<1>4. QED BY <1>2, <1>3

\* Once validation has passed only a credential can be missing.
LEMMA BuildingMisses ==
    ASSUME NEW h, NEW upstream, NEW policy, NEW route
    PROVE  BuildRefusal(route, h, upstream, policy)
               \in {"none", "no_credential"}
                   \cup (IF AccountRefused(upstream) THEN {"invalid_header"} ELSE {})
<1> DEFINE dialect == DialectOf(h)
           browser == route = "websocket" /\ "credential" \in Range(h["sec-websocket-protocol"])
           private == route \in {"private_call", "sideband"}
           alpha == ~private /\ dialect # "official"
                        /\ (AlphaDisagrees(h, dialect) \/ h["openai-alpha"][1] = "blank")
           account == ~private /\ dialect # "official" /\ AccountRefused(upstream)
           checks == <<<<alpha, "invalid_header">>, <<account, "invalid_header">>,
                       <<~browser /\ AuthorizationRefused(h, upstream, policy), "no_credential">>,
                       <<private /\ AccountRefused(upstream), "no_credential">>>>
<1>1. BuildRefusal(route, h, upstream, policy) = FirstRefusal(checks)
    BY Zenon DEF BuildRefusal
<1>2. ~alpha
    BY DEF AlphaDisagrees, DialectOf
<1>3. account => AccountRefused(upstream)
    OBVIOUS
<1> HIDE DEF alpha, account
<1>4. /\ DOMAIN checks = 1..4 /\ checks[1][1] = alpha /\ checks[2][1] = account
      /\ checks[2][2] = "invalid_header"
      /\ checks[3][2] = "no_credential" /\ checks[4][2] = "no_credential"
    OBVIOUS
<1> HIDE DEF checks
<1>5. \/ FirstRefusal(checks) = "none"
      \/ \E i \in DOMAIN checks : checks[i][1] /\ FirstRefusal(checks) = checks[i][2]
    BY <1>4, SomeFails
<1>6. QED BY <1>1, <1>2, <1>3, <1>4, <1>5

\* A request as it comes to the builders: any values of its headers, an authorization
\* of one of the forms, offers the parser has read, the policy the classifiers agree,
\* and, for the private builders, a private dialect and a typed body.
IsPrivateCall(c) ==
    /\ DialectOf(c.headers) # "official"
    /\ c.headers["content-type"] # <<>> /\ c.headers["content-type"][1] # "blank"

IsRequest(c) ==
    /\ c.route \in HeaderRoutes
    /\ \E S : c.headers \in [RequestNames -> Seq(S)]
    /\ c.headers["authorization"] \in Seq(DOMAIN AuthorizationForms)
    /\ \A i \in 1..Len(c.headers["sec-websocket-protocol"]) :
           c.headers["sec-websocket-protocol"][i] # "blank"
    /\ c.policy \in Agreed(c.route, c.headers, c.upstream.profile)
    /\ c.route \in {"private_call", "sideband"} => IsPrivateCall(c)

\* What crosses under a name, and of which values it is made.
PublicNames ==
    {"content-type", "openai-organization", "openai-project", "openai-safety-identifier",
     "idempotency-key", "origin"}
PrivateNames ==
    {"openai-alpha", "x-oai-attestation", "x-session-id", "session-id", "thread-id",
     "originator"}

Copies(h, name, value) ==
    /\ Len(h[name]) = 1 /\ h[name][1] # "blank"
    /\ value = <<From("caller", h[name][1], name \in SensitiveRequestHeaders)>>

Crossing(h, policy, name, value) ==
    \/ value = <<>>
    \/ name \in PublicNames /\ Copies(h, name, value)
    \/ name \in PrivateNames /\ DialectOf(h) # "official" /\ Copies(h, name, value)
    \/ name \in {"accept", "openai-beta"} /\ value = All(h, name, FALSE)
    \/ /\ name = "sec-websocket-protocol"
       /\ value = [i \in 1..Len(h[name]) |-> From("caller", h[name][i], TRUE)]
    \/ name = "authorization" /\ policy = "managed" /\ value = Secret("token")
    \/ /\ name = "authorization" /\ policy # "managed"
       /\ Len(h[name]) = 1 /\ ValidBearer(AuthorizationForms[h[name][1]])
       /\ value = <<From("caller", h[name][1], TRUE)>>
    \/ name = "chatgpt-account-id" /\ DialectOf(h) # "official" /\ value = Secret("account")

LEMMA AtMostOne ==
    ASSUME NEW S, NEW h, NEW name, h[name] \in Seq(S), ~Repeated(h, name), h[name] # <<>>
    PROVE  Len(h[name]) = 1
<1> DEFINE n == Len(h[name])
<1>1. n \in Nat /\ n # 0 /\ ~(n > 1)
    BY DEF Repeated
<1> HIDE DEF n
<1>2. n = 1
    BY <1>1
<1>3. QED BY <1>2 DEF n

LEMMA FirstCopies ==
    ASSUME NEW S, NEW h, NEW name, h[name] \in Seq(S), ~Repeated(h, name),
           NEW value, value = First(h, name, name \in SensitiveRequestHeaders)
    PROVE  value = <<>> \/ Copies(h, name, value)
BY AtMostOne DEF First, Copies

LEMMA CredentialCrosses ==
    ASSUME NEW S, NEW h, NEW upstream, NEW policy, h["authorization"] \in Seq(S),
           ~Repeated(h, "authorization"), ~AuthorizationRefused(h, upstream, policy)
    PROVE  Crossing(h, policy, "authorization", Authorization(h, policy))
<1> DEFINE values == h["authorization"]
<1>1. policy # "managed" => values # <<>> /\ ValidBearer(AuthorizationForms[values[1]])
    BY DEF AuthorizationRefused
<1>2. values # <<>> => Len(values) = 1
    BY AtMostOne
<1>3. policy # "managed" => Len(values) = 1 /\ ValidBearer(AuthorizationForms[values[1]])
    BY <1>1, <1>2
<1> HIDE DEF values
<1>4. Authorization(h, policy) = IF policy = "managed" THEN Secret("token")
                                 ELSE <<From("caller", values[1], TRUE)>>
    BY DEF Authorization, values
<1>5. QED BY <1>3, <1>4 DEF Crossing, values

LEMMA AccountCrosses ==
    ASSUME NEW h, NEW policy, NEW upstream, DialectOf(h) # "official"
    PROVE  Crossing(h, policy, "chatgpt-account-id", Account(upstream))
BY DEF Crossing, Account

LEMMA NamesAre ==
    RequestNames = Range(RequestAllowlist) \cup Range(ClientProtocolHeaders)
                       \cup {"authorization", "chatgpt-account-id", "origin", "cookie",
                             "x-gpt-live-api-key", "sec-websocket-protocol"}
BY DEF RequestNames, ProxyOwned

LEMMA OfficialCrosses ==
    ASSUME NEW S, NEW h \in [RequestNames -> Seq(S)], NEW upstream, NEW policy,
           OfficialRefusal(h, DialectOf(h)) = "none",
           BuildRefusal("official", h, upstream, policy) = "none",
           NEW name \in RequestNames
    PROVE  Crossing(h, policy, name, BuildOfficial(h, upstream, DialectOf(h), policy)[name])
<1> DEFINE dialect == DialectOf(h)
           value == BuildOfficial(h, upstream, dialect, policy)[name]
           copied == {"content-type", "openai-organization", "openai-project",
                      "openai-safety-identifier", "idempotency-key"}
<1>1. \A n \in copied \cup {"openai-alpha", "authorization"} : ~Repeated(h, n)
    BY OfficialPasses DEF Counts
<1>2. dialect # "official" => ~Repeated(h, "x-oai-attestation")
    BY OfficialPasses DEF Counts
<1>3. \A n \in RequestNames : h[n] \in Seq(S)
    OBVIOUS
<1>4. ~AuthorizationRefused(h, upstream, policy)
    BY BuildingPasses
<1>5. /\ name \in copied => value = First(h, name, name \in SensitiveRequestHeaders)
      /\ name = "openai-alpha" => value = Alpha(h, dialect)
      /\ name = "x-oai-attestation" =>
             value = IF dialect = "official" THEN <<>> ELSE First(h, name, TRUE)
      /\ name \in {"accept", "openai-beta"} => value = All(h, name, FALSE)
      /\ name = "authorization" => value = Authorization(h, policy)
      /\ name = "chatgpt-account-id" =>
             value = IF dialect = "official" THEN <<>> ELSE Account(upstream)
      /\ name \notin copied \cup {"openai-alpha", "x-oai-attestation", "accept", "openai-beta",
                                  "authorization", "chatgpt-account-id"} => value = <<>>
    BY RangesAre DEF BuildOfficial
<1> HIDE DEF value, dialect
<1>6. CASE name \in copied
    <2>1. value = <<>> \/ Copies(h, name, value)
        BY <1>1, <1>3, <1>5, <1>6, FirstCopies
    <2>2. QED BY <1>6, <2>1 DEF Crossing, PublicNames, value, dialect
<1>7. CASE name = "openai-alpha"
    <2>1. ("openai-alpha" \in SensitiveRequestHeaders) = FALSE /\ "openai-alpha" \in PrivateNames
        BY DEF SensitiveRequestHeaders, PrivateNames
    <2>2. value = <<>> \/ (dialect # "official" /\ Copies(h, name, value))
        BY <1>1, <1>3, <1>5, <1>7, <2>1, FirstCopies DEF Alpha
    <2>3. QED BY <1>7, <2>1, <2>2 DEF Crossing, value, dialect
<1>8. CASE name = "x-oai-attestation"
    <2>1. ("x-oai-attestation" \in SensitiveRequestHeaders) = TRUE /\ "x-oai-attestation" \in PrivateNames
        BY DEF SensitiveRequestHeaders, PrivateNames
    <2>2. value = <<>> \/ (dialect # "official" /\ Copies(h, name, value))
        BY <1>2, <1>3, <1>5, <1>8, <2>1, FirstCopies
    <2>3. QED BY <1>8, <2>1, <2>2 DEF Crossing, value, dialect
<1>9. CASE name \in {"accept", "openai-beta"}
    BY <1>5, <1>9 DEF Crossing, value, dialect
<1>10. CASE name = "authorization"
    BY <1>1, <1>3, <1>4, <1>5, <1>10, CredentialCrosses DEF value, dialect
<1>11. CASE name = "chatgpt-account-id"
    <2>1. value = <<>> => Crossing(h, policy, name, value)
        BY DEF Crossing
    <2>2. QED BY <1>5, <1>11, <2>1, AccountCrosses DEF value, dialect
<1>12. CASE name \notin copied \cup {"openai-alpha", "x-oai-attestation", "accept", "openai-beta",
                                    "authorization", "chatgpt-account-id"}
    BY <1>5, <1>12 DEF Crossing, value, dialect
<1>13. QED BY <1>6, <1>7, <1>8, <1>9, <1>10, <1>11, <1>12

LEMMA SocketCrosses ==
    ASSUME NEW S, NEW h \in [RequestNames -> Seq(S)], NEW upstream, NEW policy,
           WebSocketRefusal(h, DialectOf(h)) = "none",
           BuildRefusal("websocket", h, upstream, policy) = "none",
           NEW name \in RequestNames
    PROVE  Crossing(h, policy, name, BuildWebSocket(h, upstream, DialectOf(h), policy)[name])
<1> DEFINE dialect == DialectOf(h)
           offered == h["sec-websocket-protocol"]
           browser == "credential" \in Range(offered)
           value == BuildWebSocket(h, upstream, dialect, policy)[name]
           copied == {"origin", "openai-organization", "openai-project", "openai-safety-identifier"}
<1>1. \A n \in copied \cup {"openai-alpha", "authorization"} : ~Repeated(h, n)
    BY SocketPasses DEF Counts
<1>2. dialect # "official" => ~Repeated(h, "x-oai-attestation")
    BY SocketPasses DEF Counts
<1>3. \A n \in RequestNames : h[n] \in Seq(S)
    OBVIOUS
<1>4. ~browser => ~AuthorizationRefused(h, upstream, policy)
    BY BuildingPasses
<1> HIDE DEF browser
<1>5. /\ name \in copied => value = First(h, name, name \in SensitiveRequestHeaders)
      /\ name = "openai-alpha" => value = Alpha(h, dialect)
      /\ name = "x-oai-attestation" =>
             value = IF dialect # "official" THEN First(h, name, TRUE) ELSE <<>>
      /\ name = "openai-beta" => value = All(h, name, FALSE)
      /\ name = "authorization" => value = IF browser THEN <<>> ELSE Authorization(h, policy)
      /\ name = "chatgpt-account-id" =>
             value = IF dialect # "official" THEN Account(upstream) ELSE <<>>
      /\ name = "sec-websocket-protocol" =>
             value = [i \in 1..Len(offered) |-> From("caller", offered[i], TRUE)]
      /\ name \notin copied \cup {"openai-alpha", "x-oai-attestation", "openai-beta", "authorization",
                                  "chatgpt-account-id", "sec-websocket-protocol"} => value = <<>>
    <2>1. /\ name = "origin" => value = First(h, name, FALSE)
          /\ name \in copied \ {"origin"} => value = First(h, name, TRUE)
        BY DEF BuildWebSocket
    <2>2. /\ ("origin" \in SensitiveRequestHeaders) = FALSE
          /\ \A n \in copied \ {"origin"} : (n \in SensitiveRequestHeaders) = TRUE
        BY DEF SensitiveRequestHeaders
    <2>3. name \in copied => value = First(h, name, name \in SensitiveRequestHeaders)
        BY <2>1, <2>2
    <2>4. name = "sec-websocket-protocol" =>
              value = [i \in 1..Len(offered) |-> From("caller", offered[i], TRUE)]
        BY DEF BuildWebSocket
    <2>5. /\ name = "openai-alpha" => value = Alpha(h, dialect)
          /\ name = "x-oai-attestation" =>
                 value = IF dialect # "official" THEN First(h, name, TRUE) ELSE <<>>
          /\ name = "openai-beta" => value = All(h, name, FALSE)
          /\ name = "authorization" => value = IF browser THEN <<>> ELSE Authorization(h, policy)
          /\ name = "chatgpt-account-id" =>
                 value = IF dialect # "official" THEN Account(upstream) ELSE <<>>
        BY DEF BuildWebSocket, browser
    <2>6. name \notin copied \cup {"openai-alpha", "x-oai-attestation", "openai-beta",
                                   "authorization", "chatgpt-account-id",
                                   "sec-websocket-protocol"} => value = <<>>
        BY DEF BuildWebSocket
    <2> HIDE DEF value, dialect, offered
    <2>7. QED BY <2>3, <2>4, <2>5, <2>6
<1> HIDE DEF value, dialect, offered
<1>6. CASE name \in copied
    <2>1. value = <<>> \/ Copies(h, name, value)
        BY <1>1, <1>3, <1>5, <1>6, FirstCopies
    <2>2. QED BY <1>6, <2>1 DEF Crossing, PublicNames, value, dialect
<1>7. CASE name = "openai-alpha"
    <2>1. ("openai-alpha" \in SensitiveRequestHeaders) = FALSE /\ "openai-alpha" \in PrivateNames
        BY DEF SensitiveRequestHeaders, PrivateNames
    <2>2. value = <<>> \/ (dialect # "official" /\ Copies(h, name, value))
        BY <1>1, <1>3, <1>5, <1>7, <2>1, FirstCopies DEF Alpha
    <2>3. QED BY <1>7, <2>1, <2>2 DEF Crossing, value, dialect
<1>8. CASE name = "x-oai-attestation"
    <2>1. ("x-oai-attestation" \in SensitiveRequestHeaders) = TRUE /\ "x-oai-attestation" \in PrivateNames
        BY DEF SensitiveRequestHeaders, PrivateNames
    <2>2. value = <<>> \/ (dialect # "official" /\ Copies(h, name, value))
        BY <1>2, <1>3, <1>5, <1>8, <2>1, FirstCopies
    <2>3. QED BY <1>8, <2>1, <2>2 DEF Crossing, value, dialect
<1>9. value = <<>> => Crossing(h, policy, name, value)
    BY DEF Crossing
<1>10. CASE name \in {"openai-beta", "sec-websocket-protocol"}
    BY <1>5, <1>10 DEF Crossing, value, dialect, offered
<1>11. CASE name = "authorization"
    BY <1>1, <1>3, <1>4, <1>5, <1>9, <1>11, CredentialCrosses DEF value, dialect
<1>12. CASE name = "chatgpt-account-id"
    BY <1>5, <1>9, <1>12, AccountCrosses DEF value, dialect
<1>13. CASE name \notin copied \cup {"openai-alpha", "x-oai-attestation", "openai-beta",
                                     "authorization", "chatgpt-account-id",
                                     "sec-websocket-protocol"}
    BY <1>5, <1>9, <1>13 DEF value, dialect
<1>14. QED BY <1>6, <1>7, <1>8, <1>10, <1>11, <1>12, <1>13

LEMMA PrivateCrosses ==
    ASSUME NEW S, NEW h \in [RequestNames -> Seq(S)], NEW upstream, NEW policy, NEW call \in BOOLEAN,
           DialectOf(h) # "official", policy = "managed",
           \A n \in Range(ClientProtocolHeaders) : ~Repeated(h, n),
           call => Len(h["content-type"]) = 1 /\ h["content-type"][1] # "blank",
           NEW name \in RequestNames
    PROVE  Crossing(h, policy, name, BuildPrivate(h, upstream, call)[name])
<1> DEFINE value == BuildPrivate(h, upstream, call)[name]
<1>1. \A n \in RequestNames : h[n] \in Seq(S)
    OBVIOUS
<1>2. PrivateNames = Range(ClientProtocolHeaders)
    BY RangesAre DEF PrivateNames
<1>3. \A n \in PrivateNames : (n = "x-oai-attestation") = (n \in SensitiveRequestHeaders)
    BY DEF PrivateNames, SensitiveRequestHeaders
<1>4. "authorization" \notin PrivateNames /\ "chatgpt-account-id" \notin PrivateNames
      /\ "content-type" \notin PrivateNames
    BY DEF PrivateNames
<1>5. /\ name \in PrivateNames => value = First(h, name, name = "x-oai-attestation")
      /\ name = "authorization" => value = Secret("token")
      /\ name = "chatgpt-account-id" => value = Account(upstream)
      /\ name = "content-type" =>
             value = IF call THEN <<From("caller", h["content-type"][1], FALSE)>> ELSE <<>>
      /\ name \notin PrivateNames \cup {"authorization", "chatgpt-account-id", "content-type"} =>
             value = <<>>
    BY <1>2, <1>4 DEF BuildPrivate
<1> HIDE DEF value
<1>6. value = <<>> => Crossing(h, policy, name, value)
    BY DEF Crossing
<1>7. CASE name \in PrivateNames
    <2>1. value = First(h, name, name \in SensitiveRequestHeaders)
        BY <1>3, <1>5, <1>7
    <2>2. value = <<>> \/ Copies(h, name, value)
        BY <1>1, <1>2, <1>7, <2>1, FirstCopies
    <2>3. QED BY <1>6, <1>7, <2>2 DEF Crossing, value
<1>8. CASE name = "authorization"
    BY <1>5, <1>8 DEF Crossing, value
<1>9. CASE name = "chatgpt-account-id"
    BY <1>5, <1>9, AccountCrosses DEF value
<1>10. CASE name = "content-type"
    <2>1. ("content-type" \in SensitiveRequestHeaders) = FALSE /\ "content-type" \in PublicNames
        BY DEF SensitiveRequestHeaders, PublicNames
    <2>2. value = <<>> \/ Copies(h, name, value)
        BY <1>5, <1>10, <2>1 DEF Copies
    <2>3. QED BY <1>6, <1>10, <2>1, <2>2 DEF Crossing, value
<1>11. CASE name \notin PrivateNames \cup {"authorization", "chatgpt-account-id", "content-type"}
    BY <1>5, <1>6, <1>11 DEF value
<1>12. QED BY <1>7, <1>8, <1>9, <1>10, <1>11

LEMMA EachNameCrosses ==
    ASSUME NEW c, IsRequest(c), Passes(c), NEW name \in RequestNames
    PROVE  Crossing(c.headers, c.policy, name,
                    Forwarded(c.route, c.headers, c.upstream, c.policy)[name])
<1> DEFINE h == c.headers
<1> PICK S : h \in [RequestNames -> Seq(S)]
    BY DEF IsRequest
<1>1. h \in [RequestNames -> Seq(S)] /\ c.route \in HeaderRoutes
    BY DEF IsRequest
<1>2. Validation(c.route, h) = "none" /\ BuildRefusal(c.route, h, c.upstream, c.policy) = "none"
    BY DEF Passes
<1>3. CASE c.route = "official"
    <2>1. OfficialRefusal(h, DialectOf(h)) = "none"
        BY <1>2, <1>3 DEF Validation
    <2>2. Forwarded(c.route, h, c.upstream, c.policy)
              = BuildOfficial(h, c.upstream, DialectOf(h), c.policy)
        BY <1>3 DEF Forwarded
    <2> HIDE DEF h
    <2>3. QED BY <1>1, <1>2, <1>3, <2>1, <2>2, OfficialCrosses DEF h
<1>4. CASE c.route = "websocket"
    <2>1. WebSocketRefusal(h, DialectOf(h)) = "none"
        BY <1>2, <1>4 DEF Validation
    <2>2. Forwarded(c.route, h, c.upstream, c.policy)
              = BuildWebSocket(h, c.upstream, DialectOf(h), c.policy)
        BY <1>4 DEF Forwarded
    <2> HIDE DEF h
    <2>3. QED BY <1>1, <1>2, <1>4, <2>1, <2>2, SocketCrosses DEF h
<1>5. CASE c.route \in {"private_call", "sideband"}
    <2> DEFINE call == c.route = "private_call"
    <2>1. /\ DialectOf(h) # "official"
          /\ h["content-type"] # <<>> /\ h["content-type"][1] # "blank"
        BY <1>5 DEF IsRequest, IsPrivateCall
    <2>2. c.policy = "managed"
        BY <2>1 DEF IsRequest, Agreed
    <2>3. Len(h["content-type"]) \in Nat
        BY <1>1 DEF RequestNames, Range, RequestAllowlist
    <2>4. CASE call
        <3>1. CallRefusal(h, DialectOf(h)) = "none"
            BY <1>2, <2>4 DEF Validation
        <3>2. Forwarded(c.route, h, c.upstream, c.policy) = BuildPrivate(h, c.upstream, TRUE)
            BY <2>4 DEF Forwarded
        <3> HIDE DEF h
        <3>3. QED BY <1>1, <2>1, <2>2, <2>3, <3>1, <3>2, CallPasses, PrivateCrosses DEF h
    <2>5. CASE ~call
        <3>1. SidebandRefusal(h, DialectOf(h)) = "none"
            BY <1>2, <1>5, <2>5 DEF Validation
        <3>2. Forwarded(c.route, h, c.upstream, c.policy) = BuildPrivate(h, c.upstream, FALSE)
            BY <1>5, <2>5 DEF Forwarded
        <3> HIDE DEF h
        <3>3. QED BY <1>1, <2>1, <2>2, <3>1, <3>2, SidebandPasses, PrivateCrosses DEF h
    <2>6. QED BY <2>4, <2>5
<1>6. QED BY <1>1, <1>3, <1>4, <1>5 DEF HeaderRoutes

LEMMA FormNames ==
    DOMAIN AuthorizationForms =
        {"bearer", "padded", "only_pad", "pad_inside", "strange", "two_words", "bare", "basic",
         "blank", "bytes"}
BY DEF AuthorizationForms

LEMMA FormsAreWords ==
    \A form \in DOMAIN AuthorizationForms :
        AuthorizationForms[form].words \in Seq(Seq({"base", "pad", "other"}))
<1> DEFINE L == {"base", "pad", "other"}
<1>1. \A a, b, c \in L : <<a>> \in Seq(L) /\ <<a, b>> \in Seq(L) /\ <<a, b, c>> \in Seq(L)
    OBVIOUS
<1>2. \A u, v \in Seq(L) : <<>> \in Seq(Seq(L)) /\ <<u>> \in Seq(Seq(L)) /\ <<u, v>> \in Seq(Seq(L))
    OBVIOUS
<1>3. "base" \in L /\ "pad" \in L /\ "other" \in L
    OBVIOUS
<1> DEFINE table == AuthorizationForms
<1>4. /\ table["bearer"].words = <<<<"base", "base">>>>
      /\ table["padded"].words = <<<<"base", "pad", "pad">>>>
      /\ table["only_pad"].words = <<<<"pad">>>>
      /\ table["pad_inside"].words = <<<<"base", "pad", "base">>>>
      /\ table["strange"].words = <<<<"base", "other">>>>
      /\ table["two_words"].words = <<<<"base">>, <<"base">>>>
      /\ table["bare"].words = <<>>
      /\ table["basic"].words = <<<<"base">>>>
      /\ table["blank"].words = <<>>
      /\ table["bytes"].words = <<>>
    BY DEF AuthorizationForms
<1>5. DOMAIN table = {"bearer", "padded", "only_pad", "pad_inside", "strange", "two_words", "bare",
                      "basic", "blank", "bytes"}
    BY FormNames
<1> HIDE DEF L, table
<1>6. \A form \in DOMAIN table : table[form].words \in Seq(Seq(L))
    BY <1>1, <1>2, <1>3, <1>4, <1>5, Zenon
<1>7. QED BY <1>6 DEF L, table

LEMMA BlankIsNoBearer == ~ValidBearer(AuthorizationForms["blank"])
BY DEF ValidBearer, AuthorizationForms

\* Whatever the headers of a request, their names and values in any number, what the
\* builder of its route lets through is what may cross (build_upstream_headers,
\* build_upstream_websocket_headers, merge_upstream_headers).
THEOREM OnlyThisCrosses ==
    ASSUME NEW c, IsRequest(c)
    PROVE  OnlyWhatMayCross(c)
<1> DEFINE h == c.headers
           out == Forwarded(c.route, c.headers, c.upstream, c.policy)
           crosses == {name \in RequestNames : out[name] # <<>>}
           whose(name) == {out[name][i].whose : i \in DOMAIN out[name]}
           may(name) == Crossing(h, c.policy, name, out[name])
<1> SUFFICES ASSUME Passes(c)
             PROVE  /\ crosses \cap {"cookie", "x-gpt-live-api-key"} = {}
                    /\ DialectOf(h) = "official" => crosses \cap PrivateOnly = {}
                    /\ whose("chatgpt-account-id") \subseteq {"proxy"}
                    /\ "proxy" \in whose("authorization") <=> "authorization" \in crosses
                                                                /\ c.policy = "managed"
                    /\ "caller" \in whose("authorization") =>
                           LET form == AuthorizationForms[out["authorization"][1].value]
                           IN  Len(form.words) = 1 /\ B64Token(form.words[1])
                    /\ \A name \in crosses \cap CredentialHeaders :
                           \A i \in DOMAIN out[name] : out[name][i].sensitive
                    /\ Rendered(out) \cap (SensitiveRequestHeaders \cup ProxyOwned) = {}
    BY Zenon DEF OnlyWhatMayCross
<1>1. \A name \in RequestNames : may(name)
    BY EachNameCrosses
<1>2. /\ "authorization" \in RequestNames /\ "chatgpt-account-id" \in RequestNames
    BY NamesAre
<1>3. /\ h["authorization"] \in Seq(DOMAIN AuthorizationForms)
    BY DEF IsRequest
<1> HIDE DEF out, h
<1>4. crosses \cap {"cookie", "x-gpt-live-api-key"} = {}
    BY <1>1 DEF Crossing, PublicNames, PrivateNames
<1>5. DialectOf(h) = "official" => crosses \cap PrivateOnly = {}
    BY <1>1 DEF Crossing, PublicNames, PrivateOnly
<1>6. out["chatgpt-account-id"] \in {<<>>, Secret("account")}
    BY <1>1, <1>2 DEF Crossing, PublicNames, PrivateNames
<1>7. whose("chatgpt-account-id") \subseteq {"proxy"}
    BY <1>6 DEF Secret, From
<1>8. \/ out["authorization"] = <<>>
      \/ c.policy = "managed" /\ out["authorization"] = Secret("token")
      \/ /\ c.policy # "managed" /\ Len(h["authorization"]) = 1
         /\ ValidBearer(AuthorizationForms[h["authorization"][1]])
         /\ out["authorization"] = <<From("caller", h["authorization"][1], TRUE)>>
    BY <1>1, <1>2 DEF Crossing, PublicNames, PrivateNames
<1>9. "proxy" \in whose("authorization") <=> "authorization" \in crosses /\ c.policy = "managed"
    BY <1>2, <1>8 DEF Secret, From
<1>10. ASSUME "caller" \in whose("authorization"),
              NEW form, form = AuthorizationForms[out["authorization"][1].value]
       PROVE  Len(form.words) = 1 /\ B64Token(form.words[1])
    <2>1. /\ Len(h["authorization"]) = 1
          /\ ValidBearer(AuthorizationForms[h["authorization"][1]])
          /\ out["authorization"][1].value = h["authorization"][1]
        BY <1>8, <1>10 DEF Secret, From
    <2>2. h["authorization"][1] \in DOMAIN AuthorizationForms
        BY <1>3, <2>1
    <2>3. form.words \in Seq(Seq({"base", "pad", "other"})) /\ ValidBearer(form)
        BY <1>10, <2>1, <2>2, FormsAreWords
    <2>4. QED BY <2>3, BearerIsToken
<1>11. ASSUME NEW name \in crosses \cap CredentialHeaders, NEW i \in DOMAIN out[name]
       PROVE  out[name][i].sensitive
    <2>1. may(name) /\ out[name] # <<>>
        BY <1>1
    <2>2. name \notin {"accept", "openai-beta"}
        BY DEF CredentialHeaders
    <2>3. ASSUME name \in PublicNames \cup PrivateNames PROVE name \in SensitiveRequestHeaders
        BY <2>3 DEF PublicNames, PrivateNames, CredentialHeaders, SensitiveRequestHeaders
    <2>4. CASE name \in PublicNames \cup PrivateNames
        <3>1. Copies(h, name, out[name])
            BY <2>1, <2>2, <2>4 DEF Crossing, PublicNames, PrivateNames
        <3>2. out[name] = <<From("caller", h[name][1], TRUE)>>
            BY <2>3, <2>4, <3>1 DEF Copies
        <3>3. QED BY <3>2 DEF From
    <2>5. CASE name \notin PublicNames \cup PrivateNames
        <3>1. \/ out[name] = [n \in 1..Len(h[name]) |-> From("caller", h[name][n], TRUE)]
              \/ out[name] = Secret("token")
              \/ out[name] = <<From("caller", h[name][1], TRUE)>>
              \/ out[name] = Secret("account")
            BY <2>1, <2>2, <2>5 DEF Crossing
        <3>2. QED BY <3>1 DEF Secret, From
    <2>6. QED BY <2>4, <2>5
<1>12. Rendered(out) \cap (SensitiveRequestHeaders \cup ProxyOwned) = {}
    <2>1. SensitiveRequestHeaders \cup ProxyOwned \subseteq CredentialHeaders
        BY DEF SensitiveRequestHeaders, ProxyOwned, CredentialHeaders
    <2>2. Rendered(out) \cap CredentialHeaders = {}
        BY DEF Rendered
    <2>3. QED BY <2>1, <2>2
<1>13. QED BY <1>4, <1>5, <1>7, <1>9, <1>10, <1>11, <1>12, Zenon

\* The values that crossed.
Crossed(value) == [i \in DOMAIN value |-> value[i].value]

LEMMA OneCrossed ==
    ASSUME NEW whose, NEW v, NEW s
    PROVE  Crossed(<<From(whose, v, s)>>) = <<v>>
BY DEF Crossed, From

LEMMA AllCrossed ==
    ASSUME NEW S, NEW values \in Seq(S), NEW value, DOMAIN value = 1..Len(values),
           \A i \in 1..Len(values) : value[i].value = values[i]
    PROVE  Crossed(value) = values
BY DEF Crossed

LEMMA NoneIsBlank ==
    ASSUME NEW S, NEW h, NEW name, h[name] \in Seq(S),
           \A i \in 1..Len(h[name]) : h[name][i] # "blank"
    PROVE  NonEmpty(h, name) = h[name]
BY NonEmptyKeeps

\* No builder picks one of the values a caller gave a header, and once validation has
\* passed only a credential can be missing.
THEOREM NothingIsPicked ==
    ASSUME NEW c, IsRequest(c)
    PROVE  NoSilentChoice(c)
<1> DEFINE h == c.headers
           out == Forwarded(c.route, c.headers, c.upstream, c.policy)
<1>1. ASSUME Passes(c), NEW name \in RequestNames, out[name] # <<>>,
             out[name][1].whose = "caller"
      PROVE  Crossed(out[name]) = NonEmpty(h, name)
    <2>1. Crossing(h, c.policy, name, out[name])
        BY <1>1, EachNameCrosses
    <2>2. PICK S : h[name] \in Seq(S)
        <3>1. PICK S : h \in [RequestNames -> Seq(S)]
            BY DEF IsRequest
        <3>2. QED BY <3>1
    <2>3. /\ h["authorization"] \in Seq(DOMAIN AuthorizationForms)
          /\ \A i \in 1..Len(h["sec-websocket-protocol"]) :
                 h["sec-websocket-protocol"][i] # "blank"
        BY DEF IsRequest
    <2> DEFINE value == out[name]
               values == h[name]
    <2> HIDE DEF out, h
    <2>4. ASSUME Len(values) = 1, values[1] # "blank", NEW s,
                 value = <<From("caller", values[1], s)>>
          PROVE  Crossed(value) = NonEmpty(h, name)
        <3>1. values = <<values[1]>>
            BY <2>2, <2>4
        <3>0. \A i \in 1..Len(h[name]) : h[name][i] # "blank"
            BY <2>4
        <3>2. NonEmpty(h, name) = values
            BY <2>2, <3>0, NoneIsBlank
        <3>3. QED BY <2>4, <3>1, <3>2, OneCrossed
    <2>5. CASE Copies(h, name, value)
        BY <2>4, <2>5 DEF Copies
    <2>6. CASE value = All(h, name, FALSE)
        <3>1. NonEmpty(h, name) \in Seq(S)
            BY <2>2, NonEmptyKeeps
        <3>2. QED BY <2>6, <3>1 DEF All, Crossed, From
    <2>7. CASE /\ name = "sec-websocket-protocol"
               /\ value = [i \in 1..Len(h[name]) |-> From("caller", h[name][i], TRUE)]
        <3>1. NonEmpty(h, name) = values
            <4>1. \A i \in 1..Len(h[name]) : h[name][i] # "blank"
                BY <2>3, <2>7
            <4>2. QED BY <2>2, <4>1, NoneIsBlank
        <3>2. Crossed(value) = values
            <4>1. value = [i \in 1..Len(values) |-> From("caller", values[i], TRUE)]
                BY <2>7
            <4>2. values \in Seq(S)
                BY <2>2
            <4> HIDE DEF value, values
            <4>3. DOMAIN value = 1..Len(values) /\ \A i \in 1..Len(values) : value[i].value = values[i]
                BY <4>1 DEF From
            <4>4. QED BY <4>2, <4>3, AllCrossed
        <3>3. QED BY <3>1, <3>2
    <2>8. CASE /\ name = "authorization"
               /\ Len(h[name]) = 1 /\ ValidBearer(AuthorizationForms[h[name][1]])
               /\ value = <<From("caller", h[name][1], TRUE)>>
        <3>1. values[1] # "blank"
            BY <2>8, BlankIsNoBearer
        <3>2. QED BY <2>4, <2>8, <3>1
    <2>9. value \notin {<<>>, Secret("token"), Secret("account")}
        BY <1>1 DEF Secret, From
    <2>10. QED BY <2>1, <2>5, <2>6, <2>7, <2>8, <2>9 DEF Crossing
<1>2. BuildRefusal(c.route, c.headers, c.upstream, c.policy)
          \in {"none", "no_credential"}
              \cup (IF AccountRefused(c.upstream) THEN {"invalid_header"} ELSE {})
    BY BuildingMisses
<1> HIDE DEF out, h
<1>3. QED BY <1>1, <1>2, Zenon DEF NoSilentChoice, Crossed, out, h

-----------------------------------------------------------------------------
(* One token of an offer after the other *)

Tokens == [kind : OfferKinds, suffix : Nat, secret : BOOLEAN]
OfferFields == [text : BOOLEAN, tokens : Seq(Tokens) \ {<<>>}, pad : Nat]
OfferErrors == {"none", "invalid_subprotocol", "admission_secret_not_forwardable"}
States == [error : OfferErrors, aggregate : Nat, offered : Seq(Tokens)]

\* A token that may be offered, and a sequence of such of different kinds.
Offerable(token, admission) ==
    /\ TokenBytes(token) \in 1..MaxProtocolTokenBytes
    /\ token.kind \in Named
    /\ ~(token.kind # "realtime" /\ token.suffix = 0)
    /\ ~(token.kind = "credential" /\ admission /\ token.secret)

Sound(tokens, admission) ==
    \A i \in 1..Len(tokens) :
        /\ Offerable(tokens[i], admission)
        /\ \A j \in 1..Len(tokens) : j < i => tokens[j].kind # tokens[i].kind

LEMMA NamesHaveBytes ==
    /\ Named = {"realtime", "credential", "organization", "project"}
    /\ \A kind \in Named : NameBytes[kind] \in Nat
BY DEF Named, NameBytes

LEMMA TokensHaveBytes ==
    ASSUME NEW token \in Tokens
    PROVE  TokenBytes(token) \in Nat
<1>1. token.suffix \in Nat
    BY DEF Tokens
<1>2. QED BY <1>1, NamesHaveBytes DEF TokenBytes

LEMMA OneOfAKind ==
    ASSUME NEW state \in States, NEW kind
    PROVE  Seen(state, kind) <=>
               \E j \in 1..Len(state.offered) : state.offered[j].kind = kind
<1>1. state.offered \in Seq(Tokens)
    BY DEF States
<1>2. DOMAIN state.offered = 1..Len(state.offered)
    BY <1>1
<1>3. QED BY <1>2 DEF Seen, Range

\* One turn of the inner loop of parse.
LEMMA TakeOfferTells ==
    ASSUME NEW state \in States, NEW token \in Tokens, NEW admission \in BOOLEAN
    PROVE  /\ TakeOffer(state, token, admission) \in States
           /\ state.error # "none" => TakeOffer(state, token, admission) = state
           /\ state.error = "none" =>
                  IF Offerable(token, admission) /\ ~Seen(state, token.kind)
                  THEN TakeOffer(state, token, admission)
                           = [state EXCEPT !.offered = Append(state.offered, token)]
                  ELSE TakeOffer(state, token, admission).error # "none"
<1> DEFINE bytes == TokenBytes(token) \notin 1..MaxProtocolTokenBytes
           again == token.kind \notin Named \/ Seen(state, token.kind)
           bare == token.kind # "realtime" /\ token.suffix = 0
           secret == token.kind = "credential" /\ admission /\ token.secret
           checks == <<<<bytes, "invalid_subprotocol">>, <<again, "invalid_subprotocol">>,
                       <<bare, "invalid_subprotocol">>,
                       <<secret, "admission_secret_not_forwardable">>>>
           refusal == FirstRefusal(checks)
           after == TakeOffer(state, token, admission)
<1>1. after = IF state.error # "none" THEN state
              ELSE IF refusal # "none" THEN [state EXCEPT !.error = refusal]
              ELSE [state EXCEPT !.offered = Append(state.offered, token)]
    BY Zenon DEF TakeOffer
<1>2. Offerable(token, admission) /\ ~Seen(state, token.kind) <=> ~(bytes \/ again \/ bare \/ secret)
    BY DEF Offerable
<1> HIDE DEF bytes, again, bare, secret
<1>3. /\ DOMAIN checks = 1..4
      /\ checks[1][1] = bytes /\ checks[2][1] = again /\ checks[3][1] = bare /\ checks[4][1] = secret
      /\ \A i \in 1..4 : checks[i][2] \in OfferErrors \ {"none"}
    BY DEF OfferErrors
<1> HIDE DEF checks
<1>4. \/ refusal = "none" /\ ~(bytes \/ again \/ bare \/ secret)
      \/ refusal \in OfferErrors \ {"none"} /\ (bytes \/ again \/ bare \/ secret)
    <2>1. \/ FirstRefusal(checks) = "none" /\ \A i \in 1..4 : ~checks[i][1]
          \/ \E i \in 1..4 : checks[i][1] /\ FirstRefusal(checks) = checks[i][2]
        BY <1>3, SomeFails
    <2>2. QED BY <1>3, <2>1
<1>5. state.offered \in Seq(Tokens) /\ Append(state.offered, token) \in Seq(Tokens)
    BY DEF States
<1> DEFINE longer == Append(state.offered, token)
<1> HIDE DEF refusal, after, longer
<1>6. [state EXCEPT !.offered = longer] \in States
    BY <1>5 DEF States, longer
<1>7. refusal \in OfferErrors => /\ [state EXCEPT !.error = refusal] \in States
                                 /\ [state EXCEPT !.error = refusal].error = refusal
    BY DEF States
<1>8. "none" \in OfferErrors
    BY DEF OfferErrors
<1>9. /\ after \in States
      /\ state.error # "none" => after = state
      /\ state.error = "none" =>
             IF ~(bytes \/ again \/ bare \/ secret)
             THEN after = [state EXCEPT !.offered = longer]
             ELSE after.error # "none"
    BY <1>1, <1>4, <1>6, <1>7, <1>8 DEF longer
<1>10. QED BY <1>2, <1>9 DEF after, longer

LEMMA SoundGrows ==
    ASSUME NEW offered \in Seq(Tokens), NEW token \in Tokens, NEW admission \in BOOLEAN
    PROVE  Sound(Append(offered, token), admission) <=>
               /\ Sound(offered, admission) /\ Offerable(token, admission)
               /\ \A j \in 1..Len(offered) : offered[j].kind # token.kind
<1> DEFINE longer == Append(offered, token)
           L == Len(offered)
<1>1. /\ L \in Nat /\ Len(longer) = L + 1 /\ longer[L + 1] = token
      /\ \A i \in 1..L : longer[i] = offered[i]
    OBVIOUS
<1> HIDE DEF longer
<1>2. \A i \in 1..(L + 1) : i \in 1..L \/ i = L + 1
    BY <1>1
<1>3. \A i \in 1..L : i \in 1..(L + 1) /\ i < L + 1 /\ ~(L + 1 < i)
    BY <1>1
<1>4. L + 1 \in 1..(L + 1) /\ ~(L + 1 < L + 1)
    BY <1>1
<1> HIDE DEF L
<1>5. Sound(longer, admission) <=>
          \A i \in 1..(L + 1) :
              /\ Offerable(longer[i], admission)
              /\ \A j \in 1..(L + 1) : j < i => longer[j].kind # longer[i].kind
    BY <1>1 DEF Sound
<1>6. Sound(offered, admission) <=>
          \A i \in 1..L : /\ Offerable(offered[i], admission)
                          /\ \A j \in 1..L : j < i => offered[j].kind # offered[i].kind
    BY DEF Sound, L
<1>7. Sound(longer, admission) <=>
          /\ Sound(offered, admission) /\ Offerable(token, admission)
          /\ \A j \in 1..L : offered[j].kind # token.kind
    BY <1>1, <1>2, <1>3, <1>4, <1>5, <1>6, Zenon
<1>8. QED BY <1>7 DEF longer, L

\* The states after each token of a field.
Takes(taken, state, tokens, admission) ==
    /\ taken \in [0..Len(tokens) -> States]
    /\ taken[0] = state
    /\ \A n \in 1..Len(tokens) : taken[n] = TakeOffer(taken[n - 1], tokens[n], admission)

LEMMA TakesExist ==
    ASSUME NEW state \in States, NEW tokens \in Seq(Tokens), NEW admission \in BOOLEAN
    PROVE  \E taken : Takes(taken, state, tokens, admission)
<1> DEFINE L == Len(tokens)
           step == [p \in States \X (1..L) |-> TakeOffer(p[1], tokens[p[2]], admission)]
<1>1. L \in Nat /\ \A n \in 1..L : tokens[n] \in Tokens
    OBVIOUS
<1> HIDE DEF L
<1>2. step \in [States \X (1..L) -> States]
    BY <1>1, TakeOfferTells
<1>3. \A s \in States, n \in 1..L : step[<<s, n>>] = TakeOffer(s, tokens[n], admission)
    OBVIOUS
<1> HIDE DEF step
<1>4. PICK f \in [0..L -> States] : Loops(f, state, step, L)
    BY <1>1, <1>2, LoopExists
<1>5. ASSUME NEW n \in 1..L PROVE f[n] = TakeOffer(f[n - 1], tokens[n], admission)
    <2>1. n - 1 \in 0..L
        BY <1>1
    <2>2. f[n - 1] \in States /\ f[n] = step[<<f[n - 1], n>>]
        BY <1>4, <2>1 DEF Loops
    <2>3. QED BY <1>3, <2>2
<1>6. QED BY <1>4, <1>5 DEF Takes, Loops, L

LEMMA OffersTaken ==
    ASSUME NEW state \in States, NEW tokens \in Seq(Tokens), NEW admission \in BOOLEAN,
           NEW taken, Takes(taken, state, tokens, admission)
    PROVE  TakeOffers(state, tokens, admission) = taken[Len(tokens)]
<1> DEFINE L == Len(tokens)
           IsIt(f) == f = [n \in 0..L |-> IF n = 0 THEN state
                                          ELSE TakeOffer(f[n - 1], tokens[n], admission)]
           F == CHOOSE f : IsIt(f)
           T == {n \in 0..L : F[n] = taken[n]}
<1>1. L \in Nat
    OBVIOUS
<1>2. IsIt(taken)
    BY <1>1 DEF Takes
<1>3. IsIt(F)
    <2> HIDE DEF IsIt
    <2>1. QED BY <1>2
<1>4. TakeOffers(state, tokens, admission) = F[L]
    BY Zenon DEF TakeOffers
<1>5. F[0] = state /\ \A n \in 1..L : F[n] = TakeOffer(F[n - 1], tokens[n], admission)
    <2>1. F = [n \in 0..L |-> IF n = 0 THEN state
                              ELSE TakeOffer(F[n - 1], tokens[n], admission)]
        BY <1>3
    <2> HIDE DEF F, L
    <2>2. QED BY <1>1, <2>1
<1> HIDE DEF F
<1>6. 0 \in T /\ \A n \in 1..L : n - 1 \in T => n \in T
    BY <1>1, <1>5 DEF Takes
<1>7. L \in T
    <2> HIDE DEF T
    <2>1. 0..L \subseteq T
        BY <1>1, <1>6, UpTo, Zenon
    <2>2. QED BY <1>1, <2>1
<1>8. QED BY <1>4, <1>7

\* The offer so far, when nothing was refused.
LEMMA JoinsNext ==
    ASSUME NEW S, NEW a \in Seq(S), NEW b \in Seq(S), NEW n \in 1..Len(b)
    PROVE  /\ a \o SubSeq(b, 1, n - 1) \in Seq(S)
           /\ a \o SubSeq(b, 1, n) = Append(a \o SubSeq(b, 1, n - 1), b[n])
<1>1. SubSeq(b, 1, n - 1) \in Seq(S) /\ Len(SubSeq(b, 1, n - 1)) = n - 1
    OBVIOUS
<1>2. SubSeq(b, 1, n) = Append(SubSeq(b, 1, n - 1), b[n])
    OBVIOUS
<1> DEFINE begun == SubSeq(b, 1, n - 1)
           next == b[n]
<1>3. begun \in Seq(S) /\ next \in S
    BY <1>1
<1> HIDE DEF begun, next
<1>4. a \o Append(begun, next) = Append(a \o begun, next)
    BY <1>3
<1>5. QED BY <1>1, <1>2, <1>4 DEF begun, next

LEMMA OffersTell ==
    ASSUME NEW state \in States, state.error = "none", NEW tokens \in Seq(Tokens),
           NEW admission \in BOOLEAN, Sound(state.offered, admission),
           NEW after, after = TakeOffers(state, tokens, admission)
    PROVE  /\ after \in States
           /\ after.error = "none" <=> Sound(state.offered \o tokens, admission)
           /\ after.error = "none" => after = [state EXCEPT !.offered = state.offered \o tokens]
<1> DEFINE L == Len(tokens)
           o == state.offered
           joined(n) == o \o SubSeq(tokens, 1, n)
           Good(s, n) == /\ s.error = "none" <=> Sound(joined(n), admission)
                         /\ s.error = "none" => s = [state EXCEPT !.offered = joined(n)]
<1>1. L \in Nat /\ o \in Seq(Tokens) /\ \A n \in 1..L : tokens[n] \in Tokens
    BY DEF States
<1>2. PICK taken : Takes(taken, state, tokens, admission)
    BY TakesExist
<1>3. after = taken[L]
    BY <1>2, OffersTaken
<1> DEFINE T == {n \in 0..L : Good(taken[n], n)}
<1>4. 0 \in T
    <2>1. joined(0) = o
        BY <1>1
    <2>2. state = [state EXCEPT !.offered = o]
        BY DEF States
    <2> HIDE DEF joined, o
    <2>3. taken[0] = state
        BY <1>2 DEF Takes
    <2>4. Sound(joined(0), admission)
        BY <2>1 DEF o
    <2>5. QED BY <1>1, <2>1, <2>2, <2>3, <2>4
<1>5. ASSUME NEW n \in 1..L, n - 1 \in T PROVE n \in T
    <2> DEFINE s == taken[n - 1]
               t == taken[n]
               so == joined(n - 1)
    <2>1. n - 1 \in 0..L /\ n \in 0..L
        BY <1>1
    <2>2. /\ s \in States /\ t = TakeOffer(s, tokens[n], admission) /\ t \in States
          /\ Good(s, n - 1) /\ tokens[n] \in Tokens
        BY <1>1, <1>2, <1>5, <2>1 DEF Takes
    <2>3. so \in Seq(Tokens) /\ joined(n) = Append(so, tokens[n])
        BY <1>1, JoinsNext
    <2> SUFFICES Good(t, n)
        BY <2>1
    <2> HIDE DEF s, t, joined, o
    <2>4. CASE s.error # "none"
        <3>1. ~Sound(so, admission) /\ t = s
            BY <2>2, <2>4, TakeOfferTells
        <3>2. ~Sound(joined(n), admission)
            BY <2>2, <2>3, <3>1, SoundGrows
        <3>3. QED BY <2>4, <3>1, <3>2
    <2>5. CASE s.error = "none"
        <3>1. /\ Sound(so, admission) /\ s = [state EXCEPT !.offered = so]
              /\ s.offered = so
            BY <2>2, <2>5, <2>3 DEF States
        <3>2. IF Offerable(tokens[n], admission) /\ ~Seen(s, tokens[n].kind)
              THEN t = [s EXCEPT !.offered = Append(s.offered, tokens[n])]
              ELSE t.error # "none"
            BY <2>2, <2>5, TakeOfferTells
        <3>3. Seen(s, tokens[n].kind) <=> \E j \in 1..Len(so) : so[j].kind = tokens[n].kind
            <4>1. ASSUME NEW kind
                  PROVE  Seen(s, kind) <=> \E j \in 1..Len(s.offered) : s.offered[j].kind = kind
                BY <2>2, OneOfAKind
            <4>2. ASSUME NEW kind PROVE Seen(s, kind) <=> \E j \in 1..Len(so) : so[j].kind = kind
                BY <3>1, <4>1
            <4> HIDE DEF so
            <4>3. QED BY <4>2, Zenon
        <3>4. Sound(joined(n), admission) <=>
                  Offerable(tokens[n], admission) /\ ~Seen(s, tokens[n].kind)
            BY <2>2, <2>3, <3>1, <3>3, SoundGrows
        <3>5. CASE Offerable(tokens[n], admission) /\ ~Seen(s, tokens[n].kind)
            <4>1. t = [s EXCEPT !.offered = joined(n)]
                BY <2>3, <3>1, <3>2, <3>5
            <4>2. t.error = "none" /\ t = [state EXCEPT !.offered = joined(n)]
                <5> DEFINE now == joined(n)
                <5> HIDE DEF now
                <5>1. t = [s EXCEPT !.offered = now]
                    BY <4>1 DEF now
                <5>2. t.error = "none" /\ t = [state EXCEPT !.offered = now]
                    BY <2>2, <2>5, <3>1, <5>1 DEF States
                <5>3. QED BY <5>2 DEF now
            <4>3. QED BY <3>4, <3>5, <4>2
        <3>6. CASE ~(Offerable(tokens[n], admission) /\ ~Seen(s, tokens[n].kind))
            BY <3>2, <3>4, <3>6
        <3>7. QED BY <3>5, <3>6
    <2>6. QED BY <2>4, <2>5
<1>6. 0..L \subseteq T
    <2> HIDE DEF T, L
    <2>1. QED BY <1>1, <1>4, <1>5, UpTo, Zenon
<1>7. joined(L) = o \o tokens
    <2>1. SubSeq(tokens, 1, L) = tokens
        OBVIOUS
    <2>2. QED BY <2>1
<1>8. L \in 0..L /\ taken[L] \in States
    BY <1>1, <1>2 DEF Takes
<1>9. Good(taken[L], L)
    BY <1>6, <1>8
<1> HIDE DEF joined
<1>10. QED BY <1>3, <1>7, <1>8, <1>9

-----------------------------------------------------------------------------
(* The bytes of an offer *)

Sizes(tokens) == [i \in DOMAIN tokens |-> TokenBytes(tokens[i])]
BytesOf(tokens) == Total(Sizes(tokens))

LEMMA SizesAre ==
    ASSUME NEW tokens \in Seq(Tokens)
    PROVE  /\ Sizes(tokens) \in Seq(Nat) /\ Len(Sizes(tokens)) = Len(tokens)
           /\ \A i \in 1..Len(tokens) : Sizes(tokens)[i] = TokenBytes(tokens[i])
<1>1. \A i \in 1..Len(tokens) : TokenBytes(tokens[i]) \in Nat
    BY TokensHaveBytes
<1>2. Sizes(tokens) = [i \in 1..Len(tokens) |-> TokenBytes(tokens[i])]
    BY DEF Sizes
<1>3. QED BY <1>1, <1>2

LEMMA TotalIsNatural ==
    ASSUME NEW chunks \in Seq(Nat)
    PROVE  Total(chunks) \in Nat
<1>1. PICK sum : Sums(sum, chunks)
    BY SumsExist
<1>2. Total(chunks) = sum[Len(chunks)] /\ Len(chunks) \in 0..Len(chunks)
    BY <1>1, TotalAdds
<1>3. QED BY <1>1, <1>2 DEF Sums

LEMMA BytesGrow ==
    ASSUME NEW tokens \in Seq(Tokens), NEW token \in Tokens
    PROVE  BytesOf(Append(tokens, token)) = BytesOf(tokens) + TokenBytes(token)
<1> DEFINE longer == Append(tokens, token)
           chunks == Sizes(longer)
           L == Len(tokens)
<1>1. L \in Nat /\ longer \in Seq(Tokens) /\ Len(longer) = L + 1 /\ longer[L + 1] = token
      /\ \A i \in 1..L : longer[i] = tokens[i]
    OBVIOUS
<1> HIDE DEF longer
<1>2. /\ chunks \in Seq(Nat) /\ Len(chunks) = L + 1
      /\ \A i \in 1..(L + 1) : chunks[i] = TokenBytes(longer[i])
    BY <1>1, SizesAre
<1>3. Sizes(tokens) \in Seq(Nat) /\ Len(Sizes(tokens)) = L
      /\ \A i \in 1..L : Sizes(tokens)[i] = TokenBytes(tokens[i])
    BY SizesAre
<1> HIDE DEF chunks, L
<1>4. Sizes(tokens) = SubSeq(chunks, 1, L)
    BY <1>1, <1>2, <1>3
<1>5. PICK sum : Sums(sum, chunks)
    BY <1>2, SumsExist
<1>6. Total(chunks) = sum[L + 1]
    BY <1>2, <1>5, TotalAdds
<1>7. Total(SubSeq(chunks, 1, L)) = sum[L]
    BY <1>1, <1>2, <1>5, TotalOfPrefix
<1>8. sum[L + 1] = sum[L] + chunks[L + 1]
    BY <1>1, <1>2, <1>5 DEF Sums
<1>9. chunks[L + 1] = TokenBytes(token)
    BY <1>1, <1>2
<1>10. QED BY <1>4, <1>6, <1>7, <1>8, <1>9 DEF BytesOf, chunks, longer

LEMMA BytesAre ==
    ASSUME NEW tokens \in Seq(Tokens)
    PROVE  BytesOf(tokens) \in Nat
BY SizesAre, TotalIsNatural DEF BytesOf

LEMMA NoBytes == BytesOf(<<>>) = 0
<1>1. <<>> \in Seq(Tokens) /\ Len(<<>>) = 0
    OBVIOUS
<1>2. Sizes(<<>>) \in Seq(Nat) /\ Len(Sizes(<<>>)) = 0
    BY <1>1, SizesAre
<1>3. PICK sum : Sums(sum, Sizes(<<>>))
    BY <1>2, SumsExist
<1>4. QED BY <1>2, <1>3, TotalAdds DEF BytesOf, Sums

LEMMA BytesJoin ==
    ASSUME NEW a \in Seq(Tokens), NEW b \in Seq(Tokens)
    PROVE  BytesOf(a \o b) = BytesOf(a) + BytesOf(b)
<1> DEFINE L == Len(b)
           part(n) == SubSeq(b, 1, n)
           T == {n \in 0..L : BytesOf(a \o part(n)) = BytesOf(a) + BytesOf(part(n))}
<1>1. L \in Nat /\ \A n \in 1..L : b[n] \in Tokens
    OBVIOUS
<1>2. 0 \in T
    <2>1. part(0) = <<>> /\ a \o part(0) = a
        OBVIOUS
    <2>2. BytesOf(a) \in Nat
        BY BytesAre
    <2>3. BytesOf(a) + 0 = BytesOf(a)
        BY <2>2
    <2> HIDE DEF part
    <2>4. BytesOf(a \o part(0)) = BytesOf(a) + BytesOf(part(0))
        BY <2>1, <2>3, NoBytes
    <2>5. QED BY <1>1, <2>4
<1>3. ASSUME NEW n \in 1..L, n - 1 \in T PROVE n \in T
    <2> DEFINE begun == part(n - 1)
    <2>1. begun \in Seq(Tokens) /\ part(n) = Append(begun, b[n])
        BY <1>1
    <2>2. a \o begun \in Seq(Tokens) /\ a \o part(n) = Append(a \o begun, b[n])
        BY JoinsNext
    <2>3. BytesOf(a \o begun) = BytesOf(a) + BytesOf(begun)
        BY <1>3
    <2>4. n \in 0..L
        BY <1>1
    <2> HIDE DEF begun, part
    <2>5. BytesOf(part(n)) = BytesOf(begun) + TokenBytes(b[n])
        BY <1>1, <2>1, BytesGrow
    <2>6. BytesOf(a \o part(n)) = BytesOf(a \o begun) + TokenBytes(b[n])
        BY <1>1, <2>2, BytesGrow
    <2>7. /\ BytesOf(a) \in Nat /\ BytesOf(begun) \in Nat /\ TokenBytes(b[n]) \in Nat
        BY <1>1, <2>1, BytesAre, TokensHaveBytes
    <2>8. QED BY <2>3, <2>4, <2>5, <2>6, <2>7
<1>4. 0..L \subseteq T
    <2> HIDE DEF T, L
    <2>1. QED BY <1>1, <1>2, <1>3, UpTo, Zenon
<1>5. part(L) = b /\ L \in 0..L
    BY <1>1
<1> HIDE DEF part
<1>6. QED BY <1>4, <1>5

\* Joined by ", ".
LEMMA CanonicalIs ==
    ASSUME NEW tokens \in Seq(Tokens), tokens # <<>>
    PROVE  CanonicalBytes(tokens) = BytesOf(tokens) + 2 * (Len(tokens) - 1)
<1> DEFINE L == Len(tokens)
           a == Sizes(tokens)
           b == [i \in DOMAIN tokens |-> TokenBytes(tokens[i]) + (IF i = 1 THEN 0 ELSE 2)]
<1>1. L \in Nat /\ L # 0 /\ DOMAIN tokens = 1..L
    OBVIOUS
<1>2. /\ a \in Seq(Nat) /\ Len(a) = L
      /\ \A i \in 1..L : a[i] = TokenBytes(tokens[i])
    BY SizesAre
<1>3. b \in Seq(Nat) /\ Len(b) = L /\ \A i \in 1..L : b[i] = a[i] + (IF i = 1 THEN 0 ELSE 2)
    <2>1. \A i \in 1..L : TokenBytes(tokens[i]) + (IF i = 1 THEN 0 ELSE 2) \in Nat
        BY TokensHaveBytes
    <2> HIDE DEF L
    <2>2. QED BY <1>1, <1>2, <2>1
<1>4. CanonicalBytes(tokens) = Total(b)
    BY DEF CanonicalBytes
<1> HIDE DEF a, b
<1>5. PICK s : Sums(s, a)
    BY <1>2, SumsExist
<1>6. PICK t : Sums(t, b)
    BY <1>3, SumsExist
<1> DEFINE T == {n \in 0..L : n # 0 => t[n] = s[n] + 2 * (n - 1)}
<1>7. 0 \in T
    BY <1>1
<1>8. ASSUME NEW n \in 1..L, n - 1 \in T PROVE n \in T
    <2>1. /\ n - 1 \in 0..L /\ n \in 0..L /\ n - 1 \in 0..Len(a)
        BY <1>1, <1>2
    <2>2. s[n] = s[n - 1] + a[n] /\ s[n - 1] \in Nat /\ a[n] \in Nat
        <3>1. a[n] \in Nat /\ n \in 1..Len(a)
            BY <1>2
        <3>2. QED BY <1>5, <2>1, <3>1 DEF Sums
    <2>3. t[n] = t[n - 1] + b[n] /\ b[n] = a[n] + (IF n = 1 THEN 0 ELSE 2)
        BY <1>3, <1>6, <2>1 DEF Sums
    <2>4. n = 1 => t[n - 1] = 0 /\ s[n - 1] = 0
        BY <1>5, <1>6 DEF Sums
    <2>5. n # 1 => t[n - 1] = s[n - 1] + 2 * (n - 1 - 1)
        BY <1>8, <2>1
    <2>6. t[n] = s[n] + 2 * (n - 1)
        <3>1. CASE n = 1
            BY <2>2, <2>3, <2>4, <3>1
        <3>2. CASE n # 1
            BY <2>2, <2>3, <2>5, <3>2
        <3>3. QED BY <3>1, <3>2
    <2>7. QED BY <2>1, <2>6
<1>9. 0..L \subseteq T
    <2> HIDE DEF T, L
    <2>1. QED BY <1>1, <1>7, <1>8, UpTo, Zenon
<1>10. Total(a) = s[L] /\ Total(b) = t[L]
    BY <1>2, <1>3, <1>5, <1>6, TotalAdds
<1>11. t[L] = s[L] + 2 * (L - 1)
    BY <1>1, <1>9
<1>12. QED BY <1>4, <1>10, <1>11 DEF BytesOf, a

LEMMA FieldBytesAre ==
    ASSUME NEW field \in OfferFields
    PROVE  /\ field.tokens \in Seq(Tokens) /\ field.tokens # <<>> /\ Len(field.tokens) \in Nat \ {0}
           /\ FieldBytes(field) = BytesOf(field.tokens) + (Len(field.tokens) - 1) * (1 + field.pad)
           /\ FieldBytes(field) \in Nat
<1>1. field.tokens \in Seq(Tokens) /\ field.tokens # <<>> /\ field.pad \in Nat
    BY DEF OfferFields
<1>2. Len(field.tokens) \in Nat \ {0}
    BY <1>1
<1>3. FieldBytes(field) = BytesOf(field.tokens) + (Len(field.tokens) - 1) * (1 + field.pad)
    BY DEF FieldBytes, BytesOf, Sizes
<1> DEFINE n == Len(field.tokens) - 1
           m == 1 + field.pad
<1>4. n \in Nat /\ m \in Nat /\ BytesOf(field.tokens) \in Nat
    BY <1>1, <1>2, BytesAre
<1>5. n * m \in Nat
    <2> HIDE DEF n, m
    <2>1. QED BY <1>4
<1>6. QED BY <1>1, <1>2, <1>3, <1>4, <1>5

-----------------------------------------------------------------------------
(* The fields of an offer *)

\* The sequences so far, joined.
Flats(flat, seqs, S) ==
    /\ flat \in [0..Len(seqs) -> Seq(S)]
    /\ flat[0] = <<>>
    /\ \A n \in 1..Len(seqs) : flat[n] = flat[n - 1] \o seqs[n]

LEMMA FlatsExist ==
    ASSUME NEW S, NEW seqs \in Seq(Seq(S))
    PROVE  \E flat : Flats(flat, seqs, S)
<1> DEFINE L == Len(seqs)
           step == [p \in Seq(S) \X (1..L) |-> p[1] \o seqs[p[2]]]
<1>1. L \in Nat /\ \A n \in 1..L : seqs[n] \in Seq(S)
    OBVIOUS
<1> HIDE DEF L
<1>2. step \in [Seq(S) \X (1..L) -> Seq(S)]
    <2>1. \A s \in Seq(S), n \in 1..L : s \o seqs[n] \in Seq(S)
        BY <1>1
    <2>2. QED BY <2>1
<1>3. \A s \in Seq(S), n \in 1..L : step[<<s, n>>] = s \o seqs[n]
    OBVIOUS
<1> HIDE DEF step
<1>4. <<>> \in Seq(S)
    OBVIOUS
<1>5. PICK f \in [0..L -> Seq(S)] : Loops(f, <<>>, step, L)
    BY <1>1, <1>2, <1>4, LoopExists
<1>6. ASSUME NEW n \in 1..L PROVE f[n] = f[n - 1] \o seqs[n]
    <2>1. n - 1 \in 0..L
        BY <1>1
    <2>2. f[n - 1] \in Seq(S) /\ f[n] = step[<<f[n - 1], n>>]
        BY <1>5, <2>1 DEF Loops
    <2>3. QED BY <1>3, <2>2
<1>7. QED BY <1>5, <1>6 DEF Flats, Loops, L

LEMMA FlattenIs ==
    ASSUME NEW S, NEW seqs \in Seq(Seq(S)), NEW flat, Flats(flat, seqs, S)
    PROVE  FlattenSeq(seqs) = flat[Len(seqs)]
<1> DEFINE L == Len(seqs)
<1>1. L \in Nat
    OBVIOUS
<1>2. CASE L = 0
    <2>1. seqs = <<>>
        BY <1>2
    <2>2. FlattenSeq(seqs) = <<>>
        BY <1>2, <2>1 DEF FlattenSeq
    <2>3. QED BY <1>2, <2>2 DEF Flats
<1>3. CASE L # 0
    <2> DEFINE IsIt(f) == f = [i \in 1..L |-> IF i = 1 THEN seqs[i] ELSE f[i - 1] \o seqs[i]]
               F == CHOOSE f : IsIt(f)
               begun == [i \in 1..L |-> flat[i]]
               T == {n \in 0..L : n # 0 => F[n] = flat[n]}
    <2>1. FlattenSeq(seqs) = F[L]
        BY <1>3, Zenon DEF FlattenSeq
    <2>2. \A n \in 1..L : n - 1 \in 0..L /\ (n # 1 => n - 1 \in 1..L)
        BY <1>1
    <2>3. \A n \in 1..L : seqs[n] \in Seq(S)
        OBVIOUS
    <2>4. \A n \in 1..L : flat[n] = IF n = 1 THEN seqs[n] ELSE flat[n - 1] \o seqs[n]
        <3>1. \A s \in Seq(S) : <<>> \o s = s
            OBVIOUS
        <3>2. \A n \in 1..L : n = 1 => flat[n - 1] = <<>>
            BY DEF Flats
        <3>3. \A n \in 1..L : flat[n] = flat[n - 1] \o seqs[n]
            BY DEF Flats
        <3> HIDE DEF L
        <3>4. QED BY <2>3, <3>1, <3>2, <3>3
    <2> HIDE DEF L
    <2>5. IsIt(begun)
        <3>1. ASSUME NEW n \in 1..L
              PROVE  begun[n] = IF n = 1 THEN seqs[n] ELSE begun[n - 1] \o seqs[n]
            BY <2>2, <2>4
        <3> HIDE DEF begun
        <3>2. begun = [i \in 1..L |-> begun[i]]
            BY DEF begun
        <3>3. QED BY <3>1, <3>2
    <2>6. IsIt(F)
        <3> HIDE DEF IsIt
        <3>1. QED BY <2>5
    <2>7. \A n \in 1..L : F[n] = IF n = 1 THEN seqs[n] ELSE F[n - 1] \o seqs[n]
        <3>1. F = [i \in 1..L |-> IF i = 1 THEN seqs[i] ELSE F[i - 1] \o seqs[i]]
            BY <2>6
        <3> HIDE DEF F
        <3>2. QED BY <3>1
    <2> HIDE DEF F
    <2>8. 0 \in T
        BY <1>1
    <2>9. ASSUME NEW n \in 1..L, n - 1 \in T PROVE n \in T
        <3>1. n # 1 => F[n - 1] = flat[n - 1]
            BY <2>2, <2>9
        <3>2. F[n] = flat[n]
            BY <2>4, <2>7, <3>1
        <3>3. n \in 0..L
            BY <1>1
        <3>4. QED BY <3>2, <3>3
    <2>10. 0..L \subseteq T
        <3> HIDE DEF T
        <3>1. QED BY <1>1, <2>8, <2>9, UpTo, Zenon
    <2>11. L \in 0..L
        BY <1>1
    <2>12. QED BY <1>3, <2>1, <2>10, <2>11 DEF L
<1>4. QED BY <1>2, <1>3

\* What was refused stays refused in whatever follows it.
LEMMA SoundPrefix ==
    ASSUME NEW S, NEW a \in Seq(S), NEW b \in Seq(S), NEW admission, Sound(a \o b, admission)
    PROVE  Sound(a, admission)
<1>1. /\ Len(a) \in Nat /\ Len(b) \in Nat /\ Len(a \o b) = Len(a) + Len(b)
      /\ \A i \in 1..Len(a) : (a \o b)[i] = a[i]
    OBVIOUS
<1>2. \A i \in 1..Len(a) : i \in 1..Len(a \o b)
    BY <1>1
<1> DEFINE c == a \o b
<1> HIDE DEF c
<1>3. \A i \in 1..Len(a) : c[i] = a[i] /\ i \in 1..Len(c)
    BY <1>1, <1>2 DEF c
<1>4. \A i \in 1..Len(c) : /\ Offerable(c[i], admission)
                           /\ \A j \in 1..Len(c) : j < i => c[j].kind # c[i].kind
    BY DEF Sound, c
<1>5. QED BY <1>3, <1>4, Zenon DEF Sound

\* One turn of the outer loop of parse.
LEMMA FieldTells ==
    ASSUME NEW state \in States, NEW field \in OfferFields, NEW admission \in BOOLEAN,
           NEW after, after = TakeField(state, field, admission)
    PROVE  /\ after \in States
           /\ state.error # "none" => after = state
           /\ state.error = "none" /\ Sound(state.offered, admission) =>
                  /\ after.error = "none" <=>
                         /\ field.text
                         /\ state.aggregate + FieldBytes(field) <= MaxProtocolAggregateBytes
                         /\ Sound(state.offered \o field.tokens, admission)
                  /\ after.error = "none" =>
                         /\ after.aggregate = state.aggregate + FieldBytes(field)
                         /\ after.offered = state.offered \o field.tokens
<1> DEFINE aggregate == state.aggregate + FieldBytes(field)
           begun == [state EXCEPT !.aggregate = aggregate]
           refused == ~field.text \/ aggregate > MaxProtocolAggregateBytes
           read == TakeOffers(begun, field.tokens, admission)
           broken == [state EXCEPT !.error = "invalid_subprotocol"]
<1>1. after = IF state.error # "none" THEN state ELSE IF refused THEN broken ELSE read
    BY Zenon DEF TakeField
<1>2. aggregate \in Nat /\ field.tokens \in Seq(Tokens) /\ state.aggregate \in Nat
    <2>1. state.aggregate \in Nat
        BY DEF States
    <2>2. QED BY <2>1, FieldBytesAre
<1>3. ~refused <=> field.text /\ aggregate <= MaxProtocolAggregateBytes
    BY <1>2, ProtocolLimitsAssumption
<1> HIDE DEF aggregate, refused
<1>4. /\ begun \in States /\ begun.error = state.error /\ begun.offered = state.offered
      /\ begun.aggregate = aggregate
    BY <1>2 DEF States
<1>5. broken \in States /\ broken.error # "none"
    BY DEF States, OfferErrors
<1> HIDE DEF begun, broken
<1>6. read \in States
    <2>1. PICK taken : Takes(taken, begun, field.tokens, admission)
        BY <1>2, <1>4, TakesExist
    <2>2. read = taken[Len(field.tokens)] /\ Len(field.tokens) \in 0..Len(field.tokens)
        BY <1>2, <1>4, <2>1, OffersTaken
    <2>3. QED BY <2>1, <2>2 DEF Takes
<1>7. after \in States
    BY <1>1, <1>5, <1>6
<1>8. state.error # "none" => after = state
    BY <1>1
<1>9. ASSUME state.error = "none", Sound(state.offered, admission)
      PROVE  /\ after.error = "none" <=> ~refused /\ Sound(state.offered \o field.tokens, admission)
             /\ after.error = "none" => /\ after.aggregate = aggregate
                                        /\ after.offered = state.offered \o field.tokens
    <2>1. refused => after = broken
        BY <1>1, <1>9
    <2>2. ~refused => after = read
        BY <1>1, <1>9
    <2> DEFINE all == state.offered \o field.tokens
    <2>3. /\ read.error = "none" <=> Sound(all, admission)
          /\ read.error = "none" => read = [begun EXCEPT !.offered = all]
        <3> DEFINE joined == begun.offered \o field.tokens
        <3>1. begun \in States /\ begun.error = "none" /\ Sound(begun.offered, admission)
            BY <1>4, <1>9
        <3>2. /\ read.error = "none" <=> Sound(joined, admission)
              /\ read.error = "none" => read = [begun EXCEPT !.offered = joined]
            <4> HIDE DEF read
            <4>1. read = TakeOffers(begun, field.tokens, admission)
                BY DEF read
            <4>2. ASSUME NEW tokens \in Seq(Tokens), read = TakeOffers(begun, tokens, admission)
                  PROVE  /\ read.error = "none" <=> Sound(begun.offered \o tokens, admission)
                         /\ read.error = "none" =>
                                read = [begun EXCEPT !.offered = begun.offered \o tokens]
                BY <3>1, <4>2, OffersTell
            <4> DEFINE sent == field.tokens
            <4>3. sent \in Seq(Tokens) /\ read = TakeOffers(begun, sent, admission)
                BY <1>2, <4>1
            <4>4. joined = begun.offered \o sent
                OBVIOUS
            <4> HIDE DEF sent, joined
            <4>5. QED BY <4>2, <4>3, <4>4
        <3>3. joined = all
            BY <1>4
        <3> HIDE DEF joined, all, read
        <3>4. QED BY <3>2, <3>3
    <2> HIDE DEF all, read
    <2>4. read.error = "none" => read.aggregate = aggregate /\ read.offered = all
        BY <1>4, <2>3 DEF States
    <2>5. QED BY <1>5, <2>1, <2>2, <2>3, <2>4 DEF all
<1>10. QED BY <1>3, <1>7, <1>8, <1>9 DEF aggregate

\* The states after each field of an offer.
ReadSoFar(read, fields, admission) ==
    /\ read \in [0..Len(fields) -> States]
    /\ read[0] = NothingOffered
    /\ \A n \in 1..Len(fields) : read[n] = TakeField(read[n - 1], fields[n], admission)

LEMMA NothingIsAState ==
    /\ NothingOffered \in States /\ NothingOffered.error = "none"
    /\ NothingOffered.aggregate = 0 /\ NothingOffered.offered = <<>>
BY DEF NothingOffered, States, OfferErrors

LEMMA ReadingExists ==
    ASSUME NEW fields \in Seq(OfferFields), NEW admission \in BOOLEAN
    PROVE  \E read : ReadSoFar(read, fields, admission)
<1> DEFINE L == Len(fields)
           step == [p \in States \X (1..L) |-> TakeField(p[1], fields[p[2]], admission)]
<1>1. L \in Nat /\ \A n \in 1..L : fields[n] \in OfferFields
    OBVIOUS
<1> HIDE DEF L
<1>2. step \in [States \X (1..L) -> States]
    <2>1. \A s \in States, n \in 1..L : TakeField(s, fields[n], admission) \in States
        BY <1>1, FieldTells
    <2>2. QED BY <2>1
<1>3. \A s \in States, n \in 1..L : step[<<s, n>>] = TakeField(s, fields[n], admission)
    OBVIOUS
<1> HIDE DEF step
<1>4. PICK f \in [0..L -> States] : Loops(f, NothingOffered, step, L)
    BY <1>1, <1>2, NothingIsAState, LoopExists
<1>5. ASSUME NEW n \in 1..L PROVE f[n] = TakeField(f[n - 1], fields[n], admission)
    <2>1. n - 1 \in 0..L
        BY <1>1
    <2>2. f[n - 1] \in States /\ f[n] = step[<<f[n - 1], n>>]
        BY <1>4, <2>1 DEF Loops
    <2>3. QED BY <1>3, <2>2
<1>6. QED BY <1>4, <1>5 DEF ReadSoFar, Loops, L

LEMMA FieldsAreRead ==
    ASSUME NEW fields \in Seq(OfferFields), NEW admission \in BOOLEAN,
           NEW read, ReadSoFar(read, fields, admission)
    PROVE  TakeFields(fields, admission) = read[Len(fields)]
<1> DEFINE L == Len(fields)
           IsIt(f) == f = [n \in 0..L |-> IF n = 0 THEN NothingOffered
                                          ELSE TakeField(f[n - 1], fields[n], admission)]
           F == CHOOSE f : IsIt(f)
           T == {n \in 0..L : F[n] = read[n]}
<1>1. L \in Nat
    OBVIOUS
<1>2. IsIt(read)
    BY <1>1 DEF ReadSoFar
<1>3. IsIt(F)
    <2> HIDE DEF IsIt
    <2>1. QED BY <1>2
<1>4. TakeFields(fields, admission) = F[L]
    BY Zenon DEF TakeFields
<1>5. F[0] = NothingOffered /\ \A n \in 1..L : F[n] = TakeField(F[n - 1], fields[n], admission)
    <2>1. F = [n \in 0..L |-> IF n = 0 THEN NothingOffered
                              ELSE TakeField(F[n - 1], fields[n], admission)]
        BY <1>3
    <2> HIDE DEF F, L
    <2>2. QED BY <1>1, <2>1
<1> HIDE DEF F
<1>6. 0 \in T /\ \A n \in 1..L : n - 1 \in T => n \in T
    BY <1>1, <1>5 DEF ReadSoFar
<1>7. L \in T
    <2> HIDE DEF T
    <2>1. 0..L \subseteq T
        BY <1>1, <1>6, UpTo, Zenon
    <2>2. QED BY <1>1, <2>1
<1>8. QED BY <1>4, <1>7

\* What the fields say and how long they are, field by field.
TokensOf(fields) == [k \in DOMAIN fields |-> fields[k].tokens]
BytesOfEach(fields) == [k \in DOMAIN fields |-> FieldBytes(fields[k])]

LEMMA FieldsHave ==
    ASSUME NEW fields \in Seq(OfferFields)
    PROVE  /\ TokensOf(fields) \in Seq(Seq(Tokens)) /\ Len(TokensOf(fields)) = Len(fields)
           /\ \A k \in 1..Len(fields) : TokensOf(fields)[k] = fields[k].tokens
           /\ BytesOfEach(fields) \in Seq(Nat) /\ Len(BytesOfEach(fields)) = Len(fields)
           /\ \A k \in 1..Len(fields) : BytesOfEach(fields)[k] = FieldBytes(fields[k])
<1> DEFINE L == Len(fields)
<1>1. L \in Nat /\ DOMAIN fields = 1..L /\ \A k \in 1..L : fields[k] \in OfferFields
    OBVIOUS
<1>2. \A k \in 1..L : fields[k].tokens \in Seq(Tokens) /\ FieldBytes(fields[k]) \in Nat
    BY <1>1, FieldBytesAre
<1>3. TokensOf(fields) = [k \in 1..L |-> fields[k].tokens]
    BY <1>1 DEF TokensOf
<1>4. BytesOfEach(fields) = [k \in 1..L |-> FieldBytes(fields[k])]
    BY <1>1 DEF BytesOfEach
<1> HIDE DEF L
<1>5. /\ TokensOf(fields) \in Seq(Seq(Tokens)) /\ Len(TokensOf(fields)) = L
      /\ \A k \in 1..L : TokensOf(fields)[k] = fields[k].tokens
    BY <1>1, <1>2, <1>3
<1>6. /\ BytesOfEach(fields) \in Seq(Nat) /\ Len(BytesOfEach(fields)) = L
      /\ \A k \in 1..L : BytesOfEach(fields)[k] = FieldBytes(fields[k])
    BY <1>1, <1>2, <1>4
<1>7. QED BY <1>5, <1>6 DEF L

\* The outer loop of parse.
LEMMA FieldsTell ==
    ASSUME NEW fields \in Seq(OfferFields), NEW admission \in BOOLEAN,
           NEW flat, Flats(flat, TokensOf(fields), Tokens),
           NEW sum, Sums(sum, BytesOfEach(fields)),
           NEW after, after = TakeFields(fields, admission)
    PROVE  /\ after \in States
           /\ after.error = "none" <=>
                  /\ Sound(flat[Len(fields)], admission)
                  /\ \A k \in 1..Len(fields) :
                         fields[k].text /\ sum[k] <= MaxProtocolAggregateBytes
           /\ after.error = "none" => after.offered = flat[Len(fields)]
<1> DEFINE L == Len(fields)
           Fit(n) == \A k \in 1..n : fields[k].text /\ sum[k] <= MaxProtocolAggregateBytes
           Good(s, n) == /\ s.error = "none" <=> Sound(flat[n], admission) /\ Fit(n)
                         /\ s.error = "none" => s.aggregate = sum[n] /\ s.offered = flat[n]
<1>1. L \in Nat /\ \A n \in 1..L : fields[n] \in OfferFields
    OBVIOUS
<1>2. PICK read : ReadSoFar(read, fields, admission)
    BY ReadingExists
<1>3. after = read[L]
    BY <1>2, FieldsAreRead
<1>4. /\ flat \in [0..L -> Seq(Tokens)] /\ flat[0] = <<>>
      /\ \A n \in 1..L : flat[n] = flat[n - 1] \o fields[n].tokens
    BY FieldsHave DEF Flats
<1>5. /\ sum \in [0..L -> Nat] /\ sum[0] = 0
      /\ \A n \in 1..L : sum[n] = sum[n - 1] + FieldBytes(fields[n])
    BY FieldsHave DEF Sums
<1> DEFINE T == {n \in 0..L : Good(read[n], n)}
<1>6. 0 \in T
    <2>1. Sound(<<>>, admission)
        BY DEF Sound
    <2>2. Fit(0)
        OBVIOUS
    <2>3. read[0] = NothingOffered
        BY <1>2 DEF ReadSoFar
    <2> HIDE DEF Fit
    <2>4. Good(read[0], 0)
        BY <1>4, <1>5, <2>1, <2>2, <2>3, NothingIsAState
    <2>5. QED BY <1>1, <2>4
<1>7. ASSUME NEW n \in 1..L, n - 1 \in T PROVE n \in T
    <2> DEFINE s == read[n - 1]
               t == read[n]
               field == fields[n]
               sent == field.tokens
               so == flat[n - 1]
    <2>1. n - 1 \in 0..L /\ n \in 0..L
        BY <1>1
    <2>2. /\ s \in States /\ t = TakeField(s, field, admission) /\ Good(s, n - 1)
          /\ field \in OfferFields
        BY <1>1, <1>2, <1>7, <2>1 DEF ReadSoFar
    <2>3. /\ so \in Seq(Tokens) /\ sent \in Seq(Tokens) /\ flat[n] = so \o sent
          /\ sum[n] = sum[n - 1] + FieldBytes(field)
        BY <1>4, <1>5, <2>1, <2>2, FieldBytesAre
    <2>4. Fit(n) <=> /\ Fit(n - 1)
                     /\ field.text /\ sum[n] <= MaxProtocolAggregateBytes
        <3>1. \A k \in 1..n : k \in 1..(n - 1) \/ k = n
            BY <1>1
        <3>2. \A k \in 1..(n - 1) : k \in 1..n
            BY <1>1
        <3>3. n \in 1..n
            BY <1>1
        <3> HIDE DEF L
        <3>4. QED BY <3>1, <3>2, <3>3
    <2>5. Sound(flat[n], admission) => Sound(so, admission)
        BY <2>3, SoundPrefix
    <2>6. /\ s.error # "none" => t = s
          /\ s.error = "none" /\ Sound(s.offered, admission) =>
                 /\ t.error = "none" <=>
                        /\ field.text
                        /\ s.aggregate + FieldBytes(field) <= MaxProtocolAggregateBytes
                        /\ Sound(s.offered \o sent, admission)
                 /\ t.error = "none" => /\ t.aggregate = s.aggregate + FieldBytes(field)
                                        /\ t.offered = s.offered \o sent
        BY <2>2, FieldTells, ZenonT(40)
    <2> SUFFICES Good(t, n)
        BY <2>1
    <2> HIDE DEF s, t, Fit, field, sent
    <2>7. CASE s.error # "none"
        <3>1. t = s /\ ~(Sound(so, admission) /\ Fit(n - 1))
            BY <2>2, <2>6, <2>7
        <3>2. ~(Sound(flat[n], admission) /\ Fit(n))
            BY <2>4, <2>5, <3>1
        <3>3. QED BY <2>7, <3>1, <3>2
    <2>8. CASE s.error = "none"
        <3>1. Sound(so, admission) /\ Fit(n - 1) /\ s.aggregate = sum[n - 1] /\ s.offered = so
            BY <2>2, <2>8
        <3> HIDE DEF so
        <3>2. s.offered \o sent = flat[n] /\ s.aggregate + FieldBytes(field) = sum[n]
            BY <2>3, <3>1
        <3>3. QED BY <2>4, <2>6, <2>8, <3>1, <3>2
    <2>9. QED BY <2>7, <2>8
<1>8. 0..L \subseteq T
    <2> HIDE DEF T, L
    <2>1. QED BY <1>1, <1>6, <1>7, UpTo, Zenon
<1>9. L \in 0..L /\ read[L] \in States
    BY <1>1, <1>2 DEF ReadSoFar
<1>10. Good(read[L], L)
    BY <1>8, <1>9
<1>11. QED BY <1>3, <1>9, <1>10

\* What parse accepts, and what it then makes of it.
LEMMA ParseTells ==
    ASSUME NEW fields \in Seq(OfferFields), NEW admission \in BOOLEAN,
           NEW flat, Flats(flat, TokensOf(fields), Tokens),
           NEW sum, Sums(sum, BytesOfEach(fields)),
           NEW tokens, tokens = flat[Len(fields)], tokens # <<>>,
           NEW read, read = ParseOffers(fields, admission)
    PROVE  /\ read.error = "none" <=>
                  /\ Sound(tokens, admission)
                  /\ \A k \in 1..Len(fields) :
                         fields[k].text /\ sum[k] <= MaxProtocolAggregateBytes
                  /\ \E i \in 1..Len(tokens) : tokens[i].kind = "realtime"
                  /\ CanonicalBytes(tokens) <= MaxProtocolAggregateBytes
           /\ read.error = "none" => read = [error |-> "none", offered |-> tokens]
<1> DEFINE taken == TakeFields(fields, admission)
           unread == taken.error # "none"
           other == taken.offered # <<>> /\ ~Seen(taken, "realtime")
           long == CanonicalBytes(taken.offered) > MaxProtocolAggregateBytes
           checks == <<<<unread, taken.error>>, <<other, "invalid_subprotocol">>,
                       <<long, "invalid_subprotocol">>>>
           refusal == FirstRefusal(checks)
           Fit == \A k \in 1..Len(fields) :
                      fields[k].text /\ sum[k] <= MaxProtocolAggregateBytes
<1>1. read = [error |-> refusal, offered |-> IF refusal = "none" THEN taken.offered ELSE <<>>]
    BY Zenon DEF ParseOffers
<1>2. /\ taken \in States
      /\ taken.error = "none" <=> Sound(tokens, admission) /\ Fit
      /\ taken.error = "none" => taken.offered = tokens
    BY FieldsTell
<1>3. tokens \in Seq(Tokens)
    <2>1. Len(fields) \in 0..Len(TokensOf(fields))
        BY FieldsHave
    <2>2. QED BY <2>1 DEF Flats
<1> HIDE DEF taken
<1>4. taken.error = "none" => /\ other <=> ~\E i \in 1..Len(tokens) : tokens[i].kind = "realtime"
                              /\ long <=> ~(CanonicalBytes(tokens) <= MaxProtocolAggregateBytes)
    <2>1. CanonicalBytes(tokens) \in Nat /\ MaxProtocolAggregateBytes \in Nat
        <3>1. BytesOf(tokens) \in Nat /\ Len(tokens) \in Nat \ {0}
            BY <1>3, BytesAre
        <3>2. CanonicalBytes(tokens) = BytesOf(tokens) + 2 * (Len(tokens) - 1)
            BY <1>3, CanonicalIs
        <3>3. QED BY <3>1, <3>2, ProtocolLimitsAssumption
    <2>2. Seen(taken, "realtime") <=>
              \E j \in 1..Len(taken.offered) : taken.offered[j].kind = "realtime"
        BY <1>2, OneOfAKind
    <2>3. QED BY <1>2, <2>1, <2>2
<1>5. /\ DOMAIN checks = 1..3
      /\ checks[1][1] = unread /\ checks[2][1] = other /\ checks[3][1] = long
      /\ checks[1][2] = taken.error
      /\ checks[2][2] # "none" /\ checks[3][2] # "none"
    <2> HIDE DEF unread, other, long
    <2>1. QED OBVIOUS
<1>6. unread <=> taken.error # "none"
    OBVIOUS
<1> HIDE DEF checks, unread, other, long, Fit
<1>7. refusal = "none" <=> ~unread /\ ~other /\ ~long
    <2>1. \/ FirstRefusal(checks) = "none" /\ \A i \in 1..3 : ~checks[i][1]
          \/ \E i \in 1..3 : checks[i][1] /\ FirstRefusal(checks) = checks[i][2]
        BY <1>5, SomeFails
    <2>2. QED BY <1>5, <1>6, <2>1
<1> HIDE DEF refusal
<1>8. read.error = refusal /\ (refusal = "none" => read = [error |-> "none", offered |-> taken.offered])
    BY <1>1
<1>9. QED BY <1>2, <1>4, <1>6, <1>7, <1>8 DEF Fit

\* An offer in a single field.
LEMMA OneFieldTells ==
    ASSUME NEW tokens \in Seq(Tokens), tokens # <<>>, NEW pad \in Nat, NEW admission \in BOOLEAN,
           NEW read, read = ParseOffers(<<Field(tokens, pad)>>, admission)
    PROVE  /\ read.error = "none" <=>
                  /\ Sound(tokens, admission)
                  /\ FieldBytes(Field(tokens, pad)) <= MaxProtocolAggregateBytes
                  /\ \E i \in 1..Len(tokens) : tokens[i].kind = "realtime"
                  /\ CanonicalBytes(tokens) <= MaxProtocolAggregateBytes
           /\ read.error = "none" => read = [error |-> "none", offered |-> tokens]
<1> DEFINE field == Field(tokens, pad)
           fields == <<field>>
           flat == [n \in 0..1 |-> IF n = 0 THEN <<>> ELSE tokens]
           sum == [n \in 0..1 |-> IF n = 0 THEN 0 ELSE FieldBytes(field)]
<1>1. field \in OfferFields /\ field.tokens = tokens /\ field.text
    BY DEF Field, OfferFields
<1> HIDE DEF field
<1>2. fields \in Seq(OfferFields) /\ Len(fields) = 1 /\ fields[1] = field
    BY <1>1
<1>3. FieldBytes(field) \in Nat
    BY <1>1, FieldBytesAre
<1> HIDE DEF fields
<1>4. Flats(flat, TokensOf(fields), Tokens)
    <2>1. Len(TokensOf(fields)) = 1 /\ TokensOf(fields)[1] = tokens
        BY <1>1, <1>2, FieldsHave
    <2>2. <<>> \o tokens = tokens
        OBVIOUS
    <2>3. /\ flat \in [0..1 -> Seq(Tokens)] /\ flat[0] = <<>> /\ flat[1] = tokens
        OBVIOUS
    <2> HIDE DEF flat
    <2>4. \A n \in 1..1 : n = 1 /\ n - 1 = 0
        OBVIOUS
    <2>5. QED BY <2>1, <2>2, <2>3, <2>4 DEF Flats
<1>5. Sums(sum, BytesOfEach(fields))
    <2>1. Len(BytesOfEach(fields)) = 1 /\ BytesOfEach(fields)[1] = FieldBytes(field)
        BY <1>2, FieldsHave
    <2>2. /\ sum \in [0..1 -> Nat] /\ sum[0] = 0 /\ sum[1] = FieldBytes(field)
        BY <1>3
    <2> HIDE DEF sum
    <2>3. QED BY <1>3, <2>1, <2>2 DEF Sums
<1>6. flat[Len(fields)] = tokens /\ sum[1] = FieldBytes(field)
    BY <1>2
<1> HIDE DEF flat, sum
<1>7. /\ read.error = "none" <=>
             /\ Sound(tokens, admission)
             /\ \A k \in 1..Len(fields) :
                    fields[k].text /\ sum[k] <= MaxProtocolAggregateBytes
             /\ \E i \in 1..Len(tokens) : tokens[i].kind = "realtime"
             /\ CanonicalBytes(tokens) <= MaxProtocolAggregateBytes
      /\ read.error = "none" => read = [error |-> "none", offered |-> tokens]
    <2>1. read = ParseOffers(fields, admission)
        BY DEF fields, field
    <2>2. ASSUME NEW fs \in Seq(OfferFields), NEW f, Flats(f, TokensOf(fs), Tokens),
                 NEW s, Sums(s, BytesOfEach(fs)), tokens = f[Len(fs)],
                 read = ParseOffers(fs, admission)
          PROVE  /\ read.error = "none" <=>
                        /\ Sound(tokens, admission)
                        /\ \A k \in 1..Len(fs) :
                               fs[k].text /\ s[k] <= MaxProtocolAggregateBytes
                        /\ \E i \in 1..Len(tokens) : tokens[i].kind = "realtime"
                        /\ CanonicalBytes(tokens) <= MaxProtocolAggregateBytes
                 /\ read.error = "none" => read = [error |-> "none", offered |-> tokens]
        BY <2>2, ParseTells
    <2>3. QED BY <1>2, <1>4, <1>5, <1>6, <2>1, <2>2
<1>8. (\A k \in 1..Len(fields) : fields[k].text /\ sum[k] <= MaxProtocolAggregateBytes)
          <=> FieldBytes(field) <= MaxProtocolAggregateBytes
    BY <1>1, <1>2, <1>6
<1>9. QED BY <1>7, <1>8 DEF field

\* Fields without blanks are never longer than their tokens in one such field.
LEMMA PlainFieldsAreShort ==
    ASSUME NEW fields \in Seq(OfferFields), \A k \in 1..Len(fields) : fields[k].pad = 0,
           NEW flat, Flats(flat, TokensOf(fields), Tokens),
           NEW sum, Sums(sum, BytesOfEach(fields))
    PROVE  \A k \in 1..Len(fields) :
               sum[k] <= BytesOf(flat[Len(fields)]) + (Len(flat[Len(fields)]) - 1)
<1> DEFINE L == Len(fields)
           room(n) == BytesOf(flat[n]) + (Len(flat[n]) - 1)
           T == {n \in 0..L : \A k \in 1..n : sum[k] <= room(n)}
<1>1. L \in Nat /\ \A n \in 1..L : fields[n] \in OfferFields
    OBVIOUS
<1>2. /\ flat \in [0..L -> Seq(Tokens)] /\ flat[0] = <<>>
      /\ \A n \in 1..L : flat[n] = flat[n - 1] \o fields[n].tokens
    BY FieldsHave DEF Flats
<1>3. /\ sum \in [0..L -> Nat] /\ sum[0] = 0
      /\ \A n \in 1..L : sum[n] = sum[n - 1] + FieldBytes(fields[n])
    BY FieldsHave DEF Sums
<1>4. 0 \in T
    BY <1>1
<1>5. ASSUME NEW n \in 1..L, n - 1 \in T PROVE n \in T
    <2> DEFINE field == fields[n]
               sent == field.tokens
               so == flat[n - 1]
               all == flat[n]
    <2>1. n - 1 \in 0..L /\ n \in 0..L /\ n \in 1..n /\ \A k \in 1..n : k \in 1..(n - 1) \/ k = n
        BY <1>1
    <2>2. /\ sent \in Seq(Tokens) /\ Len(sent) \in Nat \ {0}
          /\ FieldBytes(field) = BytesOf(sent) + (Len(sent) - 1) * (1 + field.pad)
        BY <1>1, FieldBytesAre
    <2>3. FieldBytes(field) = BytesOf(sent) + (Len(sent) - 1)
        <3>1. field.pad = 0
            OBVIOUS
        <3> HIDE DEF field, sent
        <3>2. BytesOf(sent) \in Nat
            BY <2>2, BytesAre
        <3>3. QED BY <2>2, <3>1, <3>2
    <2>4. /\ so \in Seq(Tokens) /\ all = so \o sent /\ sum[n] = sum[n - 1] + FieldBytes(field)
          /\ sum[n - 1] \in Nat
        BY <1>2, <1>3, <2>1
    <2>5. n = 1 => so = <<>> /\ sum[n - 1] = 0
        BY <1>2, <1>3
    <2>6. \A k \in 1..(n - 1) : sum[k] <= BytesOf(so) + (Len(so) - 1) /\ sum[k] \in Nat
        <3>1. \A k \in 1..(n - 1) : k \in 0..L
            BY <1>1
        <3>2. QED BY <1>3, <1>5, <3>1
    <2>7. n # 1 => n - 1 \in 1..(n - 1)
        BY <1>1
    <2> HIDE DEF field, sent, so, all
    <2>8. BytesOf(all) = BytesOf(so) + BytesOf(sent) /\ Len(all) = Len(so) + Len(sent)
        BY <2>2, <2>4, BytesJoin
    <2>9. BytesOf(so) \in Nat /\ BytesOf(sent) \in Nat /\ Len(so) \in Nat
        BY <2>2, <2>4, BytesAre
    <2>10. \A k \in 1..(n - 1) : sum[k] <= BytesOf(all) + (Len(all) - 1)
        BY <2>2, <2>6, <2>8, <2>9
    <2>11. sum[n] <= BytesOf(all) + (Len(all) - 1)
        <3>1. CASE n = 1
            <4>1. BytesOf(so) = 0 /\ Len(so) = 0
                BY <2>5, <3>1, NoBytes
            <4>2. QED BY <2>2, <2>3, <2>4, <2>5, <2>8, <2>9, <3>1, <4>1
        <3>2. CASE n # 1
            <4>1. sum[n - 1] <= BytesOf(so) + (Len(so) - 1)
                BY <2>6, <2>7, <3>2
            <4>2. QED BY <2>2, <2>3, <2>4, <2>8, <2>9, <4>1
        <3>3. QED BY <3>1, <3>2
    <2>12. QED BY <2>1, <2>10, <2>11 DEF all
<1>6. 0..L \subseteq T
    <2> HIDE DEF T, L
    <2>1. QED BY <1>1, <1>4, <1>5, UpTo, Zenon
<1>7. L \in 0..L
    BY <1>1
<1>8. QED BY <1>6, <1>7

\* No fields are no offer.
LEMMA NoFieldsNoRefusal ==
    ASSUME NEW admission \in BOOLEAN
    PROVE  ParseOffers(<<>>, admission).error = "none"
<1> DEFINE taken == TakeFields(<<>>, admission)
           unread == taken.error # "none"
           other == taken.offered # <<>> /\ ~Seen(taken, "realtime")
           long == CanonicalBytes(taken.offered) > MaxProtocolAggregateBytes
           checks == <<<<unread, taken.error>>, <<other, "invalid_subprotocol">>,
                       <<long, "invalid_subprotocol">>>>
           refusal == FirstRefusal(checks)
<1>1. <<>> \in Seq(OfferFields) /\ Len(<<>>) = 0
    OBVIOUS
<1>2. PICK read : ReadSoFar(read, <<>>, admission)
    BY <1>1, ReadingExists
<1>3. taken = NothingOffered
    BY <1>1, <1>2, FieldsAreRead DEF ReadSoFar
<1>4. CanonicalBytes(<<>>) = 0
    <2> DEFINE sizes == [i \in DOMAIN <<>> |-> TokenBytes(<<>>[i]) + (IF i = 1 THEN 0 ELSE 2)]
    <2>1. sizes \in Seq(Nat) /\ Len(sizes) = 0
        OBVIOUS
    <2>2. CanonicalBytes(<<>>) = Total(sizes)
        BY DEF CanonicalBytes
    <2> HIDE DEF sizes
    <2>3. PICK sum : Sums(sum, sizes)
        BY <2>1, SumsExist
    <2>4. Total(sizes) = sum[0] /\ sum[0] = 0
        BY <2>1, <2>3, TotalAdds DEF Sums
    <2>5. QED BY <2>2, <2>4
<1>5. ParseOffers(<<>>, admission).error = refusal
    BY DEF ParseOffers
<1>6. ~unread /\ ~other /\ ~long
    BY <1>3, <1>4, NothingIsAState, ProtocolLimitsAssumption
<1> HIDE DEF unread, other, long
<1>7. /\ DOMAIN checks = 1..3
      /\ checks[1][1] = unread /\ checks[2][1] = other /\ checks[3][1] = long
    OBVIOUS
<1> HIDE DEF checks
<1>8. refusal = "none"
    BY <1>6, <1>7, SomeFails
<1>9. QED BY <1>5, <1>8

\* Of any fields with tokens in them, whatever their number and their lengths, and
\* with and without an admission token: what is offered is the tokens in the order
\* they came, however they are spread over fields; the one field that is sent
\* upstream is read as the same offer; no credential in it is the admission token;
\* and fields without blanks are refused only if their tokens are (parse).
THEOREM OffersReadAlike ==
    ASSUME NEW fields \in Seq(OfferFields), NEW admission \in BOOLEAN
    PROVE  OffersAreRead(fields, admission)
<1> DEFINE L == Len(fields)
           read == ParseOffers(fields, admission)
           tokens == FlattenSeq(TokensOf(fields))
           plainly == ParseOffers(<<Field(tokens, 0)>>, admission)
           sent == ParseOffers(<<Field(tokens, 1)>>, admission)
           bytes == BytesOf(tokens)
           N == Len(tokens)
<1>1. /\ L \in Nat /\ DOMAIN fields = 1..L /\ \A k \in 1..L : fields[k] \in OfferFields
      /\ (L = 0 => fields = <<>>)
    OBVIOUS
<1>2. PICK flat : Flats(flat, TokensOf(fields), Tokens)
    BY FieldsHave, FlatsExist
<1>3. PICK sum : Sums(sum, BytesOfEach(fields))
    BY FieldsHave, SumsExist
<1>4. tokens = flat[L] /\ tokens \in Seq(Tokens)
    <2>1. tokens = flat[L] /\ L \in 0..Len(TokensOf(fields))
        BY <1>1, <1>2, FieldsHave, FlattenIs
    <2>2. QED BY <1>2, <2>1 DEF Flats
<1>5. L # 0 => tokens # <<>>
    <2> SUFFICES ASSUME L # 0 PROVE tokens # <<>>
        OBVIOUS
    <2>1. L \in 1..L /\ L - 1 \in 0..L
        BY <1>1
    <2>2. flat[L] = flat[L - 1] \o fields[L].tokens /\ flat[L - 1] \in Seq(Tokens)
        BY <1>2, <2>1, FieldsHave DEF Flats
    <2>3. fields[L].tokens \in Seq(Tokens) /\ Len(fields[L].tokens) # 0
        BY <1>1, <2>1, FieldBytesAre
    <2> DEFINE a == flat[L - 1]
               b == fields[L].tokens
    <2>4. a \in Seq(Tokens) /\ b \in Seq(Tokens) /\ Len(b) # 0
        BY <2>2, <2>3
    <2> HIDE DEF a, b
    <2>5. Len(a \o b) # 0
        BY <2>4
    <2>6. Len(<<>>) = 0
        OBVIOUS
    <2>7. QED BY <1>4, <2>2, <2>5, <2>6 DEF a, b
<1>6. tokens # <<>> =>
          /\ bytes \in Nat /\ N \in Nat \ {0}
          /\ CanonicalBytes(tokens) = bytes + 2 * (N - 1)
          /\ FieldBytes(Field(tokens, 0)) = bytes + (N - 1)
          /\ FieldBytes(Field(tokens, 1)) = bytes + 2 * (N - 1)
    <2> HIDE DEF tokens
    <2> SUFFICES ASSUME tokens # <<>>
                 PROVE  /\ bytes \in Nat /\ N \in Nat \ {0}
                        /\ CanonicalBytes(tokens) = bytes + 2 * (N - 1)
                        /\ FieldBytes(Field(tokens, 0)) = bytes + (N - 1)
                        /\ FieldBytes(Field(tokens, 1)) = bytes + 2 * (N - 1)
        OBVIOUS
    <2>1. bytes \in Nat /\ N \in Nat \ {0}
        BY <1>4, BytesAre
    <2>2. \A pad \in Nat : FieldBytes(Field(tokens, pad)) = bytes + (N - 1) * (1 + pad)
        <3>1. ASSUME NEW pad \in Nat
              PROVE  FieldBytes(Field(tokens, pad)) = bytes + (N - 1) * (1 + pad)
            <4> DEFINE field == Field(tokens, pad)
            <4>1. field \in OfferFields /\ field.tokens = tokens /\ field.pad = pad
                BY <1>4 DEF Field, OfferFields
            <4> HIDE DEF field
            <4>2. FieldBytes(field) = bytes + (N - 1) * (1 + pad)
                BY <4>1, FieldBytesAre
            <4>3. QED BY <4>2 DEF field
        <3>2. QED BY <3>1
    <2>3. FieldBytes(Field(tokens, 0)) = bytes + (N - 1) * (1 + 0)
        BY <2>2
    <2>4. FieldBytes(Field(tokens, 1)) = bytes + (N - 1) * (1 + 1)
        BY <2>2
    <2> HIDE DEF bytes, N
    <2>5. QED BY <1>4, <2>1, <2>3, <2>4, CanonicalIs DEF bytes, N
<1> DEFINE Good == /\ Sound(tokens, admission)
                   /\ \E i \in 1..N : tokens[i].kind = "realtime"
                   /\ CanonicalBytes(tokens) <= MaxProtocolAggregateBytes
           Fit == \A k \in 1..L : fields[k].text /\ sum[k] <= MaxProtocolAggregateBytes
           offer == [error |-> "none", offered |-> tokens]
<1>7. tokens # <<>> => /\ read.error = "none" <=> Good /\ Fit
                       /\ read.error = "none" => read = offer
    <2> HIDE DEF tokens
    <2>1. QED BY <1>2, <1>3, <1>4, ParseTells
<1>8. tokens # <<>> =>
          /\ plainly.error = "none" <=>
                 Good /\ FieldBytes(Field(tokens, 0)) <= MaxProtocolAggregateBytes
          /\ plainly.error = "none" => plainly = offer
          /\ sent.error = "none" <=>
                 Good /\ FieldBytes(Field(tokens, 1)) <= MaxProtocolAggregateBytes
          /\ sent.error = "none" => sent = offer
    <2> HIDE DEF tokens
    <2>1. 0 \in Nat /\ 1 \in Nat
        OBVIOUS
    <2>2. QED BY <1>4, <2>1, OneFieldTells, SMTT(30)
<1>9. tokens # <<>> => (Good => plainly = offer /\ sent = offer)
    <2> HIDE DEF tokens, bytes, N, plainly, sent, offer
    <2>1. QED BY <1>6, <1>8, ProtocolLimitsAssumption DEF Good
<1>10. ASSUME read.error = "none", tokens # <<>>
       PROVE  /\ read = offer /\ plainly = read /\ sent = read
              /\ \A token \in Range(tokens) :
                     token.kind = "credential" => ~(admission /\ token.secret)
    <2>1. Good /\ read = offer
        BY <1>7, <1>10
    <2>2. plainly = read /\ sent = read
        BY <1>9, <1>10, <2>1
    <2> HIDE DEF tokens
    <2>3. \A i \in 1..N : Offerable(tokens[i], admission)
        BY <2>1 DEF Sound
    <2>4. \A token \in Range(tokens) : \E i \in 1..N : token = tokens[i]
        BY <1>4 DEF Range
    <2>5. \A token \in Range(tokens) : Offerable(token, admission)
        BY <2>3, <2>4
    <2>6. QED BY <2>1, <2>2, <2>5 DEF Offerable
<1>11. ASSUME read.error # "none", \A field \in Range(fields) : field.text /\ field.pad = 0
       PROVE  plainly.error # "none"
    <2>1. \A k \in 1..L : fields[k].text /\ fields[k].pad = 0
        BY <1>1, <1>11 DEF Range
    <2>2. tokens # <<>>
        <3>1. L # 0
            BY <1>1, <1>11, NoFieldsNoRefusal
        <3>2. QED BY <1>5, <3>1
    <2>3. ~(Good /\ Fit)
        BY <1>7, <1>11, <2>2
    <2>4. \A k \in 1..L : sum[k] <= bytes + (N - 1)
        <3> HIDE DEF tokens
        <3>1. QED BY <1>2, <1>3, <1>4, <2>1, PlainFieldsAreShort
    <2>5. \A k \in 1..L : sum[k] \in Nat
        <3>1. sum \in [0..L -> Nat]
            BY <1>3, FieldsHave DEF Sums
        <3>2. \A k \in 1..L : k \in 0..L
            BY <1>1
        <3>3. QED BY <3>1, <3>2
    <2> SUFFICES ASSUME plainly.error = "none" PROVE FALSE
        OBVIOUS
    <2> HIDE DEF tokens, bytes, N, plainly, read, Good
    <2>6. Good /\ bytes + (N - 1) <= MaxProtocolAggregateBytes
        BY <1>6, <1>8, <2>2
    <2>7. \A k \in 1..L : sum[k] <= MaxProtocolAggregateBytes
        BY <1>6, <2>2, <2>4, <2>5, <2>6, ProtocolLimitsAssumption
    <2>8. QED BY <2>1, <2>3, <2>6, <2>7
<1>12. tokens = FlattenSeq([i \in DOMAIN fields |-> fields[i].tokens])
    BY DEF TokensOf
<1>13. read = offer => read.offered = tokens
    OBVIOUS
<1> HIDE DEF tokens, read, plainly, sent
<1>14. (read.error = "none" /\ tokens # <<>>) =>
           /\ read.offered = tokens
           /\ ParseOffers(<<Field(tokens, 0)>>, admission) = read
           /\ ParseOffers(<<Field(read.offered, 1)>>, admission) = read
           /\ \A token \in Range(tokens) :
                  token.kind = "credential" => ~(admission /\ token.secret)
    <2> SUFFICES ASSUME read.error = "none", tokens # <<>>
                 PROVE  /\ read.offered = tokens
                        /\ ParseOffers(<<Field(tokens, 0)>>, admission) = read
                        /\ ParseOffers(<<Field(read.offered, 1)>>, admission) = read
                        /\ \A token \in Range(tokens) :
                               token.kind = "credential" => ~(admission /\ token.secret)
        OBVIOUS
    <2>1. read.offered = tokens
        BY <1>10, <1>13
    <2>2. QED BY <1>10, <2>1 DEF plainly, sent
<1>15. QED BY <1>11, <1>12, <1>14, Zenon DEF OffersAreRead, read, plainly

-----------------------------------------------------------------------------
(* Histories *)

Rounded(bytes) == (bytes + BytesPerToken - 1) \div BytesPerToken

LEMMA RoundedUp ==
    ASSUME NEW bytes \in Nat
    PROVE  Rounded(bytes) \in Nat /\ bytes <= BytesPerToken * Rounded(bytes)
<1>1. (bytes + 4 - 1) \div 4 \in Nat /\ bytes <= 4 * ((bytes + 4 - 1) \div 4)
    OBVIOUS
<1>2. QED BY <1>1 DEF Rounded, BytesPerToken

\* What is at most so many times as much, one by one, is so in all.
LEMMA TotalsCompare ==
    ASSUME NEW a \in Seq(Nat), NEW b \in Seq(Nat), Len(a) = Len(b),
           \A i \in 1..Len(a) : a[i] <= BytesPerToken * b[i]
    PROVE  Total(a) <= BytesPerToken * Total(b)
<1> DEFINE L == Len(a)
<1>1. /\ L \in Nat /\ Len(b) = L
      /\ \A i \in 1..L : a[i] \in Nat /\ b[i] \in Nat /\ a[i] <= 4 * b[i]
    BY DEF BytesPerToken
<1>2. PICK s : Sums(s, a)
    BY SumsExist
<1>3. PICK t : Sums(t, b)
    BY SumsExist
<1> DEFINE T == {n \in 0..L : s[n] <= 4 * t[n]}
<1>4. 0 \in T
    BY <1>1, <1>2, <1>3 DEF Sums
<1>5. ASSUME NEW n \in 1..L, n - 1 \in T PROVE n \in T
    <2>1. n - 1 \in 0..L /\ n \in 0..L
        BY <1>1
    <2>2. /\ s[n] = s[n - 1] + a[n] /\ t[n] = t[n - 1] + b[n]
          /\ s[n - 1] \in Nat /\ t[n - 1] \in Nat
        BY <1>1, <1>2, <1>3, <2>1 DEF Sums
    <2>3. s[n - 1] <= 4 * t[n - 1]
        BY <1>5
    <2>4. s[n] <= 4 * t[n]
        BY <1>1, <2>2, <2>3, SMTT(30)
    <2>5. QED BY <2>1, <2>4
<1>6. 0..L \subseteq T
    <2> HIDE DEF T, L
    <2>1. QED BY <1>1, <1>4, <1>5, UpTo, Zenon
<1>7. Total(a) = s[L] /\ Total(b) = t[L]
    BY <1>1, <1>2, <1>3, TotalAdds
<1>8. QED BY <1>1, <1>6, <1>7 DEF BytesPerToken

LEMMA ItemsAreEstimated ==
    ASSUME NEW item \in Seq(Nat)
    PROVE  /\ EstimatedTokens(item) \in Nat /\ Total(item) \in Nat
           /\ Total(item) <= BytesPerToken * EstimatedTokens(item)
<1> DEFINE tokens == [i \in 1..Len(item) |-> Rounded(item[i])]
<1>1. \A i \in 1..Len(item) : item[i] \in Nat
    OBVIOUS
<1>2. \A i \in 1..Len(item) : /\ Rounded(item[i]) \in Nat
                              /\ item[i] <= BytesPerToken * Rounded(item[i])
    BY <1>1, RoundedUp
<1>3. /\ tokens \in Seq(Nat) /\ Len(item) = Len(tokens)
      /\ \A i \in 1..Len(item) : tokens[i] = Rounded(item[i])
    BY <1>2
<1>4. DOMAIN item = 1..Len(item)
    OBVIOUS
<1>5. EstimatedTokens(item) = Total(tokens)
    BY <1>4 DEF EstimatedTokens, Rounded
<1> HIDE DEF tokens
<1>6. \A i \in 1..Len(item) : item[i] <= BytesPerToken * tokens[i]
    BY <1>2, <1>3
<1>7. Total(item) <= BytesPerToken * Total(tokens)
    BY <1>3, <1>6, TotalsCompare
<1>8. QED BY <1>3, <1>5, <1>7, TotalIsNatural

\* A history of one item has its estimate.
LEMMA OneIsItsTotal ==
    ASSUME NEW numbers \in Seq(Nat)
    PROVE  /\ Len(numbers) = 0 => Total(numbers) = 0
           /\ Len(numbers) = 1 => Total(numbers) = numbers[1]
<1>1. PICK s : Sums(s, numbers)
    BY SumsExist
<1>2. Total(numbers) = s[Len(numbers)] /\ s[0] = 0
    BY <1>1, TotalAdds DEF Sums
<1>3. ASSUME Len(numbers) = 1 PROVE s[1] = numbers[1]
    <2>1. 1 \in 1..Len(numbers) /\ 1 - 1 = 0
        BY <1>3
    <2>2. numbers[1] \in Nat
        BY <2>1, ChunksAreNumbers
    <2>3. s[1] = s[0] + numbers[1]
        BY <1>1, <2>1 DEF Sums
    <2>4. QED BY <1>2, <2>2, <2>3
<1>4. QED BY <1>2, <1>3

\* Of any history, of any number of items with any number of parts of any length:
\* what is attached fits all three limits, by the bytes it holds, and what is
\* refused is told the first limit it breaks (with_initial_items, estimated_tokens).
THEOREM HistoriesFit ==
    ASSUME NEW items \in Seq(Seq(Nat))
    PROVE  HistoryFits(items)
<1> DEFINE L == Len(items)
           estimates == [i \in DOMAIN items |-> EstimatedTokens(items[i])]
           sizes == [i \in DOMAIN items |-> Total(items[i])]
           many == L > MaxInitialItems
           large == \E item \in Range(items) : EstimatedTokens(item) > MaxEstimatedTokensPerItem
           heavy == Total(estimates) > MaxEstimatedTokensTotal
           checks == <<<<many, "too_many_items">>, <<large, "item_too_large">>,
                       <<heavy, "total_too_large">>>>
           refusal == FirstRefusal(checks)
<1>1. /\ L \in Nat /\ DOMAIN items = 1..L /\ \A i \in 1..L : items[i] \in Seq(Nat)
      /\ (L = 0 <=> items = <<>>)
    OBVIOUS
<1>2. /\ MaxInitialItems \in Nat \ {0} /\ MaxEstimatedTokensPerItem \in Nat
      /\ MaxEstimatedTokensTotal \in Nat
      /\ MaxEstimatedTokensPerItem <= MaxEstimatedTokensTotal
    BY LimitsAssumption
<1>3. \A i \in 1..L : /\ EstimatedTokens(items[i]) \in Nat /\ Total(items[i]) \in Nat
                      /\ Total(items[i]) <= BytesPerToken * EstimatedTokens(items[i])
    BY <1>1, ItemsAreEstimated
<1>4. /\ estimates \in Seq(Nat) /\ Len(estimates) = L
      /\ sizes \in Seq(Nat) /\ Len(sizes) = L
      /\ \A i \in 1..L : /\ estimates[i] = EstimatedTokens(items[i])
                         /\ sizes[i] = Total(items[i])
    <2> HIDE DEF L
    <2>1. QED BY <1>1, <1>3
<1>5. InitialItemsRefusal(items) = refusal
    BY Zenon DEF InitialItemsRefusal, Estimate
<1> HIDE DEF estimates, sizes
<1>6. Total(sizes) <= BytesPerToken * Total(estimates)
    BY <1>3, <1>4, TotalsCompare
<1>7. Total(estimates) \in Nat /\ Total(sizes) \in Nat
    BY <1>4, TotalIsNatural
<1>8. ASSUME heavy, ~large PROVE L \notin 0..1
    <2>1. CASE L = 0
        <3>1. Total(estimates) = 0
            BY <1>4, <2>1, OneIsItsTotal
        <3>2. QED BY <1>2, <1>8, <3>1
    <2>2. CASE L = 1
        <3>1. Total(estimates) = EstimatedTokens(items[1])
            BY <1>4, <2>2, OneIsItsTotal
        <3>2. items[1] \in Range(items) /\ EstimatedTokens(items[1]) \in Nat
            BY <1>1, <1>3, <2>2 DEF Range
        <3> HIDE DEF L
        <3>3. QED BY <1>2, <1>8, <3>1, <3>2
    <2>3. QED BY <1>1, <2>1, <2>2
<1>9. /\ DOMAIN checks = 1..3
      /\ checks[1][1] = many /\ checks[2][1] = large /\ checks[3][1] = heavy
      /\ checks[1][2] = "too_many_items" /\ checks[2][2] = "item_too_large"
      /\ checks[3][2] = "total_too_large"
    <2> HIDE DEF many, large, heavy
    <2>1. QED OBVIOUS
<1> HIDE DEF checks
<1>10. /\ refusal = "none" => ~many /\ ~heavy
       /\ refusal = "item_too_large" => ~many
       /\ refusal = "total_too_large" => ~many /\ ~large /\ heavy
    <2>1. \/ refusal = "none" /\ \A i \in 1..3 : ~checks[i][1]
          \/ \E i \in 1..3 : /\ checks[i][1] /\ refusal = checks[i][2]
                             /\ \A j \in 1..3 : j < i => ~checks[j][1]
        <3>1. DOMAIN checks = 1..3 /\ DOMAIN checks \subseteq Nat
            BY <1>9
        <3>2. \/ FirstRefusal(checks) = "none" /\ \A i \in DOMAIN checks : ~checks[i][1]
              \/ \E i \in DOMAIN checks :
                     /\ checks[i][1] /\ FirstRefusal(checks) = checks[i][2]
                     /\ \A j \in DOMAIN checks : j < i => ~checks[j][1]
            BY <3>1, FirstFails
        <3>3. QED BY <3>1, <3>2, Zenon
    <2> HIDE DEF many, large, heavy, refusal
    <2>2. QED BY <1>9, <2>1
<1>11. refusal = "none" => /\ L <= MaxInitialItems
                          /\ Total(sizes) <= BytesPerToken * MaxEstimatedTokensTotal
    <2> SUFFICES ASSUME refusal = "none"
                 PROVE  /\ L <= MaxInitialItems
                        /\ Total(sizes) <= BytesPerToken * MaxEstimatedTokensTotal
        OBVIOUS
    <2>1. ~many /\ ~heavy
        BY <1>10
    <2> HIDE DEF L
    <2>2. QED BY <1>1, <1>2, <1>6, <1>7, <2>1 DEF BytesPerToken
<1>12. refusal \in {"item_too_large", "total_too_large"} => L <= MaxInitialItems
    <2> HIDE DEF L, refusal, large, heavy
    <2>1. QED BY <1>1, <1>2, <1>10
<1>13. refusal = "total_too_large" => L \in 2..MaxInitialItems
    <2> HIDE DEF L, refusal, large, heavy, many
    <2>1. QED BY <1>1, <1>2, <1>8, <1>10, <1>12
<1> DEFINE begun == [FramelessSession EXCEPT !.items = {<<<<1>>>>}]
           kept == WithInitialItems(begun, items).items
<1>14. kept = IF items = <<>> THEN {} ELSE {items}
    BY DEF WithInitialItems, FramelessSession, Session
<1>15. sizes = [i \in DOMAIN items |-> Total(items[i])]
    BY DEF sizes
<1> HIDE DEF kept, refusal, sizes
<1>16. QED BY <1>5, <1>11, <1>12, <1>13, <1>14, <1>15, Zenon DEF HistoryFits, kept

-----------------------------------------------------------------------------
(* Sessions that are built, and read back *)

LEMMA LeastOfOne ==
    ASSUME NEW n \in Nat
    PROVE  Min({n}) = n
BY DEF Min

LEMMA SequenceOfOne ==
    ASSUME NEW x
    PROVE  SetToSeq({x}) = <<x>>
<1> DEFINE F == {f \in [1..1 -> {x}] : IsInjective(f)}
<1>1. Cardinality({x}) = 1
    BY FS_Singleton
<1>2. \A f \in [1..1 -> {x}] : f = <<x>>
    OBVIOUS
<1>3. <<x>> \in [1..1 -> {x}] /\ IsInjective(<<x>>)
    BY DEF IsInjective
<1>4. SetToSeq({x}) \in [1..1 -> {x}]
    BY <1>1, <1>3 DEF SetToSeq
<1>5. QED BY <1>2, <1>4

\* A body of an offer and a session, each of text.
LEMMA OfferAndSession ==
    ASSUME NEW offer, offer.name = "sdp", offer.form = "text",
           NEW field, field.name = "session", field.form = "text",
           NEW body, body = <<offer, field>>
    PROVE  /\ FirstNamed(body, "sdp") = <<offer>> /\ FirstNamed(body, "session") = <<field>>
           /\ Parse(body) = [sdps |-> 1, sessions |-> 1, session |-> <<field>>, error |-> "none"]
<1>1. DOMAIN body = 1..2 /\ body[1] = offer /\ body[2] = field
    OBVIOUS
<1>2. FieldsNamed(body, "sdp") = {1} /\ FieldsNamed(body, "session") = {2}
    BY <1>1 DEF FieldsNamed
<1>3. FirstNamed(body, "sdp") = <<offer>> /\ FirstNamed(body, "session") = <<field>>
    BY <1>1, <1>2, LeastOfOne DEF FirstNamed
<1>4. FieldError(body, 1) = "none" /\ FieldError(body, 2) = "none"
    BY <1>1 DEF FieldError
<1>5. LoopError(body) = "none"
    <2> DEFINE bad(i) == FieldError(body, i) # "none"
               checks == [i \in DOMAIN body |-> <<bad(i), FieldError(body, i)>>]
    <2>1. DOMAIN checks = 1..2 /\ DOMAIN checks \subseteq Nat
        BY <1>1
    <2>2. \A i \in 1..2 : ~checks[i][1]
        <3>1. ~bad(1) /\ ~bad(2)
            BY <1>4
        <3> HIDE DEF bad
        <3>2. \A i \in 1..2 : checks[i][1] = bad(i)
            BY <1>1
        <3>3. QED BY <3>1, <3>2
    <2> HIDE DEF checks
    <2>3. FirstRefusal(checks) = "none"
        BY <2>1, <2>2, SomeFails
    <2>4. QED BY <2>3 DEF LoopError, checks
<1>6. ParseError(body) = "none"
    <2> DEFINE loop == LoopError(body) # "none"
               none == FieldsNamed(body, "sdp") = {}
               broken == \E f \in Range(FirstNamed(body, "session")) : f.form = "not_json"
               checks == <<<<loop, LoopError(body)>>, <<none, "missing_sdp">>,
                           <<broken, "session_not_json">>>>
    <2>1. ~loop /\ ~none
        BY <1>2, <1>5
    <2>2. ~broken
        BY <1>3 DEF Range
    <2> HIDE DEF loop, none, broken
    <2>3. /\ DOMAIN checks = 1..3
          /\ checks[1][1] = loop /\ checks[2][1] = none /\ checks[3][1] = broken
        OBVIOUS
    <2> HIDE DEF checks
    <2>4. FirstRefusal(checks) = "none"
        BY <2>1, <2>2, <2>3, SomeFails
    <2>5. QED BY <2>4 DEF ParseError, checks, loop, none, broken
<1>7. Cardinality({1}) = 1 /\ Cardinality({2}) = 1
    BY FS_Singleton
<1>8. QED BY <1>2, <1>3, <1>6, <1>7 DEF Parse

\* A session of an adapter: its type and whether the client has the delegation.
IsOf(session, adapter) ==
    CASE adapter = "V1" -> session.type = "quicksilver" /\ ~session.delegated
      [] adapter = "FramelessBidi" -> session.type = "absent" /\ session.delegated
      [] OTHER -> session.type \in {"realtime", "transcription"} /\ session.delegated \in BOOLEAN

LEMMA OneDialectAgrees ==
    ASSUME NEW adapter \in Adapters, NEW shape, shape.object = TRUE, IsOf(shape, adapter),
           NEW dialect \in PrivateDialects
    PROVE  Agrees(dialect, ClassifySession(shape)) <=>
               AllowsWebrtc(adapter) /\ dialect = DialectOfAdapter(adapter)
BY DEF Adapters, IsOf, PrivateDialects, Agrees, ClassifySession, AllowsWebrtc, DialectOfAdapter

LEMMA AlphasNameAdapters ==
    ASSUME NEW adapter \in Adapters
    PROVE  /\ FromOpenaiAlpha("v1") \cup FromOpenaiAlpha("v2") = {a \in Adapters : AllowsWebrtc(a)}
           /\ \A alpha \in OpenaiAlpha(adapter) : FromOpenaiAlpha(alpha) = {adapter}
BY DEF FromOpenaiAlpha, OpenaiAlpha, Adapters, AllowsWebrtc

\* A session of an adapter, whatever id and history it carries, is read back from
\* either body as that adapter's dialect and no other, and without its id
\* (multipart_call_body, backend_json_call_body, parse_private_multipart).
THEOREM SessionsReadBack ==
    ASSUME NEW adapter \in Adapters, NEW T, NEW I,
           NEW session \in [object : {TRUE}, type : T, delegated : BOOLEAN, id : BOOLEAN, items : I],
           IsOf(session, adapter)
    PROVE  BuiltSessionsReadBack(adapter, session)
<1> DEFINE sanitized == Sanitized(session)
           field == SessionField(sanitized)
           fields == <<SdpField, field>>
           multipart == MultipartCallBody(session)
           backend == BackendJsonCallBody({session})
           parsed == Parse(fields)
           upstream == [profile |-> "chatgpt", backend |-> TRUE]
<1>1. /\ sanitized.id = FALSE /\ sanitized.object = TRUE /\ sanitized.type = session.type
      /\ sanitized.delegated = session.delegated
    BY DEF Sanitized
<1>2. multipart = [fields |-> fields, sent |-> {sanitized}]
    BY DEF MultipartCallBody
<1>3. {SessionField(Sanitized(s)) : s \in {session}} = {field}
      /\ {Sanitized(s) : s \in {session}} = {sanitized}
    OBVIOUS
<1> HIDE DEF sanitized
<1>4. /\ field.name = "session" /\ field.form = "text" /\ field.shape.object = TRUE
      /\ field.shape.type = session.type /\ field.shape.delegated = session.delegated
    BY <1>1 DEF SessionField
<1>5. SdpField.name = "sdp" /\ SdpField.form = "text"
    BY DEF SdpField
<1> HIDE DEF field
<1>6. backend.fields = <<SdpField>> \o <<field>> /\ backend.sent = {sanitized}
    BY <1>3, SequenceOfOne DEF BackendJsonCallBody, field, sanitized
<1>7. /\ FirstNamed(fields, "sdp") = <<SdpField>>
      /\ parsed = [sdps |-> 1, sessions |-> 1, session |-> <<field>>, error |-> "none"]
    BY <1>4, <1>5, OfferAndSession
<1>8. Outbound(upstream, fields) = <<SdpField>> \o <<field>>
    BY <1>7 DEF Outbound
<1> HIDE DEF parsed, fields, multipart, backend
<1>9. parsed.error = "none" /\ ~HasDuplicateContractFields(parsed)
    BY <1>7 DEF HasDuplicateContractFields
<1>10. Evidence(parsed) = ClassifySession(field.shape)
    <2>1. parsed.session = <<field>> /\ <<field>> # <<>> /\ <<field>>[1] = field
        BY <1>7
    <2>2. QED BY <2>1, Zenon DEF Evidence
<1>11. IsOf(field.shape, adapter)
    BY <1>4 DEF IsOf
<1>12. \A dialect \in PrivateDialects :
           Agrees(dialect, Evidence(parsed)) <=>
               AllowsWebrtc(adapter) /\ dialect = DialectOfAdapter(adapter)
    BY <1>4, <1>10, <1>11, OneDialectAgrees
<1>13. multipart.fields = fields /\ multipart.sent = {sanitized}
    BY <1>2
<1>14. multipart.sent = backend.sent /\ \A s \in multipart.sent : ~s.id
    BY <1>1, <1>6, <1>13
<1>15. Outbound(upstream, multipart.fields) = backend.fields
    BY <1>6, <1>8, <1>13
<1>16. QED BY <1>9, <1>12, <1>13, <1>14, <1>15, AlphasNameAdapters, Zenon
           DEF BuiltSessionsReadBack, multipart, backend, parsed

-----------------------------------------------------------------------------
(* The answers to local errors *)

\* The status that goes with a code, of those codes that have one.
StatusOfCode(code) ==
    CASE code = "client_closed_request" -> 499
      [] code = "invalid_api_key" -> 401
      [] code = "origin_rejected" -> 403
      [] code = "upgrade_required" -> 426
      [] code = "request_timeout" -> 408
      [] code = "rate_limit_exceeded" -> 429
      [] code = "upstream_websocket_protocol_error" -> 502
      [] OTHER -> 400

LEMMA CodesTellStatus ==
    ASSUME NEW error \in RelayErrors \ {"draining"}
    PROVE  \/ ErrorCode(error) \in {"invalid_request_error", "upstream_server_error"}
           \/ Status(error) = StatusOfCode(ErrorCode(error))
<1> DEFINE code == ErrorCode(error)
           plain == {"invalid_request_error", "upstream_server_error"}
<1> USE DEF NotAuthenticated, TooMany, BadRequest, BadGateway, GatewayTimeout, OriginBlocked
<1>1. /\ error = "client_canceled" => code = "client_closed_request" /\ Status(error) = 499
      /\ error = "upgrade_failed" => code = "upgrade_required" /\ Status(error) = 426
    BY DEF ErrorCode, Status
<1>2. error = "body_timeout" => code = "request_timeout" /\ Status(error) = 408
    BY DEF ErrorCode, Status
<1>3. error \in NotAuthenticated => code = "invalid_api_key" /\ Status(error) = 401
    BY DEF ErrorCode, Status
<1>4. error \in OriginBlocked => code = "origin_rejected" /\ Status(error) = 403
    BY DEF ErrorCode, Status
<1>5. error \in TooMany => code = "rate_limit_exceeded" /\ Status(error) = 429
    BY DEF ErrorCode, Status
<1>6. error = "upstream_protocol" =>
          code = "upstream_websocket_protocol_error" /\ Status(error) = 502
    BY DEF ErrorCode, Status
<1>7. error \in (BadGateway \ {"upstream_protocol"}) \cup GatewayTimeout =>
          code = "upstream_server_error"
    BY DEF ErrorCode
<1>8. error \in {"body_too_large", "unknown_endpoint"} => code = "invalid_request_error"
    BY DEF ErrorCode
<1>9. error \in BadRequest => Status(error) = 400
    BY DEF Status
<1>10. error \in BadRequest =>
           code \in {"invalid_request_error", "invalid_call_id", "invalid_realtime_query",
                    "invalid_realtime_subprotocol", "unsupported_realtime_capability",
                    "invalid_realtime_session_shape"}
    BY DEF ErrorCode
<1> DEFINE status == Status(error)
<1> HIDE DEF code, status
<1>11. /\ error = "client_canceled" => status = StatusOfCode(code)
       /\ error = "upgrade_failed" => status = StatusOfCode(code)
       /\ error = "body_timeout" => status = StatusOfCode(code)
       /\ error \in NotAuthenticated => status = StatusOfCode(code)
       /\ error \in OriginBlocked => status = StatusOfCode(code)
       /\ error \in TooMany => status = StatusOfCode(code)
       /\ error = "upstream_protocol" => status = StatusOfCode(code)
    <2> HIDE DEF NotAuthenticated, TooMany, OriginBlocked
    <2>1. QED BY <1>1, <1>2, <1>3, <1>4, <1>5, <1>6 DEF StatusOfCode, status
<1>12. error \in BadRequest => code = "invalid_request_error" \/ status = StatusOfCode(code)
    <2> HIDE DEF BadRequest
    <2>1. QED BY <1>9, <1>10 DEF StatusOfCode, status
<1> HIDE DEF NotAuthenticated, TooMany, BadRequest, GatewayTimeout, OriginBlocked
<1>13. \/ error \in NotAuthenticated \cup TooMany \cup BadRequest \cup OriginBlocked
       \/ error \in (BadGateway \ {"upstream_protocol"}) \cup GatewayTimeout
       \/ error \in {"client_canceled", "upgrade_failed", "body_timeout", "upstream_protocol",
                     "body_too_large", "unknown_endpoint"}
    BY DEF RelayErrors
<1>14. QED BY <1>7, <1>8, <1>11, <1>12, <1>13 DEF code, status

LEMMA TablesAgree ==
    ASSUME NEW error \in RelayErrors \ {"draining"}
    PROVE  /\ Status(error) \in Nat /\ Status(error) # 503
           /\ ErrorType(error) = "server_error" <=> Status(error) >= 500
           /\ ErrorType(error) = "authentication_error" <=> Status(error) = 401
           /\ ErrorCode(error) = "invalid_api_key" <=> Status(error) = 401
           /\ ErrorType(error) = "rate_limit_error" <=> Status(error) = 429
           /\ ErrorCode(error) = "rate_limit_exceeded" <=> Status(error) = 429
           /\ error \in TooMany <=> Status(error) = 429
BY DEF RelayErrors, NotAuthenticated, TooMany, BadRequest, BadGateway, GatewayTimeout,
       OriginBlocked, ErrorCode, ErrorType, Status

LEMMA EnvelopeIs ==
    ASSUME NEW error
    PROVE  Envelope(error).type = {ErrorType(error)} /\ Envelope(error).code = {ErrorCode(error)}
BY DEF Envelope

LEMMA UnservedIs ==
    ASSUME NEW e
    PROVE  /\ Unserved(e).type = {ErrorType("unsupported_capability")}
           /\ Unserved(e).code = {ErrorCode("unsupported_capability")}
           /\ Unserved(e).message
                  = {Requirement(Listed(Support(e.profile, e.capability).required))}
           /\ Unserved(e).required = Listed(Support(e.profile, e.capability).required)
           /\ Unserved(e).capability = Label(e.capability)
BY DEF Envelope, Unserved

\* Any local error but draining has an envelope with its type and its code.
LEMMA AnswerIs ==
    ASSUME NEW e, e.error \in RelayErrors \ {"draining"}
    PROVE  /\ IntoResponse(e).status = Status(e.error)
           /\ IntoResponse(e).retryAfter = IF e.error \in TooMany THEN {1} ELSE {}
           /\ \E body : /\ IntoResponse(e).envelope = {body}
                        /\ body.type = {ErrorType(e.error)} /\ body.code = {ErrorCode(e.error)}
           /\ e.error = "unsupported_capability" => IntoResponse(e).envelope = {Unserved(e)}
<1>1. CASE e.error = "unsupported_capability"
    <2>1. IntoResponse(e) = [status |-> Status(e.error), retryAfter |-> {},
                             envelope |-> {Unserved(e)}]
        BY <1>1 DEF IntoResponse
    <2>2. "unsupported_capability" \notin TooMany
        BY DEF TooMany
    <2>3. /\ IntoResponse(e).status = Status(e.error)
          /\ IntoResponse(e).retryAfter = {}
          /\ IntoResponse(e).envelope = {Unserved(e)}
        BY <2>1
    <2>4. /\ Unserved(e).type = {ErrorType(e.error)}
          /\ Unserved(e).code = {ErrorCode(e.error)}
        BY <1>1, UnservedIs
    <2>5. e.error \notin TooMany
        BY <1>1, <2>2
    <2>6. QED BY <2>3, <2>4, <2>5, Zenon
<1>2. CASE e.error # "unsupported_capability"
    <2>1. IntoResponse(e) = [status |-> Status(e.error),
                             retryAfter |-> IF e.error \in TooMany THEN {1} ELSE {},
                             envelope |-> {Envelope(e.error)}]
        BY <1>2 DEF IntoResponse
    <2>2. QED BY <1>2, <2>1, EnvelopeIs
<1>3. QED BY <1>1, <1>2

\* Whatever the error, its status, type, code and Retry-After say the same of who is to
\* blame and whether waiting helps (status, error_type, error_code, into_response).
THEOREM VerdictsAgree ==
    ASSUME NEW e, e.error \in RelayErrors
    PROVE  OneVerdict(e)
<1> DEFINE r == IntoResponse(e)
           sameCode == {other \in RelayErrors \ {"draining"} :
                            ErrorCode(other) = ErrorCode(e.error)}
<1>1. CASE e.error = "draining"
    <2>1. r = [status |-> 503, retryAfter |-> {5}, envelope |-> {}]
        BY <1>1 DEF IntoResponse
    <2>2. r.status = 503 /\ r.retryAfter = {5} /\ r.envelope = {}
        BY <2>1
    <2>3. QED BY <2>2 DEF OneVerdict
<1>2. CASE e.error # "draining"
    <2> DEFINE error == e.error
               type == ErrorType(error)
               code == ErrorCode(error)
               status == Status(error)
    <2>1. error \in RelayErrors \ {"draining"}
        BY <1>2
    <2>2. PICK body : r.envelope = {body} /\ body.type = {type} /\ body.code = {code}
        BY <2>1, AnswerIs
    <2>3. r.status = status /\ r.retryAfter = IF error \in TooMany THEN {1} ELSE {}
        BY <2>1, AnswerIs
    <2>4. /\ status \in Nat /\ status # 503
          /\ type = "server_error" <=> status >= 500
          /\ type = "authentication_error" <=> status = 401
          /\ code = "invalid_api_key" <=> status = 401
          /\ type = "rate_limit_error" <=> status = 429
          /\ code = "rate_limit_exceeded" <=> status = 429
          /\ error \in TooMany <=> status = 429
        BY <2>1, TablesAgree
    <2>5. \/ code \in {"invalid_request_error", "upstream_server_error"}
          \/ \A other \in sameCode : Status(other) = status
        <3>1. ASSUME code \notin {"invalid_request_error", "upstream_server_error"},
                     NEW other \in sameCode
              PROVE  Status(other) = status
            <4>1. other \in RelayErrors \ {"draining"} /\ ErrorCode(other) = code
                OBVIOUS
            <4>2. Status(other) = StatusOfCode(code) /\ status = StatusOfCode(code)
                BY <2>1, <3>1, <4>1, CodesTellStatus
            <4>3. QED BY <4>2
        <3>2. QED BY <3>1
    <2> HIDE DEF r, sameCode, error, type, code, status
    <2>6. /\ (r.retryAfter # {}) <=> r.status \in {429, 503}
          /\ r.envelope # {}
        BY <2>2, <2>3, <2>4
    <2>7. /\ body.type = {"server_error"} <=> status >= 500
          /\ body.type = {"authentication_error"} <=> status = 401
          /\ body.code = {"invalid_api_key"} <=> status = 401
          /\ body.type = {"rate_limit_error"} <=> status = 429
          /\ body.code = {"rate_limit_exceeded"} <=> status = 429
        <3>1. \A x, y : {x} = {y} <=> x = y
            OBVIOUS
        <3>2. body.type = {type} /\ body.code = {code}
            BY <2>2
        <3>3. \A x : (body.type = {x} <=> type = x) /\ (body.code = {x} <=> code = x)
            BY <3>1, <3>2
        <3>4. /\ body.type = {"server_error"} <=> type = "server_error"
              /\ body.type = {"authentication_error"} <=> type = "authentication_error"
              /\ body.code = {"invalid_api_key"} <=> code = "invalid_api_key"
              /\ body.type = {"rate_limit_error"} <=> type = "rate_limit_error"
              /\ body.code = {"rate_limit_exceeded"} <=> code = "rate_limit_exceeded"
            BY <3>3
        <3> DEFINE blames == status >= 500
                   unknown == status = 401
                   many == status = 429
        <3>5. /\ type = "server_error" <=> blames
              /\ type = "authentication_error" <=> unknown
              /\ code = "invalid_api_key" <=> unknown
              /\ type = "rate_limit_error" <=> many
              /\ code = "rate_limit_exceeded" <=> many
            BY <2>4
        <3>6. QED BY <3>4, <3>5
    <2>8. \/ body.code \in {{"invalid_request_error"}, {"upstream_server_error"}}
          \/ \A other \in sameCode : Status(other) = status
        BY <2>2, <2>5
    <2>9. \A b \in r.envelope : b = body
        BY <2>2
    <2>10. r.status = status
        BY <2>3
    <2>11. ASSUME NEW b \in r.envelope
           PROVE  /\ b.type = {"server_error"} <=> r.status >= 500
                  /\ b.type = {"authentication_error"} <=> r.status = 401
                  /\ b.code = {"invalid_api_key"} <=> r.status = 401
                  /\ b.type = {"rate_limit_error"} <=> r.status = 429
                  /\ b.code = {"rate_limit_exceeded"} <=> r.status = 429
                  /\ b.code \in {{"invalid_request_error"}, {"upstream_server_error"}} \/
                         \A other \in sameCode : Status(other) = r.status
        <3>1. b = body
            BY <2>9
        <3>2. QED BY <3>1, <2>7, <2>8, <2>10
    <2>12. QED BY <2>6, <2>11, Zenon DEF OneVerdict, r, sameCode, error
<1>3. QED BY <1>1, <1>2

LEMMA ListsAre ==
    /\ Listed(ApiKeyProfiles) = <<"apikey_managed", "apikey_client">>
    /\ Listed(ManagedProfiles) = <<"apikey_managed", "chatgpt">>
    /\ Listed(ApiKeyManagedProfile) = <<"apikey_managed">>
<1> DEFINE only(p, profiles) == IF p \in profiles THEN <<p>> ELSE <<>>
<1>1. ASSUME NEW profiles
      PROVE  Listed(profiles) = only("apikey_managed", profiles) \o only("apikey_client", profiles)
                                    \o only("chatgpt", profiles)
    BY DEF Listed
<1>2. ASSUME NEW a, NEW b
      PROVE  /\ <<a>> \o <<b>> \o <<>> = <<a, b>> /\ <<a>> \o <<>> \o <<b>> = <<a, b>>
             /\ <<a>> \o <<>> \o <<>> = <<a>>
    <2> DEFINE S == {a, b}
    <2>1. <<a>> \in Seq(S) /\ <<b>> \in Seq(S) /\ <<>> \in Seq(S)
        OBVIOUS
    <2>2. \A s \in Seq(S) : s \o <<>> = s
        OBVIOUS
    <2>3. <<a>> \o <<b>> = <<a, b>>
        <3>1. /\ <<a>> \o <<b>> \in Seq(S) /\ Len(<<a>> \o <<b>>) = 2
              /\ \A i \in 1..2 : (<<a>> \o <<b>>)[i] = IF i <= 1 THEN <<a>>[i] ELSE <<b>>[i - 1]
            BY <2>1, ConcatProperties
        <3>2. \A i \in 1..2 : i = 1 \/ i = 2
            OBVIOUS
        <3>3. \A i \in 1..2 : (<<a>> \o <<b>>)[i] = <<a, b>>[i]
            BY <3>1, <3>2
        <3>4. <<a, b>> \in Seq(S) /\ Len(<<a, b>>) = 2
            OBVIOUS
        <3>5. QED BY <3>1, <3>3, <3>4, SeqEqual
    <2>4. <<a, b>> \in Seq(S)
        OBVIOUS
    <2>5. <<a>> \o <<>> = <<a>> /\ <<a, b>> \o <<>> = <<a, b>>
        BY <2>1, <2>2, <2>4
    <2>6. QED BY <2>3, <2>5
<1>3. /\ only("apikey_managed", ApiKeyProfiles) = <<"apikey_managed">>
      /\ only("apikey_client", ApiKeyProfiles) = <<"apikey_client">>
      /\ only("chatgpt", ApiKeyProfiles) = <<>>
    BY DEF ApiKeyProfiles
<1>4. /\ only("apikey_managed", ManagedProfiles) = <<"apikey_managed">>
      /\ only("apikey_client", ManagedProfiles) = <<>>
      /\ only("chatgpt", ManagedProfiles) = <<"chatgpt">>
    BY DEF ManagedProfiles
<1>5. /\ only("apikey_managed", ApiKeyManagedProfile) = <<"apikey_managed">>
      /\ only("apikey_client", ApiKeyManagedProfile) = <<>>
      /\ only("chatgpt", ApiKeyManagedProfile) = <<>>
    BY DEF ApiKeyManagedProfile
<1> HIDE DEF only
<1>6. QED BY <1>1, <1>2, <1>3, <1>4, <1>5

LEMMA RequirementsAre ==
    /\ Requirement(<<"apikey_managed", "apikey_client">>) = "apikey"
    /\ Requirement(<<"apikey_managed", "chatgpt">>) = "managed"
    /\ Requirement(<<"apikey_managed">>) = "apikey_managed"
BY DEF Requirement

LEMMA WordsMean ==
    /\ Meant("apikey") = ApiKeyProfiles /\ Meant("managed") = ManagedProfiles
    /\ Meant("apikey_managed") = ApiKeyManagedProfile
BY DEF Meant, ApiKeyProfiles, ManagedProfiles, ApiKeyManagedProfile, Profiles, ManagedAuth

LEMMA RangesOfLists ==
    /\ Range(<<"apikey_managed", "apikey_client">>) = ApiKeyProfiles
    /\ Range(<<"apikey_managed", "chatgpt">>) = ManagedProfiles
    /\ Range(<<"apikey_managed">>) = ApiKeyManagedProfile
<1>1. \A a, b : Range(<<a, b>>) = {a, b} /\ Range(<<a>>) = {a}
    BY DEF Range
<1>2. QED BY <1>1 DEF ApiKeyProfiles, ManagedProfiles, ApiKeyManagedProfile

\* A profile that is refused is told the profiles that are not.
LEMMA RequiredAreServed ==
    ASSUME NEW profile \in Profiles, NEW capability \in Capabilities,
           ~IsSupported(profile, capability)
    PROVE  /\ Support(profile, capability).required
                  \in {ApiKeyProfiles, ManagedProfiles, ApiKeyManagedProfile}
           /\ Support(profile, capability).required
                  = {p \in Profiles : IsSupported(p, capability)}
BY DEF IsSupported, Support, Profiles, ApiKeyProfiles, ManagedProfiles, ApiKeyManagedProfile,
       Served, Unsupported

\* A capability asked of a profile that does not serve it is named in the answer, with
\* the profiles that serve it, in a list and in words that mean the list (required of
\* support, message).
THEOREM AdviceIsRight ==
    ASSUME NEW e, e.error \in RelayErrors, e.profile \in Profiles, e.capability \in Capabilities,
           e.error = "unsupported_capability" => ~IsSupported(e.profile, e.capability)
    PROVE  AdviceHelps(e)
<1> SUFFICES ASSUME e.error = "unsupported_capability",
                    NEW body \in IntoResponse(e).envelope
             PROVE  /\ body.capability = {e.capability}
                    /\ Range(body.required) = {p \in Profiles : IsSupported(p, e.capability)}
                    /\ Meant(CHOOSE words \in body.message : TRUE) = Range(body.required)
    BY Zenon DEF AdviceHelps
<1> DEFINE required == Support(e.profile, e.capability).required
<1>1. e.error \in RelayErrors \ {"draining"}
    OBVIOUS
<1>2. body = Unserved(e)
    BY <1>1, AnswerIs
<1>3. /\ body.message = {Requirement(Listed(required))} /\ body.required = Listed(required)
      /\ body.capability = {e.capability}
    BY <1>2, UnservedIs DEF Label
<1>4. /\ required \in {ApiKeyProfiles, ManagedProfiles, ApiKeyManagedProfile}
      /\ required = {p \in Profiles : IsSupported(p, e.capability)}
    BY RequiredAreServed
<1> HIDE DEF required
<1>5. Range(Listed(required)) = required /\ Meant(Requirement(Listed(required))) = required
    BY <1>4, ListsAre, RequirementsAre, WordsMean, RangesOfLists
<1>6. (CHOOSE words \in body.message : TRUE) = Requirement(Listed(required))
    BY <1>3
<1>7. QED BY <1>3, <1>4, <1>5, <1>6

LEMMA SurfacesDoAgree == SurfacesAgree
<1>1. \A error \in RestContractErrors \cap WebSocketContractErrors :
          FromRestContract(error) = FromWebSocketContract(error)
    BY DEF RestContractErrors, WebSocketContractErrors, FromRestContract, FromWebSocketContract
<1> DEFINE answers == {"unknown_endpoint", "invalid_call_id", "invalid_query",
                       "unsupported_content_type", "unsupported_negotiation"}
<1>2. \A error \in RestContractErrors : FromRestContract(error) \in answers
    BY DEF RestContractErrors, FromRestContract
<1>3. \A error \in WebSocketContractErrors : FromWebSocketContract(error) \in answers
    BY DEF WebSocketContractErrors, FromWebSocketContract
<1>4. \A error \in answers : Status(error) \in {400, 404}
    <2> USE DEF BadRequest, NotAuthenticated, OriginBlocked, TooMany, BadGateway,
                GatewayTimeout
    <2>1. Status("unknown_endpoint") = 404
        BY DEF Status
    <2>2. \A error \in BadRequest : Status(error) = 400
        BY DEF Status
    <2>3. \A error \in answers : error = "unknown_endpoint" \/ error \in BadRequest
        BY DEF BadRequest
    <2> HIDE DEF answers, BadRequest
    <2>4. QED BY <2>1, <2>2, <2>3
<1> HIDE DEF answers
<1>5. QED BY <1>1, <1>2, <1>3, <1>4 DEF SurfacesAgree

-----------------------------------------------------------------------------
(* Escapes *)

\* What an escape may stand for.
Decoded == {"%", "!", "+", " ", "A", "B", "z", "other"}

DecodeStates(C) == [out : Seq(C), skip : 0..2]
ScanStates == [well : BOOLEAN, skip : 0..2]

\* The turns of the decoder, and those of the scan.
Decodes(read, raw, C) ==
    /\ read \in [0..Len(raw) -> DecodeStates(C)]
    /\ read[0] = [out |-> <<>>, skip |-> 0]
    /\ \A n \in 1..Len(raw) : read[n] = DecodeStep(raw, read[n - 1], n)
Scans(scan, raw) ==
    /\ scan \in [0..Len(raw) -> ScanStates]
    /\ scan[0] = [well |-> TRUE, skip |-> 0]
    /\ \A n \in 1..Len(raw) : scan[n] = ScanStep(raw, scan[n - 1], n)

LEMMA DecodeTurn ==
    ASSUME NEW C, Decoded \subseteq C, NEW raw \in Seq(C), NEW n \in 1..Len(raw),
           NEW read \in DecodeStates(C)
    PROVE  /\ DecodeStep(raw, read, n) \in DecodeStates(C)
           /\ read.skip > 0 =>
                  /\ DecodeStep(raw, read, n).out = read.out
                  /\ DecodeStep(raw, read, n).skip = read.skip - 1
           /\ read.skip = 0 /\ raw[n] = "%" /\ IsEscape(raw, n) =>
                  /\ DecodeStep(raw, read, n).out
                         = Append(read.out, DecodeByte(raw[n + 1], raw[n + 2]))
                  /\ DecodeStep(raw, read, n).skip = 2
           /\ read.skip = 0 /\ ~(raw[n] = "%" /\ IsEscape(raw, n)) =>
                  /\ DecodeStep(raw, read, n).out = Append(read.out, raw[n])
                  /\ DecodeStep(raw, read, n).skip = 0
<1> DEFINE next == DecodeStep(raw, read, n)
           out == read.out
           skip == read.skip
           byte == DecodeByte(raw[n + 1], raw[n + 2])
           char == raw[n]
           escape == char = "%" /\ IsEscape(raw, n)
<1>1. out \in Seq(C) /\ skip \in 0..2 /\ read = [out |-> out, skip |-> skip] /\ char \in C
    BY DEF DecodeStates
<1>2. byte \in C
    BY DEF DecodeByte, Decoded
<1>3. /\ skip > 0 => next = [read EXCEPT !.skip = skip - 1]
      /\ skip = 0 /\ escape => next = [out |-> Append(out, byte), skip |-> 2]
      /\ skip = 0 /\ ~escape => next = [read EXCEPT !.out = Append(out, char)]
    <2>1. skip > 0 => ~(skip = 0)
        BY <1>1
    <2>2. ASSUME skip > 0 PROVE next = [read EXCEPT !.skip = skip - 1]
        BY <2>1, <2>2 DEF DecodeStep
    <2>3. ASSUME skip = 0, escape PROVE next = [out |-> Append(out, byte), skip |-> 2]
        BY <2>1, <2>3 DEF DecodeStep
    <2>4. ASSUME skip = 0, ~escape PROVE next = [read EXCEPT !.out = Append(out, char)]
        BY <2>1, <2>4 DEF DecodeStep
    <2> HIDE DEF byte, char, out, next, skip, escape
    <2>5. QED BY <2>2, <2>3, <2>4
<1> HIDE DEF next, byte, char, escape, out, skip
<1>4. skip > 0 \/ skip = 0
    BY <1>1
<1>5. Append(out, byte) \in Seq(C) /\ Append(out, char) \in Seq(C)
    BY <1>1, <1>2
<1>6. /\ skip > 0 => /\ next = [out |-> out, skip |-> skip - 1]
                     /\ next.out = out /\ next.skip = skip - 1 /\ next.skip \in 0..2
      /\ skip = 0 /\ escape => next.out = Append(out, byte) /\ next.skip = 2
      /\ skip = 0 /\ ~escape => /\ next = [out |-> Append(out, char), skip |-> 0]
                                /\ next.out = Append(out, char) /\ next.skip = 0
    BY <1>1, <1>3
<1>7. next \in DecodeStates(C)
    <2>1. \A o \in Seq(C), k \in 0..2 : [out |-> o, skip |-> k] \in DecodeStates(C)
        BY DEF DecodeStates
    <2>2. skip > 0 => next \in DecodeStates(C)
        <3>1. skip > 0 => next = [out |-> out, skip |-> skip - 1] /\ skip - 1 \in 0..2
            BY <1>1, <1>6
        <3>2. QED BY <1>1, <2>1, <3>1
    <2>3. skip = 0 /\ escape => next \in DecodeStates(C)
        <3>1. 2 \in 0..2
            OBVIOUS
        <3>2. QED BY <1>3, <1>5, <2>1, <3>1
    <2>4. skip = 0 /\ ~escape => next \in DecodeStates(C)
        <3>1. 0 \in 0..2
            OBVIOUS
        <3>2. QED BY <1>5, <1>6, <2>1, <3>1
    <2>5. QED BY <1>4, <2>2, <2>3, <2>4
<1>8. QED BY <1>6, <1>7 DEF next, byte, char, escape, out, skip

LEMMA ScanTurn ==
    ASSUME NEW raw, NEW n \in Nat, NEW scan \in ScanStates
    PROVE  /\ ScanStep(raw, scan, n) \in ScanStates
           /\ scan.skip > 0 =>
                  /\ ScanStep(raw, scan, n).well = scan.well
                  /\ ScanStep(raw, scan, n).skip = scan.skip - 1
           /\ scan.skip = 0 /\ raw[n] = "%" /\ IsEscape(raw, n) =>
                  /\ ScanStep(raw, scan, n).well = scan.well
                  /\ ScanStep(raw, scan, n).skip = 2
           /\ scan.skip = 0 /\ raw[n] = "%" /\ ~IsEscape(raw, n) =>
                  /\ ScanStep(raw, scan, n).well = FALSE
                  /\ ScanStep(raw, scan, n).skip = 0
           /\ scan.skip = 0 /\ raw[n] # "%" => ScanStep(raw, scan, n) = scan
<1> DEFINE next == ScanStep(raw, scan, n)
           skip == scan.skip
           well == scan.well
           percent == raw[n] = "%"
           escape == IsEscape(raw, n)
<1>1. skip \in 0..2 /\ well \in BOOLEAN /\ scan = [well |-> well, skip |-> skip]
    BY DEF ScanStates
<1>2. /\ skip > 0 => next = [scan EXCEPT !.skip = skip - 1]
      /\ skip = 0 /\ percent /\ escape => next = [scan EXCEPT !.skip = 2]
      /\ skip = 0 /\ percent /\ ~escape => next = [scan EXCEPT !.well = FALSE]
      /\ skip = 0 /\ ~percent => next = scan
    <2>1. skip > 0 => ~(skip = 0)
        BY <1>1
    <2>2. QED BY <2>1 DEF ScanStep
<1> HIDE DEF next, percent, escape, well, skip
<1>3. /\ skip > 0 => next = [well |-> well, skip |-> skip - 1] /\ skip - 1 \in 0..2
      /\ skip = 0 /\ percent /\ escape => next = [well |-> well, skip |-> 2]
      /\ skip = 0 /\ percent /\ ~escape => next = [well |-> FALSE, skip |-> 0]
      /\ skip = 0 /\ ~percent => next = scan
    BY <1>1, <1>2
<1>4. skip > 0 \/ skip = 0
    BY <1>1
<1>5. next \in ScanStates
    <2>1. \A w \in BOOLEAN, k \in 0..2 : [well |-> w, skip |-> k] \in ScanStates
        BY DEF ScanStates
    <2>2. 0 \in 0..2 /\ 2 \in 0..2 /\ FALSE \in BOOLEAN
        OBVIOUS
    <2>3. skip = 0 /\ percent => next \in ScanStates
        BY <1>1, <1>3, <2>1, <2>2
    <2>4. skip = 0 /\ ~percent => next \in ScanStates
        BY <1>3
    <2>5. skip > 0 => next \in ScanStates
        BY <1>1, <1>3, <2>1
    <2>6. QED BY <1>4, <2>3, <2>4, <2>5
<1>6. QED BY <1>3, <1>5 DEF next, percent, escape, well, skip

LEMMA DecodesExist ==
    ASSUME NEW C, Decoded \subseteq C, NEW raw \in Seq(C)
    PROVE  \E f : Decodes(f, raw, C)
<1> DEFINE L == Len(raw)
           base == [out |-> <<>>, skip |-> 0]
           step == [p \in DecodeStates(C) \X (1..L) |-> DecodeStep(raw, p[1], p[2])]
<1>1. L \in Nat
    OBVIOUS
<1>2. \A s \in DecodeStates(C), n \in 1..L : DecodeStep(raw, s, n) \in DecodeStates(C)
    BY DecodeTurn
<1>3. base \in DecodeStates(C)
    BY DEF DecodeStates
<1> HIDE DEF L, base
<1>4. \A s \in DecodeStates(C), n \in 1..L : step[<<s, n>>] = DecodeStep(raw, s, n)
    OBVIOUS
<1>5. step \in [DecodeStates(C) \X (1..L) -> DecodeStates(C)]
    BY <1>2
<1> HIDE DEF step
<1>6. PICK f \in [0..L -> DecodeStates(C)] : Loops(f, base, step, L)
    BY <1>1, <1>3, <1>5, LoopExists
<1>7. ASSUME NEW n \in 1..L PROVE f[n] = DecodeStep(raw, f[n - 1], n)
    <2>1. n - 1 \in 0..L
        BY <1>1
    <2>2. f[n - 1] \in DecodeStates(C) /\ f[n] = step[<<f[n - 1], n>>]
        BY <1>6, <2>1 DEF Loops
    <2>3. QED BY <1>4, <2>2
<1>8. QED BY <1>6, <1>7 DEF Decodes, Loops, L, base

LEMMA ScansExist ==
    ASSUME NEW C, NEW raw \in Seq(C)
    PROVE  \E f : Scans(f, raw)
<1> DEFINE L == Len(raw)
           base == [well |-> TRUE, skip |-> 0]
           step == [p \in ScanStates \X (1..L) |-> ScanStep(raw, p[1], p[2])]
<1>1. L \in Nat
    OBVIOUS
<1>2. \A s \in ScanStates, n \in 1..L : ScanStep(raw, s, n) \in ScanStates
    <2>1. \A n \in 1..L : n \in Nat
        BY <1>1
    <2> HIDE DEF L
    <2>2. QED BY <2>1, ScanTurn
<1>3. base \in ScanStates
    BY DEF ScanStates
<1> HIDE DEF L, base
<1>4. \A s \in ScanStates, n \in 1..L : step[<<s, n>>] = ScanStep(raw, s, n)
    OBVIOUS
<1>5. step \in [ScanStates \X (1..L) -> ScanStates]
    BY <1>2
<1> HIDE DEF step
<1>6. PICK f \in [0..L -> ScanStates] : Loops(f, base, step, L)
    BY <1>1, <1>3, <1>5, LoopExists
<1>7. ASSUME NEW n \in 1..L PROVE f[n] = ScanStep(raw, f[n - 1], n)
    <2>1. n - 1 \in 0..L
        BY <1>1
    <2>2. f[n - 1] \in ScanStates /\ f[n] = step[<<f[n - 1], n>>]
        BY <1>6, <2>1 DEF Loops
    <2>3. QED BY <1>4, <2>2
<1>8. QED BY <1>6, <1>7 DEF Scans, Loops, L, base

LEMMA DecodeIs ==
    ASSUME NEW C, NEW raw \in Seq(C), NEW read, Decodes(read, raw, C)
    PROVE  PercentDecode(raw) = read[Len(raw)].out
<1> DEFINE L == Len(raw)
           base == [out |-> <<>>, skip |-> 0]
           IsIt(f) == f = [i \in 0..L |-> IF i = 0 THEN base ELSE DecodeStep(raw, f[i - 1], i)]
           F == CHOOSE f : IsIt(f)
           T == {n \in 0..L : F[n] = read[n]}
<1>1. L \in Nat
    OBVIOUS
<1>2. IsIt(read)
    <2> HIDE DEF base
    <2>1. read[0] = base /\ read = [n \in 0..L |-> read[n]]
        BY DEF Decodes, base
    <2>2. \A n \in 0..L : n # 0 => read[n] = DecodeStep(raw, read[n - 1], n)
        BY <1>1 DEF Decodes
    <2> HIDE DEF L
    <2>3. QED BY <2>1, <2>2
<1>3. IsIt(F)
    <2> HIDE DEF IsIt
    <2>1. QED BY <1>2
<1>4. PercentDecode(raw) = F[L].out
    BY Zenon DEF PercentDecode
<1>5. F[0] = base /\ \A n \in 1..L : F[n] = DecodeStep(raw, F[n - 1], n)
    <2>1. F = [i \in 0..L |-> IF i = 0 THEN base ELSE DecodeStep(raw, F[i - 1], i)]
        BY <1>3
    <2> HIDE DEF F, L, base
    <2>2. QED BY <1>1, <2>1
<1> HIDE DEF F
<1>6. 0 \in T /\ \A n \in 1..L : n - 1 \in T => n \in T
    <2>1. read[0] = base /\ \A n \in 1..L : read[n] = DecodeStep(raw, read[n - 1], n)
        BY DEF Decodes
    <2> HIDE DEF L, base
    <2>2. QED BY <1>1, <1>5, <2>1
<1>7. L \in T
    <2> HIDE DEF T
    <2>1. 0..L \subseteq T
        BY <1>1, <1>6, UpTo, Zenon
    <2>2. QED BY <1>1, <2>1
<1>8. QED BY <1>4, <1>7

LEMMA ScanIs ==
    ASSUME NEW C, NEW raw \in Seq(C), NEW scan, Scans(scan, raw)
    PROVE  WellEscaped(raw) = scan[Len(raw)].well
<1> DEFINE L == Len(raw)
           base == [well |-> TRUE, skip |-> 0]
           IsIt(f) == f = [i \in 0..L |-> IF i = 0 THEN base ELSE ScanStep(raw, f[i - 1], i)]
           F == CHOOSE f : IsIt(f)
           T == {n \in 0..L : F[n] = scan[n]}
<1>1. L \in Nat
    OBVIOUS
<1>2. IsIt(scan)
    <2> HIDE DEF base
    <2>1. scan[0] = base /\ scan = [n \in 0..L |-> scan[n]]
        BY DEF Scans, base
    <2>2. \A n \in 0..L : n # 0 => scan[n] = ScanStep(raw, scan[n - 1], n)
        BY <1>1 DEF Scans
    <2> HIDE DEF L
    <2>3. QED BY <2>1, <2>2
<1>3. IsIt(F)
    <2> HIDE DEF IsIt
    <2>1. QED BY <1>2
<1>4. WellEscaped(raw) = F[L].well
    BY Zenon DEF WellEscaped
<1>5. F[0] = base /\ \A n \in 1..L : F[n] = ScanStep(raw, F[n - 1], n)
    <2>1. F = [i \in 0..L |-> IF i = 0 THEN base ELSE ScanStep(raw, F[i - 1], i)]
        BY <1>3
    <2> HIDE DEF F, L, base
    <2>2. QED BY <1>1, <2>1
<1> HIDE DEF F
<1>6. 0 \in T /\ \A n \in 1..L : n - 1 \in T => n \in T
    <2>1. scan[0] = base /\ \A n \in 1..L : scan[n] = ScanStep(raw, scan[n - 1], n)
        BY DEF Scans
    <2> HIDE DEF L, base
    <2>2. QED BY <1>1, <1>5, <2>1
<1>7. L \in T
    <2> HIDE DEF T
    <2>1. 0..L \subseteq T
        BY <1>1, <1>6, UpTo, Zenon
    <2>2. QED BY <1>1, <2>1
<1>8. QED BY <1>4, <1>7

LEMMA RangeGrows ==
    ASSUME NEW S, NEW s \in Seq(S), NEW x \in S
    PROVE  x \in Range(Append(s, x)) /\ Range(s) \subseteq Range(Append(s, x))
<1> DEFINE t == Append(s, x)
           L == Len(s)
<1>1. /\ L \in Nat /\ DOMAIN s = 1..L /\ DOMAIN t = 1..(L + 1)
      /\ t[L + 1] = x /\ \A i \in 1..L : t[i] = s[i]
    OBVIOUS
<1> HIDE DEF t, L
<1>2. L + 1 \in DOMAIN t /\ \A i \in DOMAIN s : i \in DOMAIN t /\ t[i] = s[i]
    BY <1>1
<1>3. QED BY <1>1, <1>2 DEF Range, t

LEMMA EscapesBegin ==
    ASSUME NEW C, NEW raw \in Seq(C), NEW n \in 1..Len(raw), IsEscape(raw, n)
    PROVE  /\ n + 1 <= Len(raw) /\ n + 2 <= Len(raw)
           /\ raw[n + 1] \in HexDigits /\ raw[n + 2] \in HexDigits
BY DEF IsEscape

\* Scan and decoder skip the same digits; a percent sign that begins no escape is read
\* as itself, and so is whatever is neither that sign nor a digit.
ReadAlike(raw, read, scan, n) ==
    /\ read[n].skip = scan[n].skip
    /\ \A j \in 1..read[n].skip : n + j <= Len(raw) /\ raw[n + j] \in HexDigits
    /\ scan[n].well \/ "%" \in Range(read[n].out)
    /\ \A k \in 1..n : raw[k] \notin HexDigits \cup {"%"} => raw[k] \in Range(read[n].out)

LEMMA TurnsAlike ==
    ASSUME NEW C, Decoded \subseteq C, NEW raw \in Seq(C), NEW read, Decodes(read, raw, C),
           NEW scan, Scans(scan, raw), NEW n \in 1..Len(raw), ReadAlike(raw, read, scan, n - 1)
    PROVE  ReadAlike(raw, read, scan, n)
<1> DEFINE L == Len(raw)
           r == read[n - 1]
           s == scan[n - 1]
           char == raw[n]
           byte == DecodeByte(raw[n + 1], raw[n + 2])
           next == read[n]
           seen == scan[n]
           percent == raw[n] = "%"
           escape == IsEscape(raw, n)
<1>1. L \in Nat /\ n \in Nat /\ n <= L /\ n - 1 \in 0..L /\ n \in 0..L /\ char \in C
    OBVIOUS
<1>2. r \in DecodeStates(C) /\ s \in ScanStates /\ next \in DecodeStates(C) /\ seen \in ScanStates
    BY <1>1 DEF Decodes, Scans
<1>3. next = DecodeStep(raw, r, n) /\ seen = ScanStep(raw, s, n)
    BY DEF Decodes, Scans
<1>4. r.out \in Seq(C) /\ r.skip \in 0..2 /\ s.skip \in 0..2 /\ next.skip \in 0..2
    BY <1>2 DEF DecodeStates, ScanStates
<1>5. byte \in C
    BY DEF DecodeByte, Decoded
<1>6. /\ r.skip = s.skip
      /\ \A j \in 1..r.skip : n - 1 + j <= L /\ raw[n - 1 + j] \in HexDigits
      /\ s.well \/ "%" \in Range(r.out)
      /\ \A k \in 1..(n - 1) : raw[k] \notin HexDigits \cup {"%"} => raw[k] \in Range(r.out)
    BY DEF ReadAlike
<1>7. ASSUME Range(r.out) \subseteq Range(next.out),
             char \in HexDigits \cup {"%"} \/ char \in Range(next.out)
      PROVE  /\ s.well \/ "%" \in Range(next.out)
             /\ \A k \in 1..n : raw[k] \notin HexDigits \cup {"%"} => raw[k] \in Range(next.out)
    <2>1. \A k \in 1..n : k = n \/ k \in 1..(n - 1)
        BY <1>1
    <2> HIDE DEF r, s, next
    <2>2. QED BY <1>6, <1>7, <2>1
<1>8. CASE r.skip > 0
    <2>1. next.out = r.out /\ next.skip = r.skip - 1 /\ seen.well = s.well /\ seen.skip = s.skip - 1
        <3>1. s.skip > 0
            BY <1>6, <1>8
        <3> HIDE DEF r, s, next, seen
        <3>2. next.out = r.out /\ next.skip = r.skip - 1
            BY <1>2, <1>3, <1>8, DecodeTurn
        <3>3. seen.well = s.well /\ seen.skip = s.skip - 1
            BY <1>1, <1>2, <1>3, <3>1, ScanTurn
        <3>4. QED BY <3>2, <3>3
    <2>2. char \in HexDigits
        <3>1. 1 \in 1..r.skip /\ n - 1 + 1 = n
            BY <1>1, <1>4, <1>8
        <3>2. raw[n - 1 + 1] \in HexDigits
            BY <1>6, <3>1
        <3>3. QED BY <3>1, <3>2
    <2>3. \A j \in 1..next.skip : n + j <= L /\ raw[n + j] \in HexDigits
        <3>1. ASSUME NEW j \in 1..next.skip PROVE n + j <= L /\ raw[n + j] \in HexDigits
            <4>1. j + 1 \in 1..r.skip /\ n - 1 + (j + 1) = n + j
                BY <1>1, <1>4, <2>1
            <4>2. n - 1 + (j + 1) <= L /\ raw[n - 1 + (j + 1)] \in HexDigits
                BY <1>6, <4>1
            <4>3. QED BY <4>1, <4>2
        <3>2. QED BY <3>1
    <2>4. /\ s.well \/ "%" \in Range(next.out)
          /\ \A k \in 1..n : raw[k] \notin HexDigits \cup {"%"} => raw[k] \in Range(next.out)
        BY <1>7, <2>1, <2>2
    <2>5. next.skip = seen.skip
        BY <1>6, <2>1
    <2> HIDE DEF L, r, s, char, next, seen
    <2>6. QED BY <2>1, <2>3, <2>4, <2>5 DEF ReadAlike, L, next, seen
<1>9. CASE r.skip = 0 /\ percent /\ escape
    <2>1. next.out = Append(r.out, byte) /\ next.skip = 2 /\ seen.well = s.well /\ seen.skip = 2
        <3> HIDE DEF r, s, next, seen, byte
        <3>1. next.out = Append(r.out, byte) /\ next.skip = 2
            BY <1>2, <1>3, <1>9, DecodeTurn DEF byte
        <3>2. s.skip = 0
            BY <1>6, <1>9
        <3>3. seen.well = s.well /\ seen.skip = 2
            <4>1. raw[n] = "%" /\ IsEscape(raw, n)
                BY <1>9
            <4>2. s.skip = 0 /\ raw[n] = "%" /\ IsEscape(raw, n) =>
                      ScanStep(raw, s, n).well = s.well /\ ScanStep(raw, s, n).skip = 2
                BY <1>1, <1>2, ScanTurn, Zenon
            <4>3. QED BY <1>3, <3>2, <4>1, <4>2
        <3>4. QED BY <3>1, <3>3
    <2>2. \A j \in 1..next.skip : n + j <= L /\ raw[n + j] \in HexDigits
        <3>1. /\ n + 1 <= L /\ n + 2 <= L
              /\ raw[n + 1] \in HexDigits /\ raw[n + 2] \in HexDigits
            BY <1>9, EscapesBegin
        <3>2. \A j \in 1..2 : j = 1 \/ j = 2
            OBVIOUS
        <3> HIDE DEF next, L
        <3>3. QED BY <2>1, <3>1, <3>2
    <2>3. Range(r.out) \subseteq Range(next.out)
        <3> HIDE DEF r, next, byte
        <3>1. QED BY <1>4, <1>5, <2>1, RangeGrows
    <2>4. /\ s.well \/ "%" \in Range(next.out)
          /\ \A k \in 1..n : raw[k] \notin HexDigits \cup {"%"} => raw[k] \in Range(next.out)
        BY <1>7, <1>9, <2>3
    <2> HIDE DEF L, r, s, char, next, seen
    <2>5. QED BY <2>1, <2>2, <2>4 DEF ReadAlike, L, next, seen
<1>10. CASE r.skip = 0 /\ ~(percent /\ escape)
    <2>1. /\ next.out = Append(r.out, char) /\ next.skip = 0 /\ seen.skip = 0
          /\ seen.well = s.well \/ percent
        <3> HIDE DEF r, s, next, seen, char
        <3>1. next.out = Append(r.out, char) /\ next.skip = 0
            BY <1>2, <1>3, <1>10, DecodeTurn DEF char
        <3>2. s.skip = 0
            BY <1>6, <1>10
        <3>3. CASE percent
            <4>1. seen.skip = 0
                BY <1>1, <1>2, <1>3, <1>10, <3>2, <3>3, ScanTurn
            <4>2. QED BY <3>1, <3>3, <4>1
        <3>4. CASE ~percent
            <4>1. seen = s
                BY <1>1, <1>2, <1>3, <3>2, <3>4, ScanTurn
            <4>2. QED BY <3>1, <3>2, <4>1
        <3>5. QED BY <3>3, <3>4
    <2>2. \A j \in 1..next.skip : n + j <= L /\ raw[n + j] \in HexDigits
        BY <2>1
    <2>3. Range(r.out) \subseteq Range(next.out) /\ char \in Range(next.out)
        <3> HIDE DEF r, next, char
        <3>1. QED BY <1>1, <1>4, <2>1, RangeGrows
    <2>4. /\ s.well \/ "%" \in Range(next.out)
          /\ \A k \in 1..n : raw[k] \notin HexDigits \cup {"%"} => raw[k] \in Range(next.out)
        BY <1>7, <2>3
    <2>5. seen.well \/ "%" \in Range(next.out)
        BY <2>1, <2>3, <2>4
    <2> HIDE DEF L, r, s, char, next, seen
    <2>6. QED BY <2>1, <2>2, <2>4, <2>5 DEF ReadAlike, L, next, seen
<1>11. QED BY <1>4, <1>8, <1>9, <1>10

LEMMA ReadersAlike ==
    ASSUME NEW C, Decoded \subseteq C, NEW raw \in Seq(C), NEW read, Decodes(read, raw, C),
           NEW scan, Scans(scan, raw)
    PROVE  ReadAlike(raw, read, scan, Len(raw))
<1> DEFINE L == Len(raw)
           T == {n \in 0..L : ReadAlike(raw, read, scan, n)}
<1>1. L \in Nat
    OBVIOUS
<1>2. 0 \in T
    <2>1. read[0].skip = 0 /\ scan[0].skip = 0 /\ scan[0].well
        BY DEF Decodes, Scans
    <2>2. ReadAlike(raw, read, scan, 0)
        BY <2>1 DEF ReadAlike
    <2>3. QED BY <1>1, <2>2
<1>3. \A n \in 1..L : n - 1 \in T => n \in T
    <2>1. \A n \in 1..L : n \in 0..L
        BY <1>1
    <2>2. QED BY <2>1, TurnsAlike
<1>4. 0..L \subseteq T
    <2> HIDE DEF T, L
    <2>1. QED BY <1>1, <1>2, <1>3, UpTo
<1>5. L \in 0..L
    BY <1>1
<1>6. QED BY <1>4, <1>5

LEMMA PrefixGrows ==
    ASSUME NEW S, NEW s \in Seq(S), NEW n \in 1..Len(s)
    PROVE  /\ SubSeq(s, 1, n - 1) \in Seq(S) /\ SubSeq(s, 1, n) \in Seq(S)
           /\ SubSeq(s, 1, n) = Append(SubSeq(s, 1, n - 1), s[n])
           /\ SubSeq(s, 1, n) = SubSeq(s, 1, n - 1) \o <<s[n]>>
<1> DEFINE begun == SubSeq(s, 1, n - 1)
           more == SubSeq(s, 1, n)
<1>1. begun \in Seq(S) /\ more \in Seq(S) /\ s[n] \in S
    OBVIOUS
<1>2. more = Append(begun, s[n])
    OBVIOUS
<1> HIDE DEF begun, more
<1>3. Append(begun, s[n]) = begun \o <<s[n]>>
    BY <1>1, AppendIsConcat
<1>4. QED BY <1>1, <1>2, <1>3 DEF begun, more

LEMMA FlattenOnes ==
    ASSUME NEW S, NEW s \in Seq(S)
    PROVE  FlattenSeq([i \in DOMAIN s |-> <<s[i]>>]) = s
<1> DEFINE ones == [i \in DOMAIN s |-> <<s[i]>>]
           L == Len(s)
           flat == [n \in 0..L |-> SubSeq(s, 1, n)]
<1>1. L \in Nat /\ DOMAIN s = 1..L
    OBVIOUS
<1>2. ones \in Seq(Seq(S)) /\ Len(ones) = L /\ \A n \in 1..L : ones[n] = <<s[n]>>
    <2>1. \A n \in 1..L : s[n] \in S
        OBVIOUS
    <2>2. \A x \in S : <<x>> \in Seq(S)
        OBVIOUS
    <2>3. ones = [i \in 1..L |-> <<s[i]>>]
        BY <1>1
    <2> HIDE DEF L, ones
    <2>4. QED BY <1>1, <2>1, <2>2, <2>3
<1>3. /\ SubSeq(s, 1, 0) = <<>> /\ SubSeq(s, 1, L) = s
      /\ \A n \in 0..L : SubSeq(s, 1, n) \in Seq(S)
    OBVIOUS
<1>4. \A n \in 1..L : SubSeq(s, 1, n) = SubSeq(s, 1, n - 1) \o <<s[n]>>
    BY PrefixGrows
<1> HIDE DEF ones, L
<1>5. Flats(flat, ones, S)
    <2>1. \A n \in 1..L : n \in 0..L /\ n - 1 \in 0..L
        BY <1>1
    <2>2. \A n \in 1..L : flat[n] = flat[n - 1] \o ones[n]
        BY <1>2, <1>4, <2>1
    <2>3. flat \in [0..L -> Seq(S)] /\ flat[0] = <<>>
        BY <1>1, <1>3
    <2> HIDE DEF flat
    <2>4. QED BY <1>2, <2>2, <2>3 DEF Flats
<1>6. FlattenSeq(ones) = flat[L]
    <2> HIDE DEF flat
    <2>1. QED BY <1>2, <1>5, FlattenIs
<1>7. flat[L] = s
    BY <1>1, <1>3
<1>8. QED BY <1>6, <1>7 DEF ones

\* What percent_decode_str reads, of any text.
LEMMA PercentDecodes ==
    ASSUME NEW S, NEW raw \in Seq(S)
    PROVE  /\ PercentDecode(raw) \in Seq(S \cup Decoded)
           /\ WellEscaped(raw) \/ "%" \in Range(PercentDecode(raw))
           /\ \A k \in 1..Len(raw) :
                  raw[k] \notin HexDigits \cup {"%"} => raw[k] \in Range(PercentDecode(raw))
           /\ raw = <<>> => PercentDecode(raw) = <<>>
<1> DEFINE C == S \cup Decoded
           L == Len(raw)
<1>1. raw \in Seq(C) /\ Decoded \subseteq C /\ L \in Nat
    OBVIOUS
<1> HIDE DEF C
<1>2. PICK read : Decodes(read, raw, C)
    BY <1>1, DecodesExist
<1>3. PICK scan : Scans(scan, raw)
    BY <1>1, ScansExist
<1>4. PercentDecode(raw) = read[L].out /\ WellEscaped(raw) = scan[L].well
    BY <1>1, <1>2, <1>3, DecodeIs, ScanIs
<1>5. ReadAlike(raw, read, scan, L)
    BY <1>1, <1>2, <1>3, ReadersAlike
<1>6. read[L] \in DecodeStates(C)
    BY <1>1, <1>2 DEF Decodes
<1>7. raw = <<>> => read[L].out = <<>>
    BY <1>2 DEF Decodes
<1>8. QED BY <1>4, <1>5, <1>6, <1>7 DEF ReadAlike, DecodeStates, C

LEMMA PlainIsPlain ==
    /\ "%" \notin Plain /\ "+" \notin Plain /\ " " \notin Plain
    /\ "+" \notin HexDigits \cup {"%"} /\ " " \notin HexDigits \cup {"%"}
    /\ \A char \in Plain : Encoded(char) = <<char>>
BY DEF Plain, HexDigits, Encoded

\* Whatever is written for a call id, the readers of the REST paths, of the sideband
\* paths and of a query read the same id or refuse it alike, and one they accept is
\* encoded as it is (decode_call_id, validate_call_id, decode_segment,
\* decode_component, encode_query_component).
THEOREM OneReadingOfCallIds ==
    ASSUME NEW S, NEW raw \in Seq(S)
    PROVE  CallIdsAgree(raw)
<1> DEFINE id == PercentDecode(raw)
           spaced == [i \in DOMAIN raw |-> IF raw[i] = "+" THEN " " ELSE raw[i]]
           asked == PercentDecode(spaced)
           well == WellEscaped(raw)
           T == S \cup {" "}
<1>1. /\ id \in Seq(S \cup Decoded) /\ (well \/ "%" \in Range(id))
      /\ \A k \in 1..Len(raw) : raw[k] \notin HexDigits \cup {"%"} => raw[k] \in Range(id)
      /\ raw = <<>> => id = <<>>
    BY PercentDecodes
<1>2. /\ spaced \in Seq(T) /\ Len(spaced) = Len(raw)
      /\ \A k \in 1..Len(raw) : spaced[k] = IF raw[k] = "+" THEN " " ELSE raw[k]
    <2> DEFINE L == Len(raw)
    <2>1. L \in Nat /\ DOMAIN raw = 1..L /\ \A k \in 1..L : raw[k] \in S
        OBVIOUS
    <2>2. spaced = [i \in 1..L |-> IF raw[i] = "+" THEN " " ELSE raw[i]]
        BY <2>1
    <2> HIDE DEF L, spaced
    <2>3. \A k \in 1..L : spaced[k] = (IF raw[k] = "+" THEN " " ELSE raw[k]) /\ spaced[k] \in T
        BY <2>1, <2>2
    <2>4. spaced \in [1..L -> T]
        BY <2>2, <2>3
    <2> HIDE DEF T
    <2>5. spaced \in Seq(T) /\ Len(spaced) = L
        BY <2>1, <2>4
    <2>6. QED BY <2>3, <2>5 DEF L
<1>3. \A k \in 1..Len(raw) : spaced[k] \notin HexDigits \cup {"%"} => spaced[k] \in Range(asked)
    <2> HIDE DEF spaced, T
    <2>1. QED BY <1>2, PercentDecodes
<1>4. (\A k \in 1..Len(raw) : raw[k] # "+") => asked = id
    <2>1. ASSUME \A k \in 1..Len(raw) : raw[k] # "+" PROVE spaced = raw
        <3>1. \A k \in 1..Len(raw) : spaced[k] = raw[k]
            BY <1>2, <2>1
        <3>2. raw \in Seq(T)
            <4>1. S \subseteq T
                OBVIOUS
            <4>2. QED BY <4>1, SeqMonotonic
        <3> HIDE DEF spaced, T
        <3>3. QED BY <1>2, <3>1, <3>2, SeqEqual
    <2>2. QED BY <2>1
<1>5. DecodeComponent(raw) = asked
    BY DEF DecodeComponent
<1>6. ASSUME NEW k \in 1..Len(raw), raw[k] = "+"
      PROVE  ~ValidateCallId(id) /\ ~ValidateCallId(asked)
    <2>1. spaced[k] = " "
        BY <1>2, <1>6
    <2> HIDE DEF spaced, id, asked
    <2>2. "+" \in Range(id) /\ " " \in Range(asked)
        BY <1>1, <1>3, <1>6, <2>1, PlainIsPlain
    <2>3. QED BY <2>2, PlainIsPlain DEF ValidateCallId
<1> HIDE DEF spaced, id, asked, well
<1>7. ValidateCallId(id) => well /\ raw # <<>> /\ id # <<>> /\ \A i \in DOMAIN id : id[i] \in Plain
    <2> SUFFICES ASSUME ValidateCallId(id)
                 PROVE  well /\ raw # <<>> /\ id # <<>> /\ \A i \in DOMAIN id : id[i] \in Plain
        OBVIOUS
    <2>1. Range(id) \subseteq Plain /\ 1 <= Len(id)
        BY DEF ValidateCallId
    <2>2. well
        BY <1>1, <2>1, PlainIsPlain
    <2>3. id # <<>>
        BY <2>1
    <2>4. \A i \in DOMAIN id : id[i] \in Plain
        BY <2>1 DEF Range
    <2>5. QED BY <1>1, <2>2, <2>3, <2>4
<1>8. /\ RestCallId(raw) = IF ValidateCallId(id) THEN id ELSE NoId
      /\ SidebandCallId(raw) = IF ValidateCallId(id) THEN id ELSE NoId
    <2>1. RestCallId(raw) = IF raw # <<>> /\ well /\ ValidateCallId(id) THEN id ELSE NoId
        BY Zenon DEF RestCallId, id, well
    <2>2. SidebandCallId(raw) = IF ValidateCallId(id) THEN id ELSE NoId
        BY Zenon DEF SidebandCallId, id
    <2>3. QED BY <1>7, <2>1, <2>2, Zenon
<1>9. QueryCallId(raw) = IF ValidateCallId(id) THEN id ELSE NoId
    <2>1. QueryCallId(raw) = IF well /\ ValidateCallId(asked) THEN asked ELSE NoId
        BY <1>5, Zenon DEF QueryCallId, well
    <2>2. CASE \A k \in 1..Len(raw) : raw[k] # "+"
        <3>1. asked = id
            BY <1>4, <2>2
        <3>2. QED BY <1>7, <2>1, <3>1, Zenon
    <2>3. CASE \E k \in 1..Len(raw) : raw[k] = "+"
        <3>1. ~ValidateCallId(id) /\ ~ValidateCallId(asked)
            BY <1>6, <2>3
        <3>2. QED BY <2>1, <3>1, Zenon
    <2>4. QED BY <2>2, <2>3
<1>10. ASSUME ValidateCallId(id)
       PROVE  Encoded(id[1]) = <<id[1]>> /\ EncodeQueryComponent(id) = id
    <2>1. \A i \in DOMAIN id : Encoded(id[i]) = <<id[i]>>
        BY <1>7, <1>10, PlainIsPlain
    <2>2. 1 \in DOMAIN id
        BY <1>1, <1>7, <1>10
    <2>3. EncodeQueryComponent(id) = FlattenSeq([i \in DOMAIN id |-> <<id[i]>>])
        BY <2>1 DEF EncodeQueryComponent
    <2>4. FlattenSeq([i \in DOMAIN id |-> <<id[i]>>]) = id
        BY <1>1, FlattenOnes
    <2>5. QED BY <2>1, <2>2, <2>3, <2>4
<1>11. RestCallId(raw) # NoId => RestCallId(raw) = id /\ ValidateCallId(id)
    BY <1>8
<1>12. QED BY <1>8, <1>9, <1>10, <1>11 DEF CallIdsAgree

\* A character is written as itself or as an escape that stands for it.
LEMMA EncodedIs ==
    ASSUME NEW char
    PROVE  \/ Encoded(char) = <<char>> /\ char # "%" /\ char # "+"
           \/ \E h, l \in HexDigits :
                  Encoded(char) = <<"%", h, l>> /\ DecodeByte(h, l) = char
<1> DEFINE stands(h, l) ==
               /\ h \in HexDigits /\ l \in HexDigits
               /\ Encoded(char) = <<"%", h, l>> /\ DecodeByte(h, l) = char
<1>1. CASE char = "%"
    <2>1. stands("2", "5")
        BY <1>1 DEF Encoded, DecodeByte, HexDigits
    <2>2. QED BY <2>1
<1>2. CASE char = "!"
    <2>1. stands("2", "1")
        BY <1>2 DEF Encoded, DecodeByte, HexDigits
    <2>2. QED BY <2>1
<1>3. CASE char = "+"
    <2>1. stands("2", "B")
        BY <1>3 DEF Encoded, DecodeByte, HexDigits
    <2>2. QED BY <2>1
<1>4. CASE char = " "
    <2>1. stands("2", "0")
        BY <1>4 DEF Encoded, DecodeByte, HexDigits
    <2>2. QED BY <2>1
<1>5. CASE char \notin {"%", "!", "+", " "}
    BY <1>5 DEF Encoded
<1>6. QED BY <1>1, <1>2, <1>3, <1>4, <1>5

\* Decoder and scan between two characters, with out read so far.
Between(read, scan, p, out) ==
    /\ read[p].skip = 0 /\ scan[p].skip = 0 /\ scan[p].well
    /\ read[p].out = out

\* What was written for a character is read as that character.
LEMMA BlockReads ==
    ASSUME NEW C, Decoded \subseteq C, NEW raw \in Seq(C), NEW read, Decodes(read, raw, C),
           NEW scan, Scans(scan, raw), NEW out, NEW p \in Nat, Between(read, scan, p, out),
           NEW char, p + Len(Encoded(char)) <= Len(raw),
           \A j \in 1..Len(Encoded(char)) : raw[p + j] = Encoded(char)[j]
    PROVE  Between(read, scan, p + Len(Encoded(char)), Append(out, char))
<1> DEFINE L == Len(raw)
           block == Encoded(char)
<1>1. L \in Nat
    OBVIOUS
<1>2. ASSUME NEW n \in 1..L
      PROVE  /\ n \in Nat /\ read[n - 1] \in DecodeStates(C) /\ scan[n - 1] \in ScanStates
             /\ read[n] = DecodeStep(raw, read[n - 1], n)
             /\ scan[n] = ScanStep(raw, scan[n - 1], n)
    BY <1>1, SMTT(30) DEF Decodes, Scans
<1>3. ASSUME NEW n \in 1..L, read[n - 1].skip > 0, scan[n - 1].skip > 0
      PROVE  /\ read[n].skip = read[n - 1].skip - 1 /\ scan[n].skip = scan[n - 1].skip - 1
             /\ read[n].out = read[n - 1].out /\ scan[n].well = scan[n - 1].well
    <2> HIDE DEF L
    <2>1. read[n].skip = read[n - 1].skip - 1 /\ read[n].out = read[n - 1].out
        BY <1>2, <1>3, DecodeTurn DEF L
    <2>2. scan[n].skip = scan[n - 1].skip - 1 /\ scan[n].well = scan[n - 1].well
        <3> DEFINE s == scan[n - 1]
        <3>1. n \in Nat /\ s \in ScanStates /\ scan[n] = ScanStep(raw, s, n) /\ s.skip > 0
            BY <1>2, <1>3
        <3> HIDE DEF s
        <3>2. s.skip > 0 => /\ ScanStep(raw, s, n).well = s.well
                            /\ ScanStep(raw, s, n).skip = s.skip - 1
            BY <3>1, ScanTurn, Zenon
        <3>3. QED BY <3>1, <3>2, Zenon DEF s
    <2>3. QED BY <2>1, <2>2
<1> DEFINE Goes(m, n) ==
               /\ read[n].skip = read[m].skip - 1 /\ scan[n].skip = scan[m].skip - 1
               /\ read[n].out = read[m].out /\ scan[n].well = scan[m].well
<1>4. ASSUME NEW n \in 1..L, NEW m, n - 1 = m, read[m].skip > 0, scan[m].skip > 0
      PROVE  Goes(m, n)
    BY <1>3, <1>4
<1>5. CASE block = <<char>> /\ char # "%"
    <2>1. Len(block) = 1 /\ block[1] = char
        BY <1>5
    <2>2. p + 1 \in 1..L /\ p + 1 - 1 = p /\ raw[p + 1] = char
        BY <1>1, <2>1
    <2> HIDE DEF L, block
    <2>3. /\ p + 1 \in Nat /\ read[p] \in DecodeStates(C) /\ scan[p] \in ScanStates
          /\ read[p + 1] = DecodeStep(raw, read[p], p + 1)
          /\ scan[p + 1] = ScanStep(raw, scan[p], p + 1)
        BY <1>2, <2>2
    <2> DEFINE r == read[p]
               s == scan[p]
               n == p + 1
    <2>4. r.skip = 0 /\ s.skip = 0 /\ s.well /\ r.out = out
        BY DEF Between
    <2>5. raw[n] # "%" /\ raw[n] = char /\ n \in 1..Len(raw)
        BY <1>5, <2>2 DEF L
    <2> HIDE DEF r, s, n
    <2>6. /\ DecodeStep(raw, r, n).out = Append(r.out, raw[n])
          /\ DecodeStep(raw, r, n).skip = 0
        BY <2>3, <2>4, <2>5, DecodeTurn DEF r, s, n
    <2>7. ScanStep(raw, s, n) = s
        <3>1. n \in Nat /\ s \in ScanStates
            BY <2>3 DEF n, s
        <3>2. s.skip = 0 /\ raw[n] # "%" => ScanStep(raw, s, n) = s
            BY <3>1, ScanTurn, Zenon
        <3>3. QED BY <2>4, <2>5, <3>2
    <2>8. QED BY <2>1, <2>3, <2>4, <2>5, <2>6, <2>7 DEF Between, r, s, n, block
<1>6. ASSUME NEW h \in HexDigits, NEW l \in HexDigits, block = <<"%", h, l>>,
             DecodeByte(h, l) = char
      PROVE  Between(read, scan, p + Len(block), Append(out, char))
    <2>1. Len(block) = 3 /\ block[1] = "%" /\ block[2] = h /\ block[3] = l
        BY <1>6
    <2>2. /\ p + 1 \in 1..L /\ p + 2 \in 1..L /\ p + 3 \in 1..L
          /\ p + 1 - 1 = p /\ p + 2 - 1 = p + 1 /\ p + 3 - 1 = p + 2
          /\ raw[p + 1] = "%" /\ raw[p + 2] = h /\ raw[p + 3] = l
        <3>1. p + 3 <= L
            BY <2>1
        <3>2. 1 \in 1..Len(block) /\ 2 \in 1..Len(block) /\ 3 \in 1..Len(block)
            BY <2>1
        <3> HIDE DEF block, L
        <3>3. raw[p + 1] = "%" /\ raw[p + 2] = h /\ raw[p + 3] = l
            BY <2>1, <3>2 DEF block
        <3>4. QED BY <1>1, <3>1, <3>3
    <2> HIDE DEF L, block
    <2>3. /\ p + 1 \in Nat /\ read[p] \in DecodeStates(C) /\ scan[p] \in ScanStates
          /\ read[p + 1] = DecodeStep(raw, read[p], p + 1)
          /\ scan[p + 1] = ScanStep(raw, scan[p], p + 1)
        BY <1>2, <2>2
    <2> DEFINE r == read[p]
               s == scan[p]
               n == p + 1
    <2>4. r.skip = 0 /\ s.skip = 0 /\ s.well /\ r.out = out
        BY DEF Between
    <2>5. /\ raw[n] = "%" /\ n \in 1..Len(raw) /\ n + 1 = p + 2 /\ n + 2 = p + 3
        BY <2>2 DEF L
    <2>6. IsEscape(raw, n) /\ DecodeByte(raw[n + 1], raw[n + 2]) = char
        <3>1. n + 2 <= Len(raw)
            BY <2>2, <2>5 DEF L
        <3>2. raw[n + 1] = h /\ raw[n + 2] = l
            BY <2>2, <2>5
        <3> HIDE DEF n
        <3>3. QED BY <1>6, <3>1, <3>2 DEF IsEscape
    <2> HIDE DEF r, s, n
    <2>7. DecodeStep(raw, r, n).out = Append(r.out, char) /\ DecodeStep(raw, r, n).skip = 2
        <3>1. r \in DecodeStates(C) /\ n \in 1..Len(raw)
            BY <2>3, <2>5 DEF r
        <3>2. r.skip = 0 /\ raw[n] = "%" /\ IsEscape(raw, n) =>
                  /\ DecodeStep(raw, r, n).out
                         = Append(r.out, DecodeByte(raw[n + 1], raw[n + 2]))
                  /\ DecodeStep(raw, r, n).skip = 2
            BY <3>1, DecodeTurn, Zenon
        <3>3. QED BY <2>4, <2>5, <2>6, <3>2
    <2>8. ScanStep(raw, s, n).well = s.well /\ ScanStep(raw, s, n).skip = 2
        <3>1. n \in Nat /\ s \in ScanStates
            BY <2>3 DEF n, s
        <3>2. s.skip = 0 /\ raw[n] = "%" /\ IsEscape(raw, n) =>
                  ScanStep(raw, s, n).well = s.well /\ ScanStep(raw, s, n).skip = 2
            BY <3>1, ScanTurn, Zenon
        <3>3. QED BY <2>4, <2>5, <2>6, <3>2
    <2>9. /\ read[p + 1].out = Append(out, char) /\ read[p + 1].skip = 2
          /\ scan[p + 1].well /\ scan[p + 1].skip = 2
        BY <2>3, <2>4, <2>7, <2>8 DEF r, s, n
    <2>10. /\ read[p + 2].skip = 1 /\ scan[p + 2].skip = 1
           /\ read[p + 2].out = Append(out, char) /\ scan[p + 2].well
        <3>1. read[p + 1].skip > 0 /\ scan[p + 1].skip > 0
            BY <2>9
        <3> HIDE DEF Goes
        <3>2. Goes(p + 1, p + 2)
            BY <1>4, <2>2, <3>1
        <3>3. QED BY <2>9, <3>2 DEF Goes
    <2>11. /\ read[p + 3].skip = 0 /\ scan[p + 3].skip = 0
           /\ read[p + 3].out = Append(out, char) /\ scan[p + 3].well
        <3>1. read[p + 2].skip > 0 /\ scan[p + 2].skip > 0
            BY <2>10
        <3> HIDE DEF Goes
        <3>2. Goes(p + 2, p + 3)
            BY <1>4, <2>2, <3>1
        <3>3. QED BY <2>10, <3>2 DEF Goes
    <2>12. QED BY <2>1, <2>11 DEF Between, block
<1>7. QED BY <1>5, <1>6, EncodedIs DEF block

\* Where the k-th part is in the whole.
IsAt(flat, seqs, k) ==
    /\ Len(flat[k]) = Len(flat[k - 1]) + Len(seqs[k])
    /\ Len(flat[k]) <= Len(flat[Len(seqs)])
    /\ \A j \in 1..Len(seqs[k]) : flat[Len(seqs)][Len(flat[k - 1]) + j] = seqs[k][j]

LEMMA FlatPlaces ==
    ASSUME NEW S, NEW seqs \in Seq(Seq(S)), NEW flat, Flats(flat, seqs, S),
           NEW k \in 1..Len(seqs)
    PROVE  IsAt(flat, seqs, k)
<1> DEFINE n == Len(seqs)
           Begins(whole, part) ==
               Len(part) <= Len(whole) /\ \A i \in 1..Len(part) : whole[i] = part[i]
           T == {m \in 0..n : m >= k => Begins(flat[m], flat[k])}
<1>1. n \in Nat /\ k \in Nat /\ k <= n /\ k \in 0..n /\ k - 1 \in 0..n
    OBVIOUS
<1>2. /\ \A m \in 0..n : flat[m] \in Seq(S)
      /\ \A m \in 1..n : flat[m] = flat[m - 1] \o seqs[m]
      /\ \A m \in 1..n : seqs[m] \in Seq(S)
    BY DEF Flats
<1>3. ASSUME NEW a \in Seq(S), NEW b \in Seq(S)
      PROVE  /\ Len(a \o b) = Len(a) + Len(b) /\ Begins(a \o b, a)
             /\ \A j \in 1..Len(b) : (a \o b)[Len(a) + j] = b[j]
    OBVIOUS
<1> HIDE DEF n
<1>4. ASSUME NEW a \in Seq(S), NEW b \in Seq(S), NEW c \in Seq(S), Begins(a, b), Begins(b, c)
      PROVE  Begins(a, c)
    <2>1. Len(a) \in Nat /\ Len(b) \in Nat /\ Len(c) \in Nat
        OBVIOUS
    <2>2. QED BY <1>4, <2>1
<1> HIDE DEF Begins
<1>5. 0 \in T
    BY <1>1
<1>6. ASSUME NEW m \in 1..n, m - 1 \in T PROVE m \in T
    <2>1. m \in 0..n /\ m - 1 \in 0..n
        BY <1>1
    <2>2. CASE m - 1 >= k
        <3>1. Begins(flat[m - 1], flat[k])
            BY <1>6, <2>2
        <3>2. Begins(flat[m], flat[m - 1])
            BY <1>2, <1>3, <2>1
        <3>3. Begins(flat[m], flat[k])
            BY <1>1, <1>2, <1>4, <2>1, <3>1, <3>2
        <3>4. QED BY <2>1, <3>3
    <2>3. CASE m = k
        <3>1. Begins(flat[k], flat[k])
            BY <1>1, <1>2 DEF Begins
        <3>2. QED BY <2>1, <2>3, <3>1
    <2>4. CASE m < k
        BY <1>1, <2>1, <2>4
    <2>5. QED BY <1>1, <2>1, <2>2, <2>3, <2>4
<1>7. 0..n \subseteq T
    <2> HIDE DEF T
    <2>1. QED BY <1>1, <1>5, <1>6, UpTo
<1>8. Begins(flat[n], flat[k])
    <2>1. n \in 0..n
        BY <1>1
    <2>2. QED BY <1>1, <1>7, <2>1
<1>9. /\ Len(flat[k]) = Len(flat[k - 1]) + Len(seqs[k])
      /\ \A j \in 1..Len(seqs[k]) : flat[k][Len(flat[k - 1]) + j] = seqs[k][j]
    <2>1. flat[k - 1] \in Seq(S) /\ seqs[k] \in Seq(S) /\ flat[k] = flat[k - 1] \o seqs[k]
        BY <1>1, <1>2 DEF n
    <2> DEFINE a == flat[k - 1]
               b == seqs[k]
    <2>2. a \in Seq(S) /\ b \in Seq(S) /\ flat[k] = a \o b
        BY <2>1
    <2> HIDE DEF a, b
    <2>3. Len(a \o b) = Len(a) + Len(b) /\ \A j \in 1..Len(b) : (a \o b)[Len(a) + j] = b[j]
        BY <1>3, <2>2
    <2>4. QED BY <2>2, <2>3 DEF a, b
<1>10. ASSUME NEW j \in 1..Len(seqs[k]) PROVE Len(flat[k - 1]) + j \in 1..Len(flat[k])
    <2>1. Len(flat[k - 1]) \in Nat /\ Len(seqs[k]) \in Nat
        BY <1>1, <1>2 DEF n
    <2> DEFINE x == Len(flat[k - 1])
               y == Len(seqs[k])
    <2>2. x \in Nat /\ y \in Nat /\ j \in 1..y /\ Len(flat[k]) = x + y
        BY <1>9, <2>1
    <2> HIDE DEF x, y
    <2>3. x + j \in 1..(x + y)
        BY <2>2
    <2>4. QED BY <2>2, <2>3 DEF x
<1>11. QED BY <1>8, <1>9, <1>10 DEF Begins, IsAt, n

\* A model name of any characters is read in the upstream's query as the client meant
\* it in its own: what encode_query_component writes is well escaped, and
\* decode_component reads it back.
THEOREM ModelsSurvive ==
    ASSUME NEW S, NEW model \in Seq(S)
    PROVE  ModelSurvives(model)
<1> DEFINE C == S \cup Decoded \cup HexDigits
           P == C \ {"+"}
           n == Len(model)
           seqs == [i \in DOMAIN model |-> Encoded(model[i])]
           raw == EncodeQueryComponent(model)
<1>1. /\ n \in Nat /\ DOMAIN model = 1..n /\ \A k \in 1..n : model[k] \in C
    OBVIOUS
<1>2. Decoded \subseteq C /\ P \subseteq C /\ "+" \notin HexDigits /\ "%" \in P
    BY DEF Decoded, HexDigits
<1>3. \A char \in C : Encoded(char) \in Seq(P)
    <2> SUFFICES ASSUME NEW char \in C PROVE Encoded(char) \in Seq(P)
        OBVIOUS
    <2>1. \A x, y, z \in P : <<x>> \in Seq(P) /\ <<x, y, z>> \in Seq(P)
        OBVIOUS
    <2>2. \A h \in HexDigits : h \in P
        BY <1>2
    <2>3. char # "+" => char \in P
        OBVIOUS
    <2> HIDE DEF P, C
    <2>4. CASE Encoded(char) = <<char>> /\ char # "%" /\ char # "+"
        BY <2>1, <2>3, <2>4
    <2>5. CASE \E h, l \in HexDigits : Encoded(char) = <<"%", h, l>> /\ DecodeByte(h, l) = char
        BY <1>2, <2>1, <2>2, <2>5
    <2>6. QED BY <2>4, <2>5, EncodedIs
<1> HIDE DEF P, C
<1>4. seqs \in Seq(Seq(P)) /\ Len(seqs) = n /\ \A k \in 1..n : seqs[k] = Encoded(model[k])
    <2>1. seqs = [i \in 1..n |-> Encoded(model[i])]
        BY <1>1
    <2> HIDE DEF n, seqs
    <2>2. \A k \in 1..n : seqs[k] = Encoded(model[k]) /\ seqs[k] \in Seq(P)
        BY <1>1, <1>3, <2>1
    <2>3. seqs \in [1..n -> Seq(P)]
        BY <2>1, <2>2
    <2> DEFINE SP == Seq(P)
    <2> HIDE DEF SP
    <2>4. seqs \in [1..n -> SP]
        BY <2>3 DEF SP
    <2>5. seqs \in Seq(SP) /\ Len(seqs) = n
        BY <1>1, <2>4
    <2>6. QED BY <2>2, <2>5 DEF SP
<1> HIDE DEF n, seqs
<1>5. PICK flat : Flats(flat, seqs, P)
    BY <1>4, FlatsExist
<1>6. raw = flat[n]
    <2>1. raw = FlattenSeq(seqs)
        BY DEF EncodeQueryComponent, seqs
    <2>2. FlattenSeq(seqs) = flat[Len(seqs)]
        BY <1>4, <1>5, FlattenIs
    <2>3. QED BY <1>4, <2>1, <2>2
<1> HIDE DEF raw
<1>7. /\ flat[0] = <<>> /\ \A k \in 0..n : flat[k] \in Seq(P)
    BY <1>4, <1>5 DEF Flats
<1>8. raw \in Seq(P) /\ raw \in Seq(C)
    <2>1. n \in 0..n
        BY <1>1
    <2>2. raw \in Seq(P)
        BY <1>6, <1>7, <2>1
    <2>3. QED BY <1>2, <2>2, SeqMonotonic
<1>9. PICK read : Decodes(read, raw, C)
    BY <1>2, <1>8, DecodesExist
<1>10. PICK scan : Scans(scan, raw)
    BY <1>8, ScansExist
<1> DEFINE T == {k \in 0..n : Between(read, scan, Len(flat[k]), SubSeq(model, 1, k))}
<1>11. 0 \in T
    <2>1. Len(flat[0]) = 0
        BY <1>7
    <2>2. SubSeq(model, 1, 0) = <<>>
        OBVIOUS
    <2>3. Between(read, scan, 0, <<>>)
        BY <1>9, <1>10 DEF Between, Decodes, Scans
    <2>4. Between(read, scan, Len(flat[0]), SubSeq(model, 1, 0))
        BY <2>1, <2>2, <2>3, Zenon
    <2>5. 0 \in 0..n
        BY <1>1
    <2>6. QED BY <2>4, <2>5
<1>12. ASSUME NEW k \in 1..n, k - 1 \in T PROVE k \in T
    <2> DEFINE p == Len(flat[k - 1])
               char == model[k]
               out == SubSeq(model, 1, k - 1)
    <2>1. k \in 0..n /\ k - 1 \in 0..n
        BY <1>1
    <2>2. p \in Nat
        BY <1>7, <2>1
    <2>3. Between(read, scan, p, out)
        BY <1>12
    <2>4. seqs[k] = Encoded(char)
        BY <1>4
    <2>5. /\ Len(flat[k]) = p + Len(Encoded(char)) /\ Len(flat[k]) <= Len(raw)
          /\ \A j \in 1..Len(Encoded(char)) : raw[p + j] = Encoded(char)[j]
        <3>1. k \in 1..Len(seqs)
            BY <1>4
        <3>2. /\ Len(flat[k]) = p + Len(seqs[k]) /\ Len(flat[k]) <= Len(flat[Len(seqs)])
              /\ \A j \in 1..Len(seqs[k]) : flat[Len(seqs)][p + j] = seqs[k][j]
            <4>1. IsAt(flat, seqs, k)
                BY <1>4, <1>5, <3>1, FlatPlaces
            <4>2. QED BY <4>1 DEF IsAt
        <3> HIDE DEF p, char
        <3>3. QED BY <1>4, <1>6, <2>4, <3>2
    <2>6. SubSeq(model, 1, k) = Append(out, char)
        BY PrefixGrows DEF n
    <2> HIDE DEF p, char, out
    <2>7. Between(read, scan, p + Len(Encoded(char)), Append(out, char))
        BY <1>2, <1>8, <1>9, <1>10, <2>2, <2>3, <2>5, BlockReads
    <2>8. QED BY <2>1, <2>5, <2>6, <2>7
<1>13. Between(read, scan, Len(raw), model)
    <2> HIDE DEF T
    <2>1. 0..n \subseteq T
        BY <1>1, <1>11, <1>12, UpTo
    <2>2. n \in T
        BY <1>1, <2>1
    <2>3. SubSeq(model, 1, n) = model
        BY DEF n
    <2>4. QED BY <1>6, <2>2, <2>3 DEF T
<1>14. PercentDecode(raw) = model /\ WellEscaped(raw)
    <2>1. PercentDecode(raw) = read[Len(raw)].out /\ WellEscaped(raw) = scan[Len(raw)].well
        BY <1>8, <1>9, <1>10, DecodeIs, ScanIs
    <2>2. QED BY <1>13, <2>1 DEF Between
<1>15. DecodeComponent(raw) = PercentDecode(raw)
    <2> DEFINE L == Len(raw)
               spaced == [i \in DOMAIN raw |-> IF raw[i] = "+" THEN " " ELSE raw[i]]
    <2>1. L \in Nat /\ DOMAIN raw = 1..L /\ raw = [i \in 1..L |-> raw[i]]
        BY <1>8
    <2>2. \A i \in 1..L : raw[i] # "+"
        BY <1>8 DEF P
    <2> HIDE DEF L
    <2>3. spaced = raw
        BY <2>1, <2>2
    <2>4. QED BY <2>3 DEF DecodeComponent
<1>16. QED BY <1>14, <1>15 DEF ModelSurvives, raw

-----------------------------------------------------------------------------
(* Bases *)

LEMMA GreatestIs ==
    ASSUME NEW L \in Nat, NEW I \in SUBSET (1..L), I # {}
    PROVE  Max(I) \in I /\ \A i \in I : i <= Max(I)
<1> DEFINE T == {L - i : i \in I}
<1>1. T \in SUBSET Nat /\ T # {}
    <2>1. \A i \in I : L - i \in Nat
        OBVIOUS
    <2>2. QED BY <2>1
<1>2. PICK x \in T : \A y \in T : x <= y
    <2> HIDE DEF T
    <2>1. QED BY <1>1, LeastNumber
<1>3. PICK m \in I : x = L - m
    BY <1>2
<1>4. \A i \in I : m >= i
    <2>1. \A i \in I : L - m <= L - i
        BY <1>2, <1>3
    <2>2. QED BY <2>1
<1>5. \E g \in I : \A i \in I : g >= i
    BY <1>4
<1>6. Max(I) \in I /\ \A i \in I : Max(I) >= i
    BY <1>5 DEF Max
<1>7. QED BY <1>6

\* What is left of a URL without the slashes at its end.
LEMMA TrimEndIs ==
    ASSUME NEW S, NEW url \in Seq(S), NEW at \in 1..Len(url), url[at] # "/"
    PROVE  \E m \in at..Len(url) :
               /\ TrimEnd(url) = SubSeq(url, 1, m) /\ url[m] # "/"
               /\ TrimEnd(url) \in Seq(S) /\ Len(TrimEnd(url)) = m
               /\ \A i \in 1..m : TrimEnd(url)[i] = url[i]
<1> DEFINE L == Len(url)
           I == {i \in 1..L : url[i] # "/"}
           m == Max(I)
<1>1. L \in Nat /\ at \in I /\ I \in SUBSET (1..L)
    OBVIOUS
<1>2. m \in I /\ at <= m
    <2> HIDE DEF I, L
    <2>1. QED BY <1>1, GreatestIs
<1>3. SelectLastInSeq(url, LAMBDA token : token # "/") = m
    BY <1>1 DEF SelectLastInSeq
<1>4. TrimEnd(url) = SubSeq(url, 1, m)
    BY <1>3 DEF TrimEnd
<1>5. m \in at..L /\ url[m] # "/" /\ m \in Nat
    BY <1>1, <1>2
<1> HIDE DEF m
<1>6. /\ SubSeq(url, 1, m) \in Seq(S) /\ Len(SubSeq(url, 1, m)) = m
      /\ \A i \in 1..m : SubSeq(url, 1, m)[i] = url[i]
    BY <1>5
<1>7. QED BY <1>4, <1>5, <1>6

LEMMA FirstTwo ==
    ASSUME NEW S, NEW s \in Seq(S), Len(s) >= 2
    PROVE  SubSeq(s, 1, 2) = <<s[1], s[2]>>
<1>1. /\ SubSeq(s, 1, 2) \in Seq(S) /\ Len(SubSeq(s, 1, 2)) = 2
      /\ \A i \in 1..2 : SubSeq(s, 1, 2)[i] = s[i]
    OBVIOUS
<1>2. s[1] \in S /\ s[2] \in S
    OBVIOUS
<1>3. <<s[1], s[2]>> \in Seq(S) /\ Len(<<s[1], s[2]>>) = 2
    BY <1>2
<1>4. \A i \in 1..2 : i = 1 \/ i = 2
    OBVIOUS
<1>5. \A i \in 1..2 : SubSeq(s, 1, 2)[i] = <<s[1], s[2]>>[i]
    BY <1>1, <1>4
<1>6. QED BY <1>1, <1>3, <1>5, SeqEqual

LEMMA EndsInV1Is ==
    ASSUME NEW S, NEW url \in Seq(S), Len(url) >= 2
    PROVE  EndsInV1(url) <=> url[Len(url)] = "v1" /\ url[Len(url) - 1] = "/"
<1> DEFINE L == Len(url)
           suffix == <<"/", "v1">>
           a == Reverse(suffix)
           b == Reverse(url)
<1>1. L \in Nat
    OBVIOUS
<1>2. Len(a) = 2 /\ a[1] = "v1" /\ a[2] = "/" /\ a \in Seq({"v1", "/"})
    BY DEF Reverse
<1>3. Len(b) = L /\ b[1] = url[L] /\ b[2] = url[L - 1] /\ b \in Seq(S)
    BY DEF Reverse
<1>4. EndsInV1(url) <=> 2 <= L /\ SubSeq(a, 1, 2) = SubSeq(b, 1, 2)
    BY <1>2, <1>3 DEF EndsInV1, IsSuffix, IsPrefix
<1> HIDE DEF a, b, L
<1>5. SubSeq(a, 1, 2) = <<a[1], a[2]>>
    <2> DEFINE T == {"v1", "/"}
    <2>1. a \in Seq(T) /\ Len(a) >= 2
        BY <1>2
    <2> HIDE DEF T
    <2>2. QED BY <2>1, FirstTwo
<1>6. SubSeq(b, 1, 2) = <<b[1], b[2]>>
    <2>1. Len(b) >= 2
        BY <1>3 DEF L
    <2>2. QED BY <1>3, <2>1, FirstTwo
<1>7. QED BY <1>2, <1>3, <1>4, <1>5, <1>6 DEF L

\* The words the builders of a URL add to a base.
Words ==
    {"/", "v1", "realtime", "calls", "live", "?", "&", "intent", "architecture", "model",
     "call_id", "id", "https:", "public_api", "wss:", "ws:"}

\* A base as startup accepts one: a scheme, two slashes, a host and a path, without a
\* query.  A host that is called v1 is not told from the path of that name.
IsBase(base) ==
    /\ Len(base) >= 4 /\ base[4] \notin {"/", "v1"}
    /\ \A i \in 1..Len(base) : base[i] \notin {"?", "intent", "architecture"}

LEMMA TwoAndFour ==
    ASSUME NEW x1, NEW x2, NEW x3, NEW x4, NEW x5, NEW x6
    PROVE  <<x1, x2>> \o <<x3, x4, x5, x6>> = <<x1, x2, x3, x4, x5, x6>>
<1> DEFINE S == {x1, x2, x3, x4, x5, x6}
           a == <<x1, x2>>
           b == <<x3, x4, x5, x6>>
           c == <<x1, x2, x3, x4, x5, x6>>
<1>1. /\ a \in Seq(S) /\ b \in Seq(S) /\ c \in Seq(S)
      /\ Len(a) = 2 /\ Len(b) = 4 /\ Len(c) = 6
    OBVIOUS
<1>2. \A i \in 1..6 : IF i <= 2 THEN c[i] = a[i] ELSE c[i] = b[i - 2]
    <2>1. \A i \in 1..6 : i = 1 \/ i = 2 \/ i = 3 \/ i = 4 \/ i = 5 \/ i = 6
        OBVIOUS
    <2>2. QED BY <2>1
<1> HIDE DEF S, a, b, c
<1>3. /\ a \o b \in Seq(S) /\ Len(a \o b) = 6
      /\ \A i \in 1..6 : (a \o b)[i] = IF i <= 2 THEN a[i] ELSE b[i - 2]
    <2>1. /\ a \o b \in Seq(S) /\ Len(a \o b) = Len(a) + Len(b)
          /\ \A i \in 1..Len(a) + Len(b) :
                 (a \o b)[i] = IF i <= Len(a) THEN a[i] ELSE b[i - Len(a)]
        BY <1>1, ConcatProperties
    <2>2. Len(a) = 2 /\ Len(a) + Len(b) = 6
        BY <1>1
    <2>3. QED BY <2>1, <2>2
<1>4. \A i \in 1..6 : (a \o b)[i] = c[i]
    BY <1>2, <1>3
<1>5. a \o b = c
    BY <1>1, <1>3, <1>4, SeqEqual
<1>6. QED BY <1>5 DEF a, b, c

LEMMA TwoAndTwo ==
    ASSUME NEW x1, NEW x2, NEW x3, NEW x4
    PROVE  <<x1, x2>> \o <<x3, x4>> = <<x1, x2, x3, x4>>
<1> DEFINE S == {x1, x2, x3, x4}
           a == <<x1, x2>>
           b == <<x3, x4>>
           c == <<x1, x2, x3, x4>>
<1>1. /\ a \in Seq(S) /\ b \in Seq(S) /\ c \in Seq(S)
      /\ Len(a) = 2 /\ Len(b) = 2 /\ Len(c) = 4
    OBVIOUS
<1>2. \A i \in 1..4 : IF i <= 2 THEN c[i] = a[i] ELSE c[i] = b[i - 2]
    <2>1. \A i \in 1..4 : i = 1 \/ i = 2 \/ i = 3 \/ i = 4
        OBVIOUS
    <2>2. QED BY <2>1
<1> HIDE DEF S, a, b, c
<1>3. /\ a \o b \in Seq(S) /\ Len(a \o b) = 4
      /\ \A i \in 1..4 : (a \o b)[i] = IF i <= 2 THEN a[i] ELSE b[i - 2]
    <2>1. /\ a \o b \in Seq(S) /\ Len(a \o b) = Len(a) + Len(b)
          /\ \A i \in 1..Len(a) + Len(b) :
                 (a \o b)[i] = IF i <= Len(a) THEN a[i] ELSE b[i - Len(a)]
        BY <1>1, ConcatProperties
    <2>2. Len(a) = 2 /\ Len(a) + Len(b) = 4
        BY <1>1
    <2>3. QED BY <2>1, <2>2
<1>4. \A i \in 1..4 : (a \o b)[i] = c[i]
    BY <1>2, <1>3
<1>5. a \o b = c
    BY <1>1, <1>3, <1>4, SeqEqual
<1>6. QED BY <1>5 DEF a, b, c

LEMMA FourAndOne ==
    ASSUME NEW x1, NEW x2, NEW x3, NEW x4, NEW x5
    PROVE  <<x1, x2, x3, x4>> \o <<x5>> = <<x1, x2, x3, x4, x5>>
<1> DEFINE S == {x1, x2, x3, x4, x5}
           a == <<x1, x2, x3, x4>>
           b == <<x5>>
           c == <<x1, x2, x3, x4, x5>>
<1>1. /\ a \in Seq(S) /\ b \in Seq(S) /\ c \in Seq(S)
      /\ Len(a) = 4 /\ Len(b) = 1 /\ Len(c) = 5
    OBVIOUS
<1>2. \A i \in 1..5 : IF i <= 4 THEN c[i] = a[i] ELSE c[i] = b[i - 4]
    <2>1. \A i \in 1..5 : i = 1 \/ i = 2 \/ i = 3 \/ i = 4 \/ i = 5
        OBVIOUS
    <2>2. QED BY <2>1
<1> HIDE DEF S, a, b, c
<1>3. /\ a \o b \in Seq(S) /\ Len(a \o b) = 5
      /\ \A i \in 1..5 : (a \o b)[i] = IF i <= 4 THEN a[i] ELSE b[i - 4]
    <2>1. /\ a \o b \in Seq(S) /\ Len(a \o b) = Len(a) + Len(b)
          /\ \A i \in 1..Len(a) + Len(b) :
                 (a \o b)[i] = IF i <= Len(a) THEN a[i] ELSE b[i - Len(a)]
        BY <1>1, ConcatProperties
    <2>2. Len(a) = 4 /\ Len(a) + Len(b) = 5
        BY <1>1
    <2>3. QED BY <2>1, <2>2
<1>4. \A i \in 1..5 : (a \o b)[i] = c[i]
    BY <1>2, <1>3
<1>5. a \o b = c
    BY <1>1, <1>3, <1>4, SeqEqual
<1>6. QED BY <1>5 DEF a, b, c

LEMMA FourAndTwo ==
    ASSUME NEW x1, NEW x2, NEW x3, NEW x4, NEW x5, NEW x6
    PROVE  <<x1, x2, x3, x4>> \o <<x5, x6>> = <<x1, x2, x3, x4, x5, x6>>
<1> DEFINE S == {x1, x2, x3, x4, x5, x6}
           a == <<x1, x2, x3, x4>>
           b == <<x5, x6>>
           c == <<x1, x2, x3, x4, x5, x6>>
<1>1. /\ a \in Seq(S) /\ b \in Seq(S) /\ c \in Seq(S)
      /\ Len(a) = 4 /\ Len(b) = 2 /\ Len(c) = 6
    OBVIOUS
<1>2. \A i \in 1..6 : IF i <= 4 THEN c[i] = a[i] ELSE c[i] = b[i - 4]
    <2>1. \A i \in 1..6 : i = 1 \/ i = 2 \/ i = 3 \/ i = 4 \/ i = 5 \/ i = 6
        OBVIOUS
    <2>2. QED BY <2>1
<1> HIDE DEF S, a, b, c
<1>3. /\ a \o b \in Seq(S) /\ Len(a \o b) = 6
      /\ \A i \in 1..6 : (a \o b)[i] = IF i <= 4 THEN a[i] ELSE b[i - 4]
    <2>1. /\ a \o b \in Seq(S) /\ Len(a \o b) = Len(a) + Len(b)
          /\ \A i \in 1..Len(a) + Len(b) :
                 (a \o b)[i] = IF i <= Len(a) THEN a[i] ELSE b[i - Len(a)]
        BY <1>1, ConcatProperties
    <2>2. Len(a) = 4 /\ Len(a) + Len(b) = 6
        BY <1>1
    <2>3. QED BY <2>1, <2>2
<1>4. \A i \in 1..6 : (a \o b)[i] = c[i]
    BY <1>2, <1>3
<1>5. a \o b = c
    BY <1>1, <1>3, <1>4, SeqEqual
<1>6. QED BY <1>5 DEF a, b, c

LEMMA WordsJoin ==
    /\ <<"/", "v1">> \o <<"/", "realtime", "/", "calls">>
           = <<"/", "v1", "/", "realtime", "/", "calls">>
    /\ <<"/", "v1">> \o <<"/", "realtime">> = <<"/", "v1", "/", "realtime">>
    /\ <<"/", "v1">> \o <<"/", "live">> = <<"/", "v1", "/", "live">>
    /\ <<"/", "realtime", "/", "calls">> \o <<"?">> = <<"/", "realtime", "/", "calls", "?">>
    /\ <<"/", "realtime">> \o <<"?", "intent", "&", "model">>
           = <<"/", "realtime", "?", "intent", "&", "model">>
    /\ <<"/", "live">> \o <<"?", "model">> = <<"/", "live", "?", "model">>
    /\ <<"https:", "/", "/", "public_api">> \o <<"/", "v1">> = SidebandApiRoot
<1>1. <<"/", "v1">> \o <<"/", "realtime", "/", "calls">>
           = <<"/", "v1", "/", "realtime", "/", "calls">>
    BY TwoAndFour
<1>2. <<"/", "v1">> \o <<"/", "realtime">> = <<"/", "v1", "/", "realtime">>
    BY TwoAndTwo
<1>3. <<"/", "v1">> \o <<"/", "live">> = <<"/", "v1", "/", "live">>
    BY TwoAndTwo
<1>4. <<"/", "realtime", "/", "calls">> \o <<"?">> = <<"/", "realtime", "/", "calls", "?">>
    BY FourAndOne
<1>5. <<"/", "realtime">> \o <<"?", "intent", "&", "model">>
           = <<"/", "realtime", "?", "intent", "&", "model">>
    BY TwoAndFour
<1>6. <<"/", "live">> \o <<"?", "model">> = <<"/", "live", "?", "model">>
    BY TwoAndTwo
<1>7. <<"https:", "/", "/", "public_api">> \o <<"/", "v1">> = SidebandApiRoot
    BY FourAndTwo DEF SidebandApiRoot
<1>8. QED BY <1>1, <1>2, <1>3, <1>4, <1>5, <1>6, <1>7

LEMMA WordsAreWords ==
    /\ <<"/", "v1">> \in Seq(Words)
    /\ <<"/", "realtime", "/", "calls">> \in Seq(Words)
    /\ <<"/", "realtime">> \in Seq(Words) /\ <<"/", "live">> \in Seq(Words)
    /\ <<"?">> \in Seq(Words) /\ <<"?", "intent", "&", "model">> \in Seq(Words)
    /\ <<"?", "model">> \in Seq(Words)
    /\ AvasQuery \in Seq(Words)
    /\ <<"https:", "/", "/", "public_api">> \in Seq(Words)
BY DEF Words, AvasQuery

\* The words of a query are not in a URL.
Unasked == {"?", "intent", "architecture"}
IsUnasked(url) == \A i \in 1..Len(url) : url[i] \notin Unasked

\* Where the elements of a concatenation come from.
IsJoined(a, b) ==
    /\ Len(a) \in Nat /\ Len(b) \in Nat /\ Len(a \o b) = Len(a) + Len(b)
    /\ \A i \in 1..Len(a) : (a \o b)[i] = a[i]
    /\ \A i \in 1..Len(b) : (a \o b)[Len(a) + i] = b[i]
    /\ \A i \in 1..Len(a \o b) : i \in 1..Len(a) \/ \E j \in 1..Len(b) : i = Len(a) + j

LEMMA JoinIs ==
    ASSUME NEW S, NEW a \in Seq(S), NEW b \in Seq(S)
    PROVE  a \o b \in Seq(S) /\ IsJoined(a, b)
<1>1. /\ a \o b \in Seq(S) /\ Len(a) \in Nat /\ Len(b) \in Nat
      /\ Len(a \o b) = Len(a) + Len(b)
      /\ \A i \in 1..Len(a) : (a \o b)[i] = a[i]
      /\ \A i \in 1..Len(b) : (a \o b)[Len(a) + i] = b[i]
    OBVIOUS
<1>2. ASSUME NEW i \in 1..Len(a \o b), i \notin 1..Len(a)
      PROVE  \E j \in 1..Len(b) : i = Len(a) + j
    <2>1. i - Len(a) \in 1..Len(b) /\ i = Len(a) + (i - Len(a))
        BY <1>1, <1>2
    <2>2. QED BY <2>1
<1>3. QED BY <1>1, <1>2 DEF IsJoined

LEMMA UnaskedJoin ==
    ASSUME NEW S, NEW a \in Seq(S), NEW b \in Seq(S), IsUnasked(a), IsUnasked(b)
    PROVE  IsUnasked(a \o b)
BY JoinIs DEF IsJoined, IsUnasked

LEMMA SchemeJoins ==
    ASSUME NEW S, Words \subseteq S, NEW a \in Seq(S), NEW b \in Seq(S), Len(a) >= 1
    PROVE  /\ ToWebSocketScheme(a \o b) = ToWebSocketScheme(a) \o b
           /\ ToWebSocketScheme(a) \in Seq(S)
<1>1. /\ (a \o b)[1] = a[1] /\ Tail(a \o b) = Tail(a) \o b /\ Tail(a) \in Seq(S)
    <2>1. (a \o b)[1] = a[1] /\ Tail(a) \in Seq(S) /\ a # <<>>
        BY JoinIs DEF IsJoined
    <2>2. Tail(a \o b) = Tail(a) \o b
        <3>1. /\ Tail(a \o b) \in Seq(S) /\ Len(Tail(a \o b)) = Len(a) + Len(b) - 1
              /\ \A i \in 1..Len(a) + Len(b) - 1 : Tail(a \o b)[i] = (a \o b)[i + 1]
            BY <2>1
        <3>2. /\ Tail(a) \o b \in Seq(S) /\ Len(Tail(a) \o b) = Len(a) + Len(b) - 1
              /\ \A i \in 1..Len(a) + Len(b) - 1 : (Tail(a) \o b)[i] = (a \o b)[i + 1]
            BY <2>1
        <3>3. \A i \in 1..Len(Tail(a \o b)) : Tail(a \o b)[i] = (Tail(a) \o b)[i]
            BY <3>1, <3>2
        <3>4. QED BY <3>1, <3>2, <3>3, SeqEqual
    <2>3. QED BY <2>1, <2>2
<1>2. <<"wss:">> \in Seq(S) /\ <<"ws:">> \in Seq(S)
    BY DEF Words
<1>3. /\ <<"wss:">> \o (Tail(a) \o b) = (<<"wss:">> \o Tail(a)) \o b
      /\ <<"ws:">> \o (Tail(a) \o b) = (<<"ws:">> \o Tail(a)) \o b
    BY <1>1, <1>2, ConcatAssociative
<1>4. <<"wss:">> \o Tail(a) \in Seq(S) /\ <<"ws:">> \o Tail(a) \in Seq(S)
    BY <1>1, <1>2
<1> DEFINE url == a \o b
<1> HIDE DEF url
<1>5. CASE a[1] = "https:"
    BY <1>1, <1>3, <1>4, <1>5 DEF ToWebSocketScheme
<1>6. CASE a[1] = "http:"
    BY <1>1, <1>3, <1>4, <1>6 DEF ToWebSocketScheme
<1>7. CASE a[1] # "https:" /\ a[1] # "http:"
    BY <1>1, <1>7 DEF ToWebSocketScheme
<1>8. QED BY <1>5, <1>6, <1>7

\* A base without its slashes, and without the /v1 after it.
IsStem(base, stem, S) ==
    /\ stem \in Seq(S) /\ Len(stem) >= 4 /\ stem[4] = base[4] /\ IsUnasked(stem)
    /\ TrimEnd(base) = IF EndsInV1(TrimEnd(base)) THEN stem \o <<"/", "v1">> ELSE stem

LEMMA StemsAre ==
    ASSUME NEW S, Words \subseteq S, NEW base \in Seq(S), IsBase(base)
    PROVE  IsStem(base, StripV1Suffix(base), S)
<1> DEFINE bare == TrimEnd(base)
           stem == StripV1Suffix(base)
           L == Len(base)
<1>1. L \in Nat /\ 4 \in 1..L /\ base[4] # "/" /\ base[4] # "v1"
    BY DEF IsBase
<1>2. PICK m \in 4..L : /\ base[m] # "/" /\ bare \in Seq(S) /\ Len(bare) = m
                        /\ \A i \in 1..m : bare[i] = base[i]
    BY <1>1, TrimEndIs
<1>3. m \in Nat /\ m >= 4 /\ m <= L
    BY <1>1, <1>2
<1>4. \A i \in 1..L : base[i] \notin Unasked
    BY DEF IsBase, Unasked
<1>5. stem = IF EndsInV1(bare) THEN SubSeq(bare, 1, Len(bare) - 2) ELSE bare
    BY DEF StripV1Suffix
<1> HIDE DEF bare, stem, L
<1>6. CASE EndsInV1(bare)
    <2>1. bare[m] = "v1" /\ bare[m - 1] = "/"
        BY <1>2, <1>3, <1>6, EndsInV1Is
    <2>2. m >= 6
        <3>1. m # 4 /\ m - 1 # 4
            BY <1>1, <1>2, <1>3, <2>1
        <3>2. QED BY <1>3, <3>1
    <2>3. /\ stem = SubSeq(bare, 1, m - 2)
        BY <1>2, <1>5, <1>6
    <2>4. /\ stem \in Seq(S) /\ Len(stem) = m - 2 /\ \A i \in 1..(m - 2) : stem[i] = bare[i]
        BY <1>2, <1>3, <2>2, <2>3
    <2>5. IsUnasked(stem)
        <3>1. \A i \in 1..(m - 2) : i \in 1..m /\ i \in 1..L
            BY <1>1, <1>3
        <3>2. \A i \in 1..(m - 2) : stem[i] = base[i]
            BY <1>2, <2>4, <3>1
        <3>3. QED BY <1>4, <2>4, <3>1, <3>2 DEF IsUnasked
    <2>6. stem[4] = base[4]
        BY <1>2, <1>3, <2>2, <2>4
    <2>7. bare = stem \o <<"/", "v1">>
        <3>1. <<"/", "v1">> \in Seq(S) /\ Len(<<"/", "v1">>) = 2
            BY DEF Words
        <3>2. /\ stem \o <<"/", "v1">> \in Seq(S) /\ Len(stem \o <<"/", "v1">>) = m
              /\ \A i \in 1..m - 2 : (stem \o <<"/", "v1">>)[i] = stem[i]
              /\ (stem \o <<"/", "v1">>)[m - 2 + 1] = "/"
              /\ (stem \o <<"/", "v1">>)[m - 2 + 2] = "v1"
            <4> DEFINE end == <<"/", "v1">>
            <4>1. end \in Seq(S) /\ Len(end) = 2 /\ end[1] = "/" /\ end[2] = "v1"
                BY <3>1
            <4> HIDE DEF end
            <4>2. /\ stem \o end \in Seq(S) /\ Len(stem \o end) = Len(stem) + Len(end)
                  /\ \A i \in 1..Len(stem) : (stem \o end)[i] = stem[i]
                  /\ \A i \in 1..Len(end) : (stem \o end)[Len(stem) + i] = end[i]
                <5>1. stem \o end \in Seq(S) /\ IsJoined(stem, end)
                    BY <2>4, <4>1, JoinIs
                <5>2. QED BY <5>1 DEF IsJoined
            <4>3. 1 \in 1..Len(end) /\ 2 \in 1..Len(end) /\ Len(stem) + Len(end) = m
                BY <1>3, <2>4, <4>1
            <4>4. /\ stem \o end \in Seq(S) /\ Len(stem \o end) = m
                  /\ \A i \in 1..m - 2 : (stem \o end)[i] = stem[i]
                  /\ (stem \o end)[m - 2 + 1] = "/" /\ (stem \o end)[m - 2 + 2] = "v1"
                <5>1. (stem \o end)[Len(stem) + 1] = end[1] /\ (stem \o end)[Len(stem) + 2] = end[2]
                    BY <4>2, <4>3
                <5>2. Len(stem) = m - 2 /\ Len(stem \o end) = m
                    BY <2>4, <4>2, <4>3
                <5> DEFINE joined == stem \o end
                <5> HIDE DEF joined
                <5>3. joined[m - 2 + 1] = "/" /\ joined[m - 2 + 2] = "v1"
                    BY <4>1, <5>1, <5>2 DEF joined
                <5>4. QED BY <4>2, <5>2, <5>3 DEF joined
            <4>5. QED BY <4>4 DEF end
        <3>3. \A i \in 1..m : i \in 1..m - 2 \/ i = m - 1 \/ i = m
            BY <1>3
        <3>4. m - 2 + 1 = m - 1 /\ m - 2 + 2 = m
            BY <1>3
        <3>5. \A i \in 1..m : (stem \o <<"/", "v1">>)[i] = bare[i]
            BY <2>1, <2>4, <3>2, <3>3, <3>4
        <3>6. QED BY <1>2, <3>2, <3>5, SeqEqual
    <2>8. QED BY <1>3, <1>6, <2>2, <2>4, <2>5, <2>6, <2>7 DEF IsStem, bare, stem
<1>7. CASE ~EndsInV1(bare)
    <2>1. stem = bare
        BY <1>5, <1>7
    <2>2. IsUnasked(bare)
        <3>1. \A i \in 1..m : i \in 1..L
            BY <1>1, <1>3
        <3>2. QED BY <1>2, <1>4, <3>1 DEF IsUnasked
    <2>3. bare[4] = base[4]
        BY <1>2, <1>3
    <2>4. QED BY <1>2, <1>3, <1>7, <2>1, <2>2, <2>3 DEF IsStem, bare, stem
<1>8. QED BY <1>6, <1>7

\* The root every official route is under.
Root(base) ==
    IF EndsInV1(TrimEnd(base)) THEN TrimEnd(base) ELSE TrimEnd(base) \o <<"/", "v1">>

LEMMA WordsInS ==
    ASSUME NEW S, Words \subseteq S
    PROVE  /\ <<"/", "v1">> \in Seq(S)
           /\ <<"/", "realtime", "/", "calls">> \in Seq(S)
           /\ <<"/", "realtime">> \in Seq(S) /\ <<"/", "live">> \in Seq(S)
           /\ <<"?">> \in Seq(S) /\ <<"?", "intent", "&", "model">> \in Seq(S)
           /\ <<"?", "model">> \in Seq(S)
           /\ AvasQuery \in Seq(S)
           /\ <<"https:", "/", "/", "public_api">> \in Seq(S)
BY WordsAreWords, SeqMonotonic

LEMMA RootIs ==
    ASSUME NEW S, NEW base, NEW stem, IsStem(base, stem, S)
    PROVE  Root(base) = stem \o <<"/", "v1">>
BY DEF IsStem, Root

LEMMA OfficialIs ==
    ASSUME NEW S, Words \subseteq S, NEW base, NEW stem, IsStem(base, stem, S),
           NEW rest \in Seq(S)
    PROVE  OfficialUrl(base, <<"/", "v1">> \o rest) = stem \o (<<"/", "v1">> \o rest)
<1> DEFINE v1 == <<"/", "v1">>
           bare == TrimEnd(base)
           inbound == v1 \o rest
<1>1. v1 \in Seq(S) /\ Len(v1) = 2 /\ stem \in Seq(S)
    BY WordsInS DEF IsStem
<1>2. bare = IF EndsInV1(bare) THEN stem \o v1 ELSE stem
    BY DEF IsStem
<1>3. OfficialUrl(base, inbound)
          = bare \o (IF EndsInV1(bare) THEN SubSeq(inbound, 3, Len(inbound)) ELSE inbound)
    BY DEF OfficialUrl
<1> HIDE DEF v1, bare
<1>4. (stem \o v1) \o rest = stem \o inbound
    BY <1>1, ConcatAssociative
<1>5. SubSeq(inbound, 3, Len(inbound)) = rest
    <2>1. inbound \in Seq(S) /\ Len(inbound) = 2 + Len(rest) /\ Len(rest) \in Nat
          /\ \A i \in 1..Len(rest) : inbound[2 + i] = rest[i]
        <3>1. inbound \in Seq(S) /\ IsJoined(v1, rest)
            BY <1>1, JoinIs
        <3>2. QED BY <1>1, <3>1 DEF IsJoined
    <2> HIDE DEF inbound
    <2>2. /\ SubSeq(inbound, 3, Len(inbound)) \in Seq(S)
          /\ Len(SubSeq(inbound, 3, Len(inbound))) = Len(rest)
          /\ \A i \in 1..Len(rest) : SubSeq(inbound, 3, Len(inbound))[i] = inbound[2 + i]
        BY <2>1
    <2>3. \A i \in 1..Len(rest) : SubSeq(inbound, 3, Len(inbound))[i] = rest[i]
        BY <2>1, <2>2
    <2>4. QED BY <2>2, <2>3, SeqEqual
<1>6. QED BY <1>2, <1>3, <1>4, <1>5 DEF inbound, v1

LEMMA AvasIs ==
    ASSUME NEW S, NEW url \in Seq(S), IsUnasked(url)
    PROVE  WithAvasQuery(url) = url \o <<"?">> \o AvasQuery
<1>1. "intent" \notin Range(url) /\ "?" \notin Range(url)
    BY DEF IsUnasked, Unasked, Range
<1>2. QED BY <1>1 DEF WithAvasQuery

\* Neither word of the query is in a URL.
HasNoQuery(url) == \A i \in 1..Len(url) : url[i] \notin {"intent", "architecture"}

LEMMA AskedOnce ==
    ASSUME NEW S, Words \subseteq S, NEW url \in Seq(S), HasNoQuery(url),
           NEW token \in {"intent", "architecture"}
    PROVE  Cardinality({i \in DOMAIN (url \o AvasQuery) : (url \o AvasQuery)[i] = token}) = 1
<1> DEFINE asked == url \o AvasQuery
           L == Len(url)
           k == IF token = "intent" THEN 1 ELSE 3
           at == {i \in DOMAIN asked : asked[i] = token}
<1>1. /\ AvasQuery \in Seq(S) /\ Len(AvasQuery) = 3 /\ k \in 1..3
      /\ \A j \in 1..3 : AvasQuery[j] = token <=> j = k
    <2>1. \A j \in 1..3 : j = 1 \/ j = 2 \/ j = 3
        OBVIOUS
    <2>2. Len(AvasQuery) = 3 /\ \A j \in 1..3 : AvasQuery[j] = token <=> j = k
        BY <2>1 DEF AvasQuery
    <2>3. QED BY <2>2, WordsInS
<1> HIDE DEF k
<1>2. asked \in Seq(S) /\ IsJoined(url, AvasQuery)
    BY <1>1, JoinIs
<1>3. /\ L \in Nat /\ DOMAIN asked = 1..(L + 3) /\ Len(asked) = L + 3
      /\ \A i \in 1..L : asked[i] # token
      /\ \A j \in 1..3 : asked[L + j] = AvasQuery[j]
      /\ \A i \in 1..(L + 3) : i \in 1..L \/ \E j \in 1..3 : i = L + j
    <2>1. L \in Nat /\ Len(asked) = L + 3
        BY <1>1, <1>2 DEF IsJoined
    <2>2. DOMAIN asked = 1..(L + 3)
        BY <1>2, <2>1
    <2>3. \A i \in 1..L : asked[i] = url[i]
        BY <1>2 DEF IsJoined
    <2>4. \A i \in 1..L : asked[i] # token
        BY <2>3 DEF HasNoQuery
    <2>5. \A j \in 1..3 : asked[L + j] = AvasQuery[j]
        BY <1>1, <1>2 DEF IsJoined
    <2>6. \A i \in 1..(L + 3) : i \in 1..L \/ \E j \in 1..3 : i = L + j
        BY <1>1, <1>2, <2>1 DEF IsJoined
    <2>7. QED BY <2>1, <2>2, <2>4, <2>5, <2>6
<1> HIDE DEF asked, L
<1>4. at = {L + k}
    <2>1. L + k \in DOMAIN asked /\ asked[L + k] = token
        BY <1>1, <1>3
    <2>2. ASSUME NEW i \in DOMAIN asked, asked[i] = token PROVE i = L + k
        <3>1. PICK j \in 1..3 : i = L + j
            BY <1>3, <2>2
        <3>2. AvasQuery[j] = token
            BY <1>3, <2>2, <3>1
        <3>3. QED BY <1>1, <3>1, <3>2
    <2>3. QED BY <2>1, <2>2
<1>5. Cardinality({L + k}) = 1
    BY FS_Singleton
<1>6. QED BY <1>4, <1>5 DEF asked

LEMMA NotAsked ==
    ASSUME NEW S, NEW url \in Seq(S), HasNoQuery(url), NEW token \in {"intent", "architecture"}
    PROVE  Cardinality({i \in DOMAIN url : url[i] = token}) = 0
<1>1. {i \in DOMAIN url : url[i] = token} = {}
    BY DEF HasNoQuery
<1>2. QED BY <1>1, FS_EmptySet

LEMMA PrefixOfJoin ==
    ASSUME NEW S, NEW a \in Seq(S), NEW b \in Seq(S)
    PROVE  IsPrefix(a, a \o b) /\ SubSeq(a \o b, 1, Len(a)) = a
<1>1. a \o b \in Seq(S) /\ IsJoined(a, b)
    BY JoinIs
<1> DEFINE c == a \o b
<1>2. /\ c \in Seq(S) /\ Len(a) \in Nat /\ Len(a) <= Len(c) /\ \A i \in 1..Len(a) : c[i] = a[i]
    BY <1>1 DEF IsJoined
<1> HIDE DEF c
<1>3. SubSeq(a, 1, Len(a)) = a
    OBVIOUS
<1>4. SubSeq(c, 1, Len(a)) = a
    <2>1. /\ SubSeq(c, 1, Len(a)) \in Seq(S) /\ Len(SubSeq(c, 1, Len(a))) = Len(a)
          /\ \A i \in 1..Len(a) : SubSeq(c, 1, Len(a))[i] = c[i]
        BY <1>2
    <2>2. \A i \in 1..Len(a) : SubSeq(c, 1, Len(a))[i] = a[i]
        BY <1>2, <2>1
    <2>3. QED BY <2>1, <2>2, SeqEqual
<1>5. QED BY <1>2, <1>3, <1>4 DEF IsPrefix, c

\* What a private call is created under.
Under(base, backend) == IF backend THEN TrimEnd(base) ELSE Root(base)

\* The URL a private call is created at.
IsMadeAt(url, base, stem, backend, dialect) ==
    url = IF dialect = "v1" \/ backend
          THEN Under(base, backend) \o <<"/", "realtime", "/", "calls", "?">> \o AvasQuery
          ELSE stem \o <<"/", "v1", "/", "live">>

\* A URL of the base: the host is the base's, and nothing is asked.
IsUnder(url, base, S) == url \in Seq(S) /\ Len(url) >= 4 /\ url[4] = base[4] /\ IsUnasked(url)

LEMMA WordsUnasked ==
    /\ IsUnasked(<<"/", "v1">>) /\ IsUnasked(<<"/", "realtime", "/", "calls">>)
    /\ IsUnasked(<<"/", "live">>)
<1>1. \A i \in 1..2 : i = 1 \/ i = 2
    OBVIOUS
<1>2. \A i \in 1..4 : i = 1 \/ i = 2 \/ i = 3 \/ i = 4
    OBVIOUS
<1>3. IsUnasked(<<"/", "v1">>)
    BY <1>1 DEF IsUnasked, Unasked
<1>4. IsUnasked(<<"/", "realtime", "/", "calls">>)
    BY <1>2 DEF IsUnasked, Unasked
<1>5. IsUnasked(<<"/", "live">>)
    BY <1>1 DEF IsUnasked, Unasked
<1>6. QED BY <1>3, <1>4, <1>5

LEMMA JoinStays ==
    ASSUME NEW S, NEW base, NEW url, IsUnder(url, base, S), NEW path \in Seq(S), IsUnasked(path)
    PROVE  IsUnder(url \o path, base, S)
<1>1. url \in Seq(S) /\ Len(url) >= 4 /\ url[4] = base[4] /\ IsUnasked(url)
    BY DEF IsUnder
<1>2. url \o path \in Seq(S) /\ IsJoined(url, path) /\ IsUnasked(url \o path)
    BY <1>1, JoinIs, UnaskedJoin
<1>3. 4 \in 1..Len(url)
    BY <1>1
<1>4. (url \o path)[4] = base[4] /\ Len(url \o path) >= 4
    BY <1>1, <1>2, <1>3 DEF IsJoined
<1>5. QED BY <1>2, <1>4 DEF IsUnder

\* Where a private call is created: with the query, and without.
LEMMA CallsAreMadeAt ==
    ASSUME NEW S, Words \subseteq S, NEW base, NEW stem, IsStem(base, stem, S),
           stem = StripV1Suffix(base), NEW backend \in BOOLEAN, NEW dialect
    PROVE  /\ IsMadeAt(PrivateCallCreateUrl(base, backend, dialect), base, stem, backend,
                       dialect)
           /\ IsUnder(Under(base, backend), base, S) /\ IsUnder(stem, base, S)
<1> DEFINE v1 == <<"/", "v1">>
           calls == <<"/", "realtime", "/", "calls">>
           under == Under(base, backend)
           bare == TrimEnd(base)
           create == PrivateCallCreateUrl(base, backend, dialect)
           wants == dialect = "v1" \/ backend
<1>1. v1 \in Seq(S) /\ calls \in Seq(S) /\ <<"?">> \in Seq(S) /\ IsUnasked(v1) /\ IsUnasked(calls)
    BY WordsInS, WordsUnasked
<1>2. IsUnder(stem, base, S) /\ stem \in Seq(S)
    BY DEF IsStem, IsUnder
<1>3. v1 \o calls = <<"/", "v1", "/", "realtime", "/", "calls">>
      /\ calls \o <<"?">> = <<"/", "realtime", "/", "calls", "?">>
    BY WordsJoin
<1>4. Root(base) = stem \o v1
    BY RootIs
<1>5. bare = IF EndsInV1(bare) THEN stem \o v1 ELSE stem
    BY DEF IsStem
<1>6. /\ wants => create = IF backend THEN WithAvasQuery(bare \o calls)
                           ELSE WithAvasQuery(stem \o (v1 \o calls))
      /\ ~wants => create = stem \o <<"/", "v1", "/", "live">>
    BY <1>3 DEF PrivateCallCreateUrl
<1>7. under = IF backend THEN bare ELSE stem \o v1
    BY <1>4 DEF Under
<1> HIDE DEF v1, calls, bare, create, wants, under
<1>8. IsUnder(stem \o v1, base, S)
    BY <1>1, <1>2, JoinStays
<1>9. IsUnder(bare, base, S)
    BY <1>2, <1>5, <1>8
<1>10. IsUnder(under, base, S)
    BY <1>7, <1>8, <1>9
<1>11. stem \o (v1 \o calls) = (stem \o v1) \o calls
    BY <1>1, <1>2, ConcatAssociative
<1>12. wants => create = WithAvasQuery(under \o calls)
    BY <1>6, <1>7, <1>11
<1>13. IsUnder(under \o calls, base, S)
    BY <1>1, <1>10, JoinStays
<1>14. WithAvasQuery(under \o calls) = (under \o calls) \o <<"?">> \o AvasQuery
    BY <1>13, AvasIs DEF IsUnder
<1>15. (under \o calls) \o <<"?">> = under \o (calls \o <<"?">>)
    BY <1>1, <1>10, ConcatAssociative DEF IsUnder
<1>16. wants => create = under \o <<"/", "realtime", "/", "calls", "?">> \o AvasQuery
    BY <1>3, <1>12, <1>14, <1>15
<1>17. QED BY <1>2, <1>6, <1>10, <1>16 DEF create, wants, under, IsMadeAt

\* At the host of the base, with the query of the architecture said once or not at all.
IsAskedAt(create, base, wants) ==
    /\ \A token \in {"intent", "architecture"} :
           Cardinality({i \in DOMAIN create : create[i] = token}) = IF wants THEN 1 ELSE 0
    /\ create[4] = base[4]

\* A call is asked for as the builder of its dialect does, at the host of the base.
LEMMA CallsAreAsked ==
    ASSUME NEW S, Words \subseteq S, NEW base, NEW stem, IsStem(base, stem, S),
           stem = StripV1Suffix(base), NEW backend \in BOOLEAN, NEW dialect,
           NEW create, create = PrivateCallCreateUrl(base, backend, dialect)
    PROVE  IsAskedAt(create, base, dialect = "v1" \/ backend)
<1> DEFINE under == Under(base, backend)
           asked == <<"/", "realtime", "/", "calls", "?">>
           live == <<"/", "v1", "/", "live">>
<1>1. IsUnder(under, base, S) /\ IsUnder(stem, base, S)
    BY CallsAreMadeAt
<1>2. under \in Seq(S) /\ Len(under) >= 4 /\ under[4] = base[4] /\ IsUnasked(under)
    BY <1>1 DEF IsUnder
<1>3. asked \in Seq(S) /\ HasNoQuery(asked)
    <2>1. "/" \in S /\ "realtime" \in S /\ "calls" \in S /\ "?" \in S
        BY DEF Words
    <2>2. asked \in Seq(S) /\ Len(asked) = 5
        BY <2>1
    <2>3. \A i \in 1..5 : i = 1 \/ i = 2 \/ i = 3 \/ i = 4 \/ i = 5
        OBVIOUS
    <2>4. QED BY <2>2, <2>3 DEF HasNoQuery
<1>4. live \in Seq(S) /\ IsUnasked(live)
    <2>1. live = <<"/", "v1">> \o <<"/", "live">>
        BY WordsJoin
    <2>2. /\ <<"/", "v1">> \in Seq(S) /\ <<"/", "live">> \in Seq(S)
          /\ IsUnasked(<<"/", "v1">>) /\ IsUnasked(<<"/", "live">>)
        BY WordsInS, WordsUnasked
    <2> DEFINE a == <<"/", "v1">>
               b == <<"/", "live">>
    <2> HIDE DEF a, b
    <2>3. a \in Seq(S) /\ b \in Seq(S) /\ IsUnasked(a) /\ IsUnasked(b)
        BY <2>2 DEF a, b
    <2>4. a \o b \in Seq(S) /\ IsUnasked(a \o b)
        BY <2>3, JoinIs, UnaskedJoin
    <2>5. QED BY <2>1, <2>4 DEF a, b
<1>5. AvasQuery \in Seq(S)
    BY WordsInS
<1>6. create = IF dialect = "v1" \/ backend THEN under \o asked \o AvasQuery ELSE stem \o live
    <2>1. IsMadeAt(create, base, stem, backend, dialect)
        BY CallsAreMadeAt
    <2>2. QED BY <2>1 DEF IsMadeAt
<1> HIDE DEF under, asked, live
<1>7. CASE dialect = "v1" \/ backend
    <2> DEFINE begun == under \o asked
    <2>1. create = begun \o AvasQuery
        BY <1>7, <1>6
    <2>2. begun \in Seq(S) /\ IsJoined(under, asked)
        BY <1>2, <1>3, JoinIs
    <2>3. HasNoQuery(begun)
        <3>1. HasNoQuery(under)
            BY <1>2 DEF IsUnasked, Unasked, HasNoQuery
        <3>2. QED BY <1>3, <2>2, <3>1 DEF HasNoQuery, IsJoined
    <2>4. begun[4] = base[4] /\ Len(begun) >= 4
        <3>1. 4 \in 1..Len(under)
            BY <1>2
        <3>2. QED BY <1>2, <2>2, <3>1 DEF IsJoined
    <2> HIDE DEF begun
    <2>5. create[4] = base[4]
        <3>1. IsJoined(begun, AvasQuery) /\ 4 \in 1..Len(begun)
            BY <1>5, <2>2, <2>4, JoinIs
        <3>2. QED BY <2>1, <2>4, <3>1 DEF IsJoined
    <2>6. \A token \in {"intent", "architecture"} :
              Cardinality({i \in DOMAIN create : create[i] = token}) = 1
        <3>1. \A token \in {"intent", "architecture"} :
                  Cardinality({i \in DOMAIN (begun \o AvasQuery) :
                                   (begun \o AvasQuery)[i] = token}) = 1
            BY <2>2, <2>3, AskedOnce, Zenon
        <3>2. QED BY <2>1, <3>1, Zenon
    <2>7. QED BY <1>7, <2>5, <2>6 DEF IsAskedAt
<1>8. CASE ~(dialect = "v1" \/ backend)
    <2>1. create = stem \o live
        BY <1>8, <1>6
    <2>2. IsUnder(create, base, S)
        BY <1>1, <1>4, <2>1, JoinStays
    <2>3. HasNoQuery(create) /\ create \in Seq(S) /\ create[4] = base[4]
        BY <2>2 DEF IsUnder, IsUnasked, Unasked, HasNoQuery
    <2>4. \A token \in {"intent", "architecture"} :
              Cardinality({i \in DOMAIN create : create[i] = token}) = 0
        BY <2>3, NotAsked, ZenonT(40)
    <2>5. QED BY <1>8, <2>3, <2>4 DEF IsAskedAt
<1>9. QED BY <1>7, <1>8

\* An inbound path the builders are asked for, below /v1.
LEMMA OfficialAgrees ==
    ASSUME NEW S, Words \subseteq S, NEW base, NEW stem, IsStem(base, stem, S),
           NEW rest \in Seq(S)
    PROVE  /\ OfficialUrl(base, <<"/", "v1">> \o rest) = Root(base) \o rest
           /\ OfficialWebSocketUrl(base, <<"/", "v1">> \o rest)
                  = ToWebSocketScheme(Root(base) \o rest)
<1> DEFINE v1 == <<"/", "v1">>
<1>1. OfficialUrl(base, v1 \o rest) = stem \o (v1 \o rest)
    BY OfficialIs
<1>2. Root(base) = stem \o v1
    BY RootIs
<1>3. v1 \in Seq(S) /\ stem \in Seq(S)
    BY WordsInS DEF IsStem
<1> HIDE DEF v1
<1>4. (stem \o v1) \o rest = stem \o (v1 \o rest)
    BY <1>3, ConcatAssociative
<1>5. OfficialUrl(base, v1 \o rest) = Root(base) \o rest
    BY <1>1, <1>2, <1>4
<1>6. QED BY <1>5 DEF OfficialWebSocketUrl, v1

\* The root of a private join, and what is before its /v1.
LEMMA JoinRootIs ==
    ASSUME NEW S, Words \subseteq S, NEW base, NEW stem, IsStem(base, stem, S),
           stem = StripV1Suffix(base), NEW backend \in BOOLEAN
    PROVE  \E before \in Seq(S) :
               /\ Len(before) >= 1 /\ JoinRoot(base, backend) = before \o <<"/", "v1">>
               /\ before \o <<"/", "v1">> = IF backend THEN SidebandApiRoot ELSE Root(base)
<1> DEFINE public == <<"https:", "/", "/", "public_api">>
<1>1. public \in Seq(S) /\ Len(public) >= 1 /\ public \o <<"/", "v1">> = SidebandApiRoot
    BY WordsInS, WordsJoin
<1>2. stem \in Seq(S) /\ Len(stem) >= 1 /\ Root(base) = stem \o <<"/", "v1">>
    <2>1. stem \in Seq(S) /\ Len(stem) >= 4
        BY DEF IsStem
    <2>2. Root(base) = stem \o <<"/", "v1">>
        BY RootIs
    <2>3. QED BY <2>1, <2>2
<1>3. CASE backend
    BY <1>1, <1>3 DEF JoinRoot
<1>4. CASE ~backend
    BY <1>2, <1>4 DEF JoinRoot
<1>5. QED BY <1>3, <1>4

\* A socket of the dialect is joined at the path its adapter promises.
LEMMA SocketsAreJoinedAt ==
    ASSUME NEW S, Words \subseteq S, NEW base, NEW stem, IsStem(base, stem, S),
           stem = StripV1Suffix(base), NEW backend \in BOOLEAN,
           NEW dialect \in {"v1", "frameless"},
           NEW root, root = IF backend THEN SidebandApiRoot ELSE Root(base)
    PROVE  IsPrefix(ToWebSocketScheme(SubSeq(root, 1, Len(root) - 2))
                        \o StandaloneWsPath(dialect),
                    PrivateWebSocketUrl(base, backend, dialect, "standalone"))
<1> DEFINE v1 == <<"/", "v1">>
           socket == PrivateWebSocketUrl(base, backend, dialect, "standalone")
           head == IF dialect = "v1" THEN <<"/", "realtime">> ELSE <<"/", "live">>
           query == IF dialect = "v1" THEN <<"?", "intent", "&", "model">> ELSE <<"?", "model">>
           path == StandaloneWsPath(dialect)
           tail == IF dialect = "v1" THEN <<"/", "realtime", "?", "intent", "&", "model">>
                   ELSE <<"/", "live", "?", "model">>
<1>1. v1 \in Seq(S) /\ Len(v1) = 2 /\ head \in Seq(S) /\ query \in Seq(S)
    BY WordsInS
<1>2. path = v1 \o head /\ tail = head \o query
    BY WordsJoin DEF StandaloneWsPath
<1>3. socket = ToWebSocketScheme(JoinRoot(base, backend) \o tail)
    BY DEF PrivateWebSocketUrl
<1>4. PICK before \in Seq(S) :
          Len(before) >= 1 /\ JoinRoot(base, backend) = before \o v1 /\ before \o v1 = root
    BY JoinRootIs
<1> HIDE DEF v1, socket, head, query, path, tail
<1>5. SubSeq(root, 1, Len(root) - 2) = before
    <2>1. Len(before \o v1) - 2 = Len(before)
        <3>1. IsJoined(before, v1) /\ Len(before) \in Nat
            BY <1>1, <1>4, JoinIs
        <3>2. QED BY <1>1, <3>1 DEF IsJoined
    <2>2. SubSeq(before \o v1, 1, Len(before)) = before
        BY <1>1, <1>4, PrefixOfJoin
    <2>3. QED BY <1>4, <2>1, <2>2
<1> DEFINE begun == ToWebSocketScheme(before)
<1>6. begun \in Seq(S)
    BY <1>1, <1>4, SchemeJoins
<1>7. path \in Seq(S) /\ tail \in Seq(S) /\ v1 \o tail \in Seq(S) /\ v1 \o tail = path \o query
    <2>1. (v1 \o head) \o query = v1 \o (head \o query)
        BY <1>1, ConcatAssociative
    <2>2. v1 \o head \in Seq(S) /\ head \o query \in Seq(S)
        BY <1>1, JoinIs
    <2>3. v1 \o tail \in Seq(S)
        BY <1>1, <1>2, <2>2, JoinIs
    <2>4. QED BY <1>2, <2>1, <2>2, <2>3
<1>8. socket = begun \o (v1 \o tail)
    <2>1. (before \o v1) \o tail = before \o (v1 \o tail)
        <3>1. before \in Seq(S) /\ v1 \in Seq(S) /\ tail \in Seq(S)
            BY <1>1, <1>4, <1>7
        <3>2. QED BY <3>1, ConcatAssociative
    <2>2. ToWebSocketScheme(before \o (v1 \o tail)) = begun \o (v1 \o tail)
        BY <1>4, <1>7, SchemeJoins
    <2>3. QED BY <1>3, <1>4, <2>1, <2>2
<1> HIDE DEF begun
<1>9. socket = (begun \o path) \o query /\ begun \o path \in Seq(S)
    <2>1. (begun \o path) \o query = begun \o (path \o query)
        <3>1. begun \in Seq(S) /\ path \in Seq(S) /\ query \in Seq(S)
            BY <1>1, <1>6, <1>7
        <3>2. QED BY <3>1, ConcatAssociative
    <2>2. begun \o path \in Seq(S)
        BY <1>6, <1>7, JoinIs
    <2>3. QED BY <1>7, <1>8, <2>1, <2>2
<1>10. IsPrefix(begun \o path, (begun \o path) \o query)
    BY <1>1, <1>9, PrefixOfJoin
<1>11. QED BY <1>5, <1>9, <1>10 DEF begun, path, socket

\* One join, two builders: the handler that dials a call's socket and the one that
\* dials its sideband.
LEMMA JoinsAreOne ==
    ASSUME NEW base, NEW backend,
           NEW pair \in {<<"v1", "RealtimeQuery">>, <<"frameless", "FramelessPath">>}
    PROVE  PrivateWebSocketUrl(base, backend, pair[1], "existing_call")
               = SidebandUpstreamUrl(base, backend, pair[2])
<1>1. CASE pair = <<"v1", "RealtimeQuery">>
    BY <1>1 DEF PrivateWebSocketUrl, SidebandUpstreamUrl
<1>2. CASE pair = <<"frameless", "FramelessPath">>
    BY <1>2 DEF PrivateWebSocketUrl, SidebandUpstreamUrl
<1>3. QED BY <1>1, <1>2

\* What the query of the architecture says.
LEMMA AvasTokens == Range(AvasQuery) \ {"&"} = {"intent", "architecture"}
<1>1. \A i \in 1..3 : i = 1 \/ i = 2 \/ i = 3
    OBVIOUS
<1>2. /\ DOMAIN AvasQuery = 1..3
      /\ AvasQuery[1] = "intent" /\ AvasQuery[2] = "&" /\ AvasQuery[3] = "architecture"
    BY DEF AvasQuery
<1>3. Range(AvasQuery) = {AvasQuery[i] : i \in 1..3}
    BY <1>2 DEF Range
<1>4. QED BY <1>1, <1>2, <1>3

\* Whatever base startup accepted, with or without slashes after it and with or
\* without /v1, every builder leads to one host and one path.
THEOREM OneAddressForAll ==
    ASSUME NEW S, Words \subseteq S, NEW base \in Seq(S), IsBase(base), NEW backend \in BOOLEAN
    PROVE  AddressesAgree(base, backend)
<1> DEFINE stem == StripV1Suffix(base)
           calls == <<"/", "v1", "/", "realtime", "/", "calls">>
           root == Root(base)
           joined == IF backend THEN SidebandApiRoot ELSE root
<1>1. IsStem(base, stem, S)
    BY StemsAre
<1> HIDE DEF stem
<1>2. OfficialUrl(base, calls) = root \o <<"/", "realtime", "/", "calls">>
    <2>1. <<"/", "realtime", "/", "calls">> \in Seq(S)
        BY WordsInS
    <2>2. OfficialUrl(base, <<"/", "v1">> \o <<"/", "realtime", "/", "calls">>)
              = root \o <<"/", "realtime", "/", "calls">>
        BY <1>1, <2>1, OfficialAgrees
    <2>3. QED BY <2>2, WordsJoin
<1>3. OfficialWebSocketUrl(base, <<"/", "v1", "/", "realtime">>)
          = ToWebSocketScheme(root \o <<"/", "realtime">>)
    <2>1. <<"/", "realtime">> \in Seq(S)
        BY WordsInS
    <2>2. OfficialWebSocketUrl(base, <<"/", "v1">> \o <<"/", "realtime">>)
              = ToWebSocketScheme(root \o <<"/", "realtime">>)
        BY <1>1, <2>1, OfficialAgrees
    <2>3. QED BY <2>2, WordsJoin
<1>4. PrivateCallCreateUrl(base, backend, "v1")
          = (IF backend THEN TrimEnd(base) ELSE root)
                \o <<"/", "realtime", "/", "calls", "?">> \o AvasQuery
    <2>1. IsMadeAt(PrivateCallCreateUrl(base, backend, "v1"), base, stem, backend, "v1")
        BY <1>1, CallsAreMadeAt DEF stem
    <2>2. QED BY <2>1 DEF IsMadeAt, Under
<1>5. ASSUME NEW dialect \in {"v1", "frameless"}
      PROVE  LET create == PrivateCallCreateUrl(base, backend, dialect)
                 socket == PrivateWebSocketUrl(base, backend, dialect, "standalone")
                 wants == dialect = "v1" \/ backend
             IN  /\ \A token \in Range(AvasQuery) \ {"&"} :
                        Cardinality({i \in DOMAIN create : create[i] = token})
                            = (IF wants THEN 1 ELSE 0)
                 /\ UpstreamHostOf(create) = UpstreamHostOf(base)
                 /\ IsPrefix(ToWebSocketScheme(SubSeq(joined, 1, Len(joined) - 2))
                                 \o StandaloneWsPath(dialect), socket)
    <2> DEFINE create == PrivateCallCreateUrl(base, backend, dialect)
    <2>1. /\ \A token \in {"intent", "architecture"} :
                 Cardinality({i \in DOMAIN create : create[i] = token})
                     = IF dialect = "v1" \/ backend THEN 1 ELSE 0
          /\ create[4] = base[4]
        <3>1. IsAskedAt(create, base, dialect = "v1" \/ backend)
            BY <1>1, CallsAreAsked DEF stem
        <3>2. QED BY <3>1 DEF IsAskedAt
    <2>2. IsPrefix(ToWebSocketScheme(SubSeq(joined, 1, Len(joined) - 2))
                       \o StandaloneWsPath(dialect),
                   PrivateWebSocketUrl(base, backend, dialect, "standalone"))
        BY <1>1, SocketsAreJoinedAt DEF stem
    <2>3. Range(AvasQuery) \ {"&"} = {"intent", "architecture"}
        BY AvasTokens
    <2> HIDE DEF create
    <2>4. UpstreamHostOf(create) = UpstreamHostOf(base)
        BY <2>1 DEF UpstreamHostOf
    <2>5. QED BY <2>1, <2>2, <2>3, <2>4 DEF create
<1>6. \A pair \in {<<"v1", "RealtimeQuery">>, <<"frameless", "FramelessPath">>} :
          PrivateWebSocketUrl(base, backend, pair[1], "existing_call")
              = SidebandUpstreamUrl(base, backend, pair[2])
    BY JoinsAreOne
<1>7. QED
    BY <1>2, <1>3, <1>4, <1>5, <1>6, Zenon DEF AddressesAgree, Root

-----------------------------------------------------------------------------
(* The cases of MCDecisions *)

\* What the cases are of which the theorems below speak: a payload or a body is a
\* sequence, and a day carries the date that its number has.
IsDay(day) ==
    /\ day.days \in Nat /\ day.rem \in Nat /\ day.rem < 86400
    /\ day = [kind |-> "day", days |-> day.days, date |-> CivilFromDays(day.days), rem |-> day.rem]

\* A session that new leaves without a history.
NewSessions == [object : {TRUE}, type : Types, delegated : BOOLEAN, id : BOOLEAN, items : {{}}]

\* The sessions of MCDecisions are those of an adapter, and its histories sequences.
IsBuilt(c) ==
    /\ c.kind = "session" =>
           /\ c.adapter \in Adapters /\ c.session \in NewSessions
           /\ IsOf(c.session, c.adapter)
    /\ c.kind = "history" => c.items \in Seq(Seq(Nat))

\* An error of MCDecisions; a capability is refused to a profile that does not serve it.
IsError(c) ==
    /\ c.error \in RelayErrors /\ c.profile \in Profiles /\ c.capability \in Capabilities
    /\ c.error = "unsupported_capability" => ~IsSupported(c.profile, c.capability)

\* The tokens of the bases of MCDecisions, and the characters of its identifiers.
BaseTokens == Words \cup {"http:", "host", "gateway", "backend-api", "codex"}
IdChars == {"%", "4", "1", "2", "5", "z", "!", "+", " "}

\* What MCDecisions asks of the addresses is a base, a call id or a model.
IsAddressed(c) ==
    /\ c.kind = "address" =>
           c.base \in Seq(BaseTokens) /\ IsBase(c.base) /\ c.backend \in BOOLEAN
    /\ c.kind = "call_id" => c.raw \in Seq(IdChars)
    /\ c.kind = "model" => c.model \in Seq(IdChars)

CasesAreInputs ==
    /\ case.kind = "payload" => case.bytes \in Seq(Bytes)
    /\ case.kind = "day" => IsDay(case)
    /\ case.kind = "body" =>
           case.chunks \in Seq(Nat) /\ case.ending \in Seq(Links) /\ case.cap \in Nat
    /\ case.kind = "headers" => IsRequest(case)
    /\ case.kind = "offers" => case.fields \in Seq(OfferFields) /\ case.admission \in BOOLEAN
    /\ IsBuilt(case) /\ IsAddressed(case)
    /\ case.kind = "error" => IsError(case)

LEMMA BoundedIsSeq ==
    ASSUME NEW S, NEW T, S \subseteq T, NEW n \in Nat, NEW s \in BoundedSeq(S, n)
    PROVE  s \in Seq(T)
<1>1. PICK m \in 0..n : s \in [1..m -> S]
    BY DEF BoundedSeq, SeqOf
<1>2. m \in Nat
    BY <1>1
<1>3. QED BY <1>1, <1>2

IsMap(h) == h = [n \in RequestNames |-> h[n]] /\ \A n \in RequestNames : h[n] \in ValuesOf(n)

LEMMA MapChanges ==
    ASSUME NEW h, IsMap(h), NEW name \in RequestNames, NEW values \in ValuesOf(name)
    PROVE  IsMap([h EXCEPT ![name] = values])
BY DEF IsMap

LEMMA ValuesAreTexts ==
    ASSUME NEW h, IsMap(h)
    PROVE  /\ \E S : h \in [RequestNames -> Seq(S)]
           /\ h["authorization"] \in Seq(DOMAIN AuthorizationForms)
           /\ \A i \in 1..Len(h["sec-websocket-protocol"]) :
                  h["sec-websocket-protocol"][i] # "blank"
<1> DEFINE S == DOMAIN AuthorizationForms
                    \cup {"v1", "v2", "text", "other", "realtime", "credential", "organization",
                          "project"}
<1>0. {"v1", "v2", "text", "other", "realtime", "credential", "organization", "project", "bytes",
       "blank"} \subseteq S
    BY FormNames
<1> HIDE DEF S
<1>1. \A a, b, c \in S : /\ <<>> \in Seq(S) /\ <<a>> \in Seq(S)
                         /\ <<a, b>> \in Seq(S) /\ <<a, b, c>> \in Seq(S)
    OBVIOUS
<1>2. \A x \in AlphaValues \cup TextValues \cup Offered : x \in Seq(S)
    <2>1. \A x \in AlphaValues : x \in Seq(S)
        BY <1>0, <1>1, Zenon DEF AlphaValues
    <2>2. \A x \in TextValues : x \in Seq(S)
        BY <1>0, <1>1, Zenon DEF TextValues
    <2>3. \A x \in Offered : x \in Seq(S)
        BY <1>0, <1>1, Zenon DEF Offered
    <2>4. QED BY <2>1, <2>2, <2>3
<1>3. \A x \in AuthorizationValues : x \in Seq(S) /\ x \in Seq(DOMAIN AuthorizationForms)
    <2> DEFINE D == DOMAIN AuthorizationForms
    <2>1. D \subseteq S /\ "bearer" \in D
        BY FormNames DEF S
    <2> HIDE DEF D
    <2>2. \A a, b \in D : <<>> \in Seq(D) /\ <<a>> \in Seq(D) /\ <<a, b>> \in Seq(D)
        OBVIOUS
    <2>3. \A x \in AuthorizationValues :
              x = <<>> \/ x = <<"bearer", "bearer">> \/ \E f \in D : x = <<f>>
        BY DEF AuthorizationValues, D
    <2>4. QED BY <1>1, <2>1, <2>2, <2>3 DEF D
<1>4. \A x \in Offered : \A i \in 1..Len(x) : x[i] # "blank"
    BY DEF Offered
<1>5. \A n \in RequestNames :
          /\ ValuesOf(n) \subseteq AlphaValues \cup TextValues \cup Offered \cup AuthorizationValues
          /\ n = "authorization" => ValuesOf(n) = AuthorizationValues
          /\ n = "sec-websocket-protocol" => ValuesOf(n) = Offered
    BY DEF ValuesOf
<1>6. \A n \in RequestNames : h[n] \in Seq(S)
    BY <1>2, <1>3, <1>5 DEF IsMap
<1>7. "authorization" \in RequestNames /\ "sec-websocket-protocol" \in RequestNames
    BY NamesAre
<1>8. QED BY <1>3, <1>4, <1>5, <1>6, <1>7 DEF IsMap

\* What HeadersInit enumerates is a request.
LEMMA HeadersAreRequests ==
    ASSUME HeadersInit
    PROVE  case.kind = "headers" /\ IsRequest(case)
<1>1. PICK route \in HeaderRoutes, upstream \in Upstreams, alpha \in {<<>>, <<"v1">>, <<"v2">>},
           a \in Distinguished, b \in RequestNames,
           va \in UNION {ValuesOf(n) : n \in RequestNames},
           vb \in UNION {ValuesOf(n) : n \in RequestNames} :
        LET h == [Empty EXCEPT !["openai-alpha"] = alpha, !["authorization"] = <<"bearer">>,
                               !["content-type"] = <<"text">>, ![a] = va, ![b] = vb]
            private == route \in {"private_call", "sideband"}
        IN  /\ va \in ValuesOf(a) /\ vb \in ValuesOf(b)
            /\ private => /\ DialectOf(h) # "official" /\ upstream.profile = "chatgpt"
                          /\ h["content-type"] # <<>> /\ h["content-type"][1] = "text"
            /\ \E policy \in Agreed(route, h, upstream.profile) :
                   case = [kind |-> "headers", route |-> route, headers |-> h,
                           upstream |-> upstream, policy |-> policy]
    BY Zenon DEF HeadersInit
<1> DEFINE h == [Empty EXCEPT !["openai-alpha"] = alpha, !["authorization"] = <<"bearer">>,
                              !["content-type"] = <<"text">>, ![a] = va, ![b] = vb]
<1>2. /\ va \in ValuesOf(a) /\ vb \in ValuesOf(b)
      /\ route \in {"private_call", "sideband"} =>
             /\ DialectOf(h) # "official"
             /\ h["content-type"] # <<>> /\ h["content-type"][1] = "text"
      /\ \E policy \in Agreed(route, h, upstream.profile) :
             case = [kind |-> "headers", route |-> route, headers |-> h,
                     upstream |-> upstream, policy |-> policy]
    BY <1>1, Zenon
<1>3. PICK policy \in Agreed(route, h, upstream.profile) :
             case = [kind |-> "headers", route |-> route, headers |-> h,
                     upstream |-> upstream, policy |-> policy]
    BY <1>2, Zenon
<1>4. /\ case.kind = "headers" /\ case.route = route /\ case.headers = h
      /\ case.upstream = upstream /\ case.policy = policy
    <2> HIDE DEF h
    <2>1. QED BY <1>3
<1> DEFINE h1 == [Empty EXCEPT !["openai-alpha"] = alpha]
           h2 == [h1 EXCEPT !["authorization"] = <<"bearer">>]
           h3 == [h2 EXCEPT !["content-type"] = <<"text">>]
           h4 == [h3 EXCEPT ![a] = va]
           h5 == [h4 EXCEPT ![b] = vb]
<1>5. h = h5
    BY Zenon
<1>6. /\ {"openai-alpha", "authorization", "content-type"} \subseteq RequestNames
      /\ Distinguished \subseteq RequestNames
    BY NamesAre, RangesAre DEF Distinguished
<1>7. /\ alpha \in ValuesOf("openai-alpha") /\ <<"bearer">> \in ValuesOf("authorization")
      /\ <<"text">> \in ValuesOf("content-type")
    <2>1. "bearer" \in DOMAIN AuthorizationForms
        BY FormNames
    <2>2. QED BY <2>1 DEF ValuesOf, AlphaValues, TextValues, AuthorizationValues
<1>8. IsMap(Empty)
    <2>1. \A n \in RequestNames : <<>> \in ValuesOf(n)
        BY DEF ValuesOf, AlphaValues, TextValues, AuthorizationValues, Offered
    <2>2. QED BY <2>1 DEF IsMap, Empty
<1>9. IsMap(h1)
    BY <1>6, <1>7, <1>8, MapChanges
<1> HIDE DEF h1
<1>10. IsMap(h2)
    BY <1>6, <1>7, <1>9, MapChanges
<1> HIDE DEF h2
<1>11. IsMap(h3)
    BY <1>6, <1>7, <1>10, MapChanges
<1> HIDE DEF h3
<1>12. IsMap(h4)
    BY <1>2, <1>6, <1>11, MapChanges
<1> HIDE DEF h4
<1>13. IsMap(h5)
    BY <1>2, <1>12, MapChanges
<1> HIDE DEF h, h5
<1>14. /\ \E S : h \in [RequestNames -> Seq(S)]
       /\ h["authorization"] \in Seq(DOMAIN AuthorizationForms)
       /\ \A i \in 1..Len(h["sec-websocket-protocol"]) : h["sec-websocket-protocol"][i] # "blank"
    BY <1>5, <1>13, ValuesAreTexts
<1>15. route \in {"private_call", "sideband"} => IsPrivateCall(case)
    BY <1>2, <1>4 DEF IsPrivateCall
<1>16. QED BY <1>3, <1>4, <1>14, <1>15 DEF IsRequest

LEMMA OffersAreTokens == Offers \subseteq Tokens
<1>1. \A kind \in OfferKinds, suffix \in Nat, secret \in BOOLEAN :
          Offer(kind, suffix, secret) \in Tokens
    BY DEF Offer, Tokens
<1>2. {"realtime", "credential", "organization", "project", "unknown", "malformed"} = OfferKinds
    BY NamesHaveBytes DEF OfferKinds
<1>3. \A n \in 0..2 : n \in Nat
    OBVIOUS
<1>4. 0 \in Nat /\ 1 \in Nat
    OBVIOUS
<1>5. QED BY <1>1, <1>2, <1>3, <1>4 DEF Offers

\* The offers of MCDecisions are fields with tokens in them.
LEMMA OffersAreFields ==
    OffersInit => /\ case.kind = "offers" /\ case.fields \in Seq(OfferFields)
                  /\ case.admission \in BOOLEAN
<1>1. SUFFICES
          ASSUME NEW tokens \in BoundedSeq(Offers, 4) \ {<<>>}, NEW pad \in 0..1,
                 NEW text \in BOOLEAN, NEW admission \in BOOLEAN, NEW cut \in 1..Len(tokens),
                 NEW first, first = Field(SubSeq(tokens, 1, cut), pad),
                 NEW second, second = [Field(SubSeq(tokens, cut + 1, Len(tokens)), pad)
                                          EXCEPT !.text = text],
                 case = [kind |-> "offers", admission |-> admission,
                         fields |-> IF cut = Len(tokens) THEN <<first>> ELSE <<first, second>>]
          PROVE  /\ case.kind = "offers" /\ case.fields \in Seq(OfferFields)
                 /\ case.admission \in BOOLEAN
    BY ZenonT(40) DEF OffersInit
<1>2. tokens \in Seq(Tokens) /\ Len(tokens) \in Nat /\ pad \in Nat
    <2>1. tokens \in Seq(Tokens)
        BY OffersAreTokens, BoundedIsSeq
    <2>2. QED BY <2>1
<1>3. \A s \in Seq(Tokens) : s # <<>> => Field(s, pad) \in OfferFields
    BY <1>2 DEF Field, OfferFields
<1>4. first \in OfferFields
    <2>1. SubSeq(tokens, 1, cut) \in Seq(Tokens) /\ Len(SubSeq(tokens, 1, cut)) = cut
        BY <1>2
    <2>2. SubSeq(tokens, 1, cut) # <<>>
        BY <2>1
    <2>3. QED BY <1>1, <1>3, <2>1, <2>2
<1>5. cut # Len(tokens) => second \in OfferFields
    <2> SUFFICES ASSUME cut # Len(tokens) PROVE second \in OfferFields
        OBVIOUS
    <2> DEFINE rest == SubSeq(tokens, cut + 1, Len(tokens))
               begun == Field(rest, pad)
    <2>1. rest \in Seq(Tokens) /\ Len(rest) = Len(tokens) - cut
        BY <1>2
    <2>2. rest # <<>>
        BY <1>2, <2>1, SMTT(30)
    <2>3. begun \in OfferFields /\ second = [begun EXCEPT !.text = text]
        BY <1>1, <1>3, <2>1, <2>2
    <2> HIDE DEF begun
    <2>4. QED BY <2>3 DEF OfferFields
<1> DEFINE fields == IF cut = Len(tokens) THEN <<first>> ELSE <<first, second>>
<1>6. fields \in Seq(OfferFields)
    BY <1>4, <1>5
<1> HIDE DEF fields
<1>7. case = [kind |-> "offers", admission |-> admission, fields |-> fields]
    BY <1>1 DEF fields
<1>8. QED BY <1>6, <1>7

LEMMA SessionsAreBuilt ==
    ASSUME NEW adapter \in Adapters, NEW session \in Built(adapter)
    PROVE  session \in NewSessions /\ IsOf(session, adapter)
<1>1. ASSUME NEW type \in Types, NEW delegated \in BOOLEAN, NEW id \in BOOLEAN
      PROVE  /\ Session(type, delegated, id) \in NewSessions
             /\ Session(type, delegated, id).type = type
             /\ Session(type, delegated, id).delegated = delegated
    BY DEF Session, NewSessions
<1>2. {"absent", "quicksilver", "realtime", "transcription"} \subseteq Types
    BY DEF Types
<1>3. CASE adapter = "V1"
    <2>1. PICK id \in BOOLEAN : session = Session("quicksilver", FALSE, id)
        <3>1. session \in {V1Session(id) : id \in BOOLEAN}
            <4>1. session \in Built("V1")
                BY <1>3
            <4>2. Built("V1") = {V1Session(id) : id \in BOOLEAN}
                BY DEF Built
            <4>3. QED BY <4>1, <4>2
        <3>2. QED BY <3>1, Zenon DEF V1Session
    <2>2. QED BY <1>1, <1>2, <1>3, <2>1 DEF IsOf
<1>4. CASE adapter = "FramelessBidi"
    <2>1. session = Session("absent", TRUE, FALSE)
        BY <1>4 DEF Built, FramelessSession
    <2>2. QED BY <1>1, <1>2, <1>4, <2>1 DEF IsOf
<1>5. CASE adapter = "RealtimeV2"
    <2>1. PICK kind \in {"realtime", "transcription"},
               rest \in [type : Types, delegated : BOOLEAN, id : BOOLEAN] :
                   session = RealtimeV2Session(kind, rest)
        BY <1>5 DEF Built
    <2>2. /\ session = Session(kind, rest.delegated, rest.id)
          /\ rest.delegated \in BOOLEAN /\ rest.id \in BOOLEAN
        BY <2>1 DEF RealtimeV2Session
    <2>3. QED BY <1>1, <1>2, <1>5, <2>2 DEF IsOf
<1>6. QED BY <1>3, <1>4, <1>5 DEF Adapters

LEMMA SessionsAreOf ==
    SessionsInit => case.kind \in {"session", "history"} /\ IsBuilt(case)
<1>1. ASSUME NEW adapter \in Adapters, NEW session \in Built(adapter),
             case = [kind |-> "session", adapter |-> adapter, session |-> session]
      PROVE  case.kind \in {"session", "history"} /\ IsBuilt(case)
    <2>1. case.kind = "session" /\ case.adapter = adapter /\ case.session = session
        BY <1>1
    <2>2. QED BY <2>1, SessionsAreBuilt DEF IsBuilt
<1>2. ASSUME NEW items \in BoundedSeq(BoundedSeq({0, 1, 4, 5, 12, 13}, 2), 3),
             case = [kind |-> "history", items |-> items]
      PROVE  case.kind \in {"session", "history"} /\ IsBuilt(case)
    <2>1. BoundedSeq({0, 1, 4, 5, 12, 13}, 2) \subseteq Seq(Nat)
        BY BoundedIsSeq
    <2>2. items \in Seq(Seq(Nat))
        BY <2>1, BoundedIsSeq
    <2>3. case.kind = "history" /\ case.items = items
        BY <1>2
    <2>4. QED BY <2>2, <2>3 DEF IsBuilt
<1>3. QED BY <1>1, <1>2, Zenon DEF SessionsInit

LEMMA BuiltStand ==
    ASSUME NEW c, IsBuilt(c)
    PROVE  /\ c.kind = "session" => BuiltSessionsReadBack(c.adapter, c.session)
           /\ c.kind = "history" => HistoryFits(c.items)
<1>1. ASSUME c.kind = "session" PROVE BuiltSessionsReadBack(c.adapter, c.session)
    BY <1>1, SessionsReadBack, Zenon DEF IsBuilt, NewSessions
<1>2. QED BY <1>1, HistoriesFit DEF IsBuilt

LEMMA ErrorsAreOf == ErrorsInit => case.kind = "error" /\ IsError(case)
<1>1. ASSUME NEW error \in RelayErrors, NEW profile \in Profiles, NEW capability \in Capabilities,
             error = "unsupported_capability" => ~IsSupported(profile, capability),
             case = [kind |-> "error", error |-> error, profile |-> profile,
                     capability |-> capability]
      PROVE  case.kind = "error" /\ IsError(case)
    <2>1. /\ case.kind = "error" /\ case.error = error /\ case.profile = profile
          /\ case.capability = capability
        BY <1>1
    <2>2. QED BY <1>1, <2>1 DEF IsError
<1>2. QED BY <1>1, Zenon DEF ErrorsInit

LEMMA BasePathsAre ==
    ASSUME NEW path \in BasePaths
    PROVE  path \in Seq(BaseTokens) /\ IsUnasked(path)
<1>1. {"/", "v1", "gateway", "backend-api", "codex"} \subseteq BaseTokens
    BY DEF BaseTokens, Words
<1>2. \A a, b, c, d \in BaseTokens : /\ <<>> \in Seq(BaseTokens) /\ <<a, b>> \in Seq(BaseTokens)
                                     /\ <<a, b, c, d>> \in Seq(BaseTokens)
    <2> HIDE DEF BaseTokens
    <2>1. QED OBVIOUS
<1>3. path \in Seq(BaseTokens)
    BY <1>1, <1>2, ZenonT(40) DEF BasePaths
<1>4. /\ \A i \in 1..0 : FALSE
      /\ \A i \in 1..2 : i = 1 \/ i = 2
      /\ \A i \in 1..4 : i = 1 \/ i = 2 \/ i = 3 \/ i = 4
    OBVIOUS
<1>5. IsUnasked(path)
    BY <1>4 DEF BasePaths, IsUnasked, Unasked
<1>6. QED BY <1>3, <1>5

LEMMA BasesAre ==
    ASSUME NEW scheme \in {"https:", "http:"}, NEW path \in BasePaths, NEW slashes \in Nat
    PROVE  Base(scheme, path, slashes) \in Seq(BaseTokens) /\ IsBase(Base(scheme, path, slashes))
<1> DEFINE head == <<scheme, "/", "/", "host">>
           after == [i \in 1..slashes |-> "/"]
           B == BaseTokens
           base == (head \o path) \o after
<1>1. head \in Seq(B) /\ Len(head) = 4 /\ IsUnasked(head) /\ head[4] = "host"
    <2>1. scheme \in B /\ "/" \in B /\ "host" \in B
        BY DEF BaseTokens, Words
    <2>2. \A i \in 1..4 : i = 1 \/ i = 2 \/ i = 3 \/ i = 4
        OBVIOUS
    <2>3. IsUnasked(head)
        BY <2>2 DEF IsUnasked, Unasked
    <2> HIDE DEF B
    <2>4. QED BY <2>1, <2>3
<1>2. path \in Seq(B) /\ IsUnasked(path)
    BY BasePathsAre
<1>3. after \in Seq(B) /\ IsUnasked(after)
    <2>1. "/" \in B
        BY DEF BaseTokens, Words
    <2> HIDE DEF B
    <2>2. after \in Seq(B) /\ Len(after) = slashes /\ \A i \in 1..slashes : after[i] = "/"
        BY <2>1
    <2> HIDE DEF after
    <2>3. QED BY <2>2 DEF IsUnasked, Unasked
<1> HIDE DEF head, after, B
<1>4. head \o path \in Seq(B) /\ IsJoined(head, path) /\ IsUnasked(head \o path)
    BY <1>1, <1>2, JoinIs, UnaskedJoin
<1> DEFINE begun == head \o path
<1>5. begun[4] = "host" /\ Len(begun) >= 4
    <2>1. 4 \in 1..Len(head) /\ Len(path) \in Nat
        BY <1>1, <1>2
    <2>2. QED BY <1>1, <1>4, <2>1 DEF IsJoined
<1>6. begun \in Seq(B) /\ IsUnasked(begun)
    BY <1>4
<1> HIDE DEF begun
<1>7. begun \o after \in Seq(B) /\ IsJoined(begun, after) /\ IsUnasked(begun \o after)
    BY <1>3, <1>6, JoinIs, UnaskedJoin
<1> DEFINE whole == begun \o after
<1>8. whole[4] = "host" /\ Len(whole) >= 4
    <2>1. 4 \in 1..Len(begun) /\ Len(after) \in Nat
        BY <1>3, <1>5, <1>6
    <2>2. QED BY <1>5, <1>7, <2>1 DEF IsJoined
<1>9. whole \in Seq(B) /\ IsUnasked(whole)
    BY <1>7
<1>10. Base(scheme, path, slashes) = whole
    BY DEF Base, whole, begun, head, after
<1> HIDE DEF whole
<1>11. IsBase(whole)
    BY <1>8, <1>9 DEF IsBase, IsUnasked, Unasked
<1>12. QED BY <1>9, <1>10, <1>11 DEF B

LEMMA AddressesAreOf == AddressesInit => case.kind = "address" /\ IsAddressed(case)
<1>1. ASSUME NEW scheme \in {"https:", "http:"}, NEW path \in BasePaths, NEW slashes \in 0..2,
             case = [kind |-> "address", base |-> Base(scheme, path, slashes),
                     backend |-> "backend-api" \in Range(path)]
      PROVE  case.kind = "address" /\ IsAddressed(case)
    <2> DEFINE base == Base(scheme, path, slashes)
               backend == "backend-api" \in Range(path)
    <2>1. base \in Seq(BaseTokens) /\ IsBase(base)
        <3>1. slashes \in Nat
            OBVIOUS
        <3>2. QED BY <3>1, BasesAre
    <2>2. backend \in BOOLEAN
        OBVIOUS
    <2> HIDE DEF base, backend
    <2>3. case.kind = "address" /\ case.base = base /\ case.backend = backend
        BY <1>1 DEF base, backend
    <2>4. QED BY <2>1, <2>2, <2>3 DEF IsAddressed
<1>2. QED BY <1>1, Zenon DEF AddressesInit, AddressesOf

LEMMA IdentifiersAreOf ==
    IdentifiersInit => case.kind \in {"call_id", "model"} /\ IsAddressed(case)
<1>1. ASSUME NEW raw \in BoundedSeq({"%", "4", "1", "2", "z", "!", "+"}, 4),
             case = [kind |-> "call_id", raw |-> raw]
      PROVE  case.kind \in {"call_id", "model"} /\ IsAddressed(case)
    <2>1. case.kind = "call_id" /\ case.raw = raw
        BY <1>1
    <2>2. {"%", "4", "1", "2", "z", "!", "+"} \subseteq IdChars
        BY DEF IdChars
    <2>3. raw \in Seq(IdChars)
        BY <2>2, BoundedIsSeq
    <2>4. QED BY <2>1, <2>3 DEF IsAddressed
<1>2. ASSUME NEW model \in BoundedSeq({"%", "+", " ", "!", "2", "5", "z"}, 3),
             case = [kind |-> "model", model |-> model]
      PROVE  case.kind \in {"call_id", "model"} /\ IsAddressed(case)
    <2>1. case.kind = "model" /\ case.model = model
        BY <1>2
    <2>2. {"%", "+", " ", "!", "2", "5", "z"} \subseteq IdChars
        BY DEF IdChars
    <2>3. model \in Seq(IdChars)
        BY <2>2, BoundedIsSeq
    <2>4. QED BY <2>1, <2>3 DEF IsAddressed
<1>3. QED BY <1>1, <1>2, Zenon DEF IdentifiersInit

LEMMA AddressedAgree ==
    ASSUME NEW c, IsAddressed(c)
    PROVE  /\ c.kind = "address" => AddressesAgree(c.base, c.backend)
           /\ c.kind = "call_id" => CallIdsAgree(c.raw)
           /\ c.kind = "model" => ModelSurvives(c.model)
<1>1. Words \subseteq BaseTokens
    BY DEF BaseTokens
<1>2. ASSUME c.kind = "address" PROVE AddressesAgree(c.base, c.backend)
    <2>1. c.base \in Seq(BaseTokens) /\ IsBase(c.base) /\ c.backend \in BOOLEAN
        BY <1>2 DEF IsAddressed
    <2>2. QED BY <1>1, <2>1, OneAddressForAll
<1>3. ASSUME c.kind = "call_id" PROVE CallIdsAgree(c.raw)
    BY <1>3, OneReadingOfCallIds DEF IsAddressed
<1>4. ASSUME c.kind = "model" PROVE ModelSurvives(c.model)
    BY <1>4, ModelsSurvive DEF IsAddressed
<1>5. QED BY <1>2, <1>3, <1>4, Zenon

LEMMA CasesBegin == Init => CasesAreInputs
<1>1. CalendarInit => CasesAreInputs
    <2>1. SUFFICES ASSUME case = [kind |-> "day", days |-> 0, date |-> CivilFromDays(0), rem |-> 0]
                   PROVE  CasesAreInputs
        BY FirstDay DEF CalendarInit
    <2>2. case.kind = "day" /\ case.days = 0 /\ case.rem = 0
        BY <2>1
    <2>3. QED BY <2>1, <2>2 DEF CasesAreInputs, IsDay, IsBuilt, IsAddressed
<1>2. PayloadsInit => CasesAreInputs
    <2>1. SUFFICES ASSUME NEW bytes \in BoundedSeq(Bytes, 5),
                          case = [kind |-> "payload", bytes |-> bytes]
                   PROVE  CasesAreInputs
        BY DEF PayloadsInit
    <2>2. bytes \in Seq(Bytes)
        BY BoundedIsSeq
    <2>3. case.kind = "payload" /\ case.bytes = bytes
        BY <2>1
    <2>4. QED BY <2>2, <2>3 DEF CasesAreInputs, IsBuilt, IsAddressed
<1>3. BodiesInit => CasesAreInputs
    <2>1. ASSUME NEW chunks \in Seq(Nat), NEW ending \in Seq(Links), NEW cap \in Nat,
                 case = [kind |-> "body", chunks |-> chunks, ending |-> ending, cap |-> cap]
          PROVE  CasesAreInputs
        <3>1. case.kind = "body" /\ case.chunks = chunks /\ case.ending = ending /\ case.cap = cap
            BY <2>1
        <3>2. QED BY <3>1 DEF CasesAreInputs, IsBuilt, IsAddressed
    <2>2. ASSUME NEW chunks \in BoundedSeq(0..3, 4), NEW ending \in {<<>>, <<"opaque">>},
                 NEW cap \in 1..5
          PROVE  chunks \in Seq(Nat) /\ ending \in Seq(Links) /\ cap \in Nat
        <3>1. chunks \in Seq(Nat)
            BY BoundedIsSeq
        <3>2. ending \in Seq(Links)
            <4>1. "opaque" \in Links
                BY DEF Links
            <4>2. \A x \in Links : <<x>> \in Seq(Links)
                OBVIOUS
            <4>3. <<>> \in Seq(Links)
                OBVIOUS
            <4>4. QED BY <4>1, <4>2, <4>3, Zenon
        <3>3. QED BY <3>1, <3>2
    <2>3. ASSUME NEW chain \in BoundedSeq(Links, 3), NEW chunk \in 0..2
          PROVE  <<chunk>> \in Seq(Nat) /\ chain \in Seq(Links) /\ 1 \in Nat
        BY BoundedIsSeq
    <2>4. QED BY <2>1, <2>2, <2>3, Zenon DEF BodiesInit
<1>4. ErrorsInit => case.kind = "error" /\ IsError(case)
    BY ErrorsAreOf
<1>5. SessionsInit => case.kind \in {"session", "history"} /\ IsBuilt(case)
    BY SessionsAreOf
<1>6. AddressesInit => case.kind = "address" /\ IsAddressed(case)
    BY AddressesAreOf
<1>7. IdentifiersInit => case.kind \in {"call_id", "model"} /\ IsAddressed(case)
    BY IdentifiersAreOf
<1>8. HeadersInit => case.kind = "headers" /\ IsRequest(case)
    BY HeadersAreRequests
<1>9. OffersInit => /\ case.kind = "offers" /\ case.fields \in Seq(OfferFields)
                    /\ case.admission \in BOOLEAN
    BY OffersAreFields
<1>10. QED BY <1>1, <1>2, <1>3, <1>4, <1>5, <1>6, <1>7, <1>8, <1>9
           DEF Init, CasesAreInputs, IsBuilt, IsAddressed

LEMMA CasesStep == CasesAreInputs /\ [Next]_case => CasesAreInputs'
<1>1. SUFFICES ASSUME CasesAreInputs, NextDay PROVE CasesAreInputs'
    BY DEF Next, CasesAreInputs
<1> DEFINE days == case.days
           rem == (case.rem + 7919) % 86400
<1>2. /\ case.kind = "day" /\ days \in Nat /\ case.rem \in Nat
      /\ case = [kind |-> "day", days |-> days, date |-> CivilFromDays(days), rem |-> case.rem]
    BY <1>1 DEF CasesAreInputs, IsDay, NextDay
<1>3. case' = [kind |-> "day", days |-> days + 1, date |-> Tomorrow(CivilFromDays(days)), rem |-> rem]
    <2>1. case.date = CivilFromDays(days)
        BY <1>2
    <2>2. case' = [case EXCEPT !.days = days + 1, !.date = Tomorrow(case.date), !.rem = rem]
        BY <1>1 DEF NextDay
    <2> HIDE DEF days, rem
    <2>3. QED BY <1>2, <2>1, <2>2
<1>4. Tomorrow(CivilFromDays(days)) = CivilFromDays(days + 1)
    BY <1>2, DaysGoOn
<1>5. rem \in Nat /\ rem < 86400 /\ days + 1 \in Nat
    BY <1>2
<1> HIDE DEF days, rem
<1>6. case'.kind = "day" /\ case'.days = days + 1 /\ case'.rem = rem
    BY <1>3
<1>7. QED BY <1>3, <1>4, <1>5, <1>6 DEF CasesAreInputs, IsDay, IsBuilt, IsAddressed

LEMMA CasesAlways == Spec => []CasesAreInputs
BY CasesBegin, CasesStep, PTL DEF Spec

\* However a body is cut into chunks, both readers take it whole under the cap and
\* refuse it at the chunk that goes over, and a broken one is told from a peer that
\* left (read_capped, classify_body_error, execute_capped).
THEOREM DecisionsBodiesAreCapped == Spec => []BodiesAreCapped
<1>1. CasesAreInputs => BodiesAreCapped
    BY NoCutMatters, Zenon DEF CasesAreInputs, BodiesAreCapped
<1>2. QED BY <1>1, CasesAlways, PTL

\* A line of the frame log gives the offset at which the payload's first fault
\* begins, and the date and the time of day of its seconds (first_fault_byte,
\* civil_from_days, timestamp).
THEOREM DecisionsLogTellsTheTruth == Spec => []LogTellsTheTruth
<1>1. ASSUME CasesAreInputs, case.kind = "payload" PROVE FaultIsTheFirst(case.bytes)
    BY <1>1, FaultOfAnyPayload, Zenon DEF CasesAreInputs
<1>2. ASSUME CasesAreInputs, case.kind = "day"
      PROVE  DatesFollowTheCalendar(case.days, case.date, case.rem)
    <2>1. /\ case.rem \in Nat /\ case.rem < 86400
          /\ case = [kind |-> "day", days |-> case.days, date |-> CivilFromDays(case.days),
                     rem |-> case.rem]
        BY <1>2 DEF CasesAreInputs, IsDay
    <2>2. CivilFromDays(case.days) = case.date
        BY <2>1
    <2>3. QED BY <2>1, <2>2, ClockTells DEF DatesFollowTheCalendar
<1>3. CasesAreInputs => LogTellsTheTruth
    BY <1>1, <1>2, Zenon DEF LogTellsTheTruth
<1>4. QED BY <1>3, CasesAlways, PTL

\* What the four header builders let through is what may cross: only known names, the
\* credential of the policy's owner and none else, with the marks that keep it out of
\* logs; and no header the caller repeated is reduced to one of its values
\* (build_upstream_headers, build_upstream_websocket_headers, merge_upstream_headers).
THEOREM DecisionsHeadersCross == Spec => []HeadersCross
<1>1. CasesAreInputs => HeadersCross
    BY OnlyThisCrosses, NothingIsPicked, Zenon DEF CasesAreInputs, HeadersCross
<1>2. QED BY <1>1, CasesAlways, PTL

\* The parser of subprotocols reads the offer the client made, and what is sent on is
\* within the rules it was read by, its two caps included (parse).
THEOREM DecisionsOffersStand == Spec => []OffersStand
<1>1. CasesAreInputs => OffersStand
    BY OffersReadAlike, Zenon DEF CasesAreInputs, OffersStand
<1>2. QED BY <1>1, CasesAlways, PTL

\* A session the library builds is read by the proxy as the dialect of its adapter and
\* as no other, and a history it accepts is within its limits (multipart_call_body,
\* backend_json_call_body, parse_private_multipart, with_initial_items).
THEOREM DecisionsSessionsAsBuilt == Spec => []SessionsAsBuilt
<1>1. CasesAreInputs => SessionsAsBuilt
    BY BuiltStand, Zenon DEF CasesAreInputs, SessionsAsBuilt
<1>2. QED BY <1>1, CasesAlways, PTL

\* The tables of error.rs never contradict each other: the status, the type, the code
\* and Retry-After give one verdict, the profiles a refusal names are those that serve
\* the capability, and a mistake both surfaces know is answered alike on both (status,
\* error_type, error_code, message, from_rest_contract, from_websocket_contract).
THEOREM DecisionsAnswersAgree == Spec => []AnswersAgree
<1>1. CasesAreInputs => AnswersAgree
    BY VerdictsAgree, AdviceIsRight, SurfacesDoAgree, Zenon
       DEF CasesAreInputs, IsError, AnswersAgree
<1>2. QED BY <1>1, CasesAlways, PTL

\* Every builder of a URL leads to one place for one base, every reader of a call id
\* reads one id, and a model survives a query (official_url, private_call_create_url,
\* private_websocket_url, sideband_upstream_url, decode_call_id, decode_segment,
\* decode_component, encode_query_component).
THEOREM DecisionsOneAddress == Spec => []OneAddress
<1>1. CasesAreInputs => OneAddress
    BY AddressedAgree, Zenon DEF CasesAreInputs, OneAddress
<1>2. QED BY <1>1, CasesAlways, PTL
=============================================================================
