-------------------------- MODULE ConnectionProofs --------------------------
(***************************************************************************)
(* The safety properties of ConnectionProperties hold, and Connection      *)
(* implements Handshake, for every number of clients, slots and frames and *)
(* on either platform.                                                     *)
(***************************************************************************)
EXTENDS ConnectionProperties, FiniteSetTheorems, SequenceTheorems,
        WellFoundedInduction, TLAPS

-----------------------------------------------------------------------------
(* The library's induction theorems speak of a property of numbers, which the provers
   cannot instantiate; the sets of WFMin they can.  Induction is here by the least
   number for which a fact does not hold.                                            *)
LEMMA LeastNumber ==
    ASSUME NEW T \in SUBSET Nat, T # {}
    PROVE  \E n \in T : \A m \in T : n <= m
  <1>1. PICK n \in T : \A m \in T : ~ (<<m, n>> \in OpToRel(<, Nat))
    BY WFMin, NatLessThanWellFounded, Zenon
  <1>2. \A m \in T : ~(m < n)
    BY <1>1 DEF OpToRel
  <1> QED
    BY <1>2

-----------------------------------------------------------------------------
(* FlattenSeq, for any number of sequences: it is a sequence of their elements and
   has every one of them.                                                          *)

(* f holds the concatenations of the first of the sequences. *)
Concatenates(f, seqs, n) ==
    f = [i \in 1..n |-> IF i = 1 THEN seqs[i] ELSE f[i - 1] \o seqs[i]]

LEMMA ConcatenationExists ==
    ASSUME NEW seqs, NEW n \in Nat
    PROVE  \E f : Concatenates(f, seqs, n)
  <1> DEFINE Missing == {m \in Nat : ~ \E f : Concatenates(f, seqs, m)}
  <1> SUFFICES ASSUME Missing # {} PROVE FALSE
    OBVIOUS
  <1>1. PICK m \in Missing : \A k \in Missing : m <= k
    BY LeastNumber
  <1>2. m # 0
    <2>1. Concatenates([i \in 1..0 |-> i], seqs, 0)
      BY DEF Concatenates
    <2> QED
      BY <2>1
  <1>3. PICK f : Concatenates(f, seqs, m - 1)
    BY <1>1, <1>2
  <1>4. PICK g : g = [i \in 1..m |-> IF i = m THEN (IF i = 1 THEN seqs[i] ELSE f[i - 1] \o seqs[i])
                                     ELSE f[i]]
    OBVIOUS
  <1>5. f = [i \in 1..(m - 1) |-> IF i = 1 THEN seqs[i] ELSE f[i - 1] \o seqs[i]]
    BY <1>3 DEF Concatenates
  <1>6. ASSUME NEW i \in 1..m PROVE g[i] = IF i = 1 THEN seqs[i] ELSE g[i - 1] \o seqs[i]
    <2>1. CASE i = m
      BY <1>4, <2>1
    <2>2. CASE i # m
      <3>1. i \in 1..(m - 1) /\ (i # 1 => i - 1 \in 1..(m - 1) /\ i - 1 # m)
        BY <1>2, <2>2
      <3>2. g[i] = f[i] /\ (i # 1 => g[i - 1] = f[i - 1])
        BY <1>4, <2>2, <3>1
      <3>3. f[i] = IF i = 1 THEN seqs[i] ELSE f[i - 1] \o seqs[i]
        BY <1>5, <3>1
      <3> QED
        BY <3>2, <3>3
    <2> QED
      BY <2>1, <2>2
  <1>7. Concatenates(g, seqs, m)
    BY <1>4, <1>6 DEF Concatenates
  <1> QED
    BY <1>7

(* Every element of the first i sequences is one of s. *)
Holds(s, seqs, i) ==
    \A j \in 1..i : \A k \in 1..Len(seqs[j]) : \E m \in 1..Len(s) : s[m] = seqs[j][k]

LEMMA ConcatenationFacts ==
    ASSUME NEW S, NEW n \in Nat, NEW seqs \in [1..n -> Seq(S)],
           NEW f, Concatenates(f, seqs, n),
           NEW i \in 1..n
    PROVE  f[i] \in Seq(S) /\ Holds(f[i], seqs, i)
  <1> DEFINE Facts(x) == f[x] \in Seq(S) /\ Holds(f[x], seqs, x)
             Missing == {x \in 1..n : ~ Facts(x)}
  <1> HIDE DEF Facts, Holds
  <1> SUFFICES ASSUME ~ Facts(i) PROVE FALSE
    BY DEF Facts
  <1>1. PICK x \in Missing : \A y \in Missing : x <= y
    <2>1. Missing \in SUBSET Nat /\ Missing # {}
      OBVIOUS
    <2> HIDE DEF Missing
    <2> QED
      BY <2>1, LeastNumber
  <1>2. f[x] = IF x = 1 THEN seqs[x] ELSE f[x - 1] \o seqs[x]
    BY DEF Concatenates
  <1>3. x # 1
    <2> SUFFICES ASSUME x = 1 PROVE FALSE
      OBVIOUS
    <2>1. Facts(1)
      BY <1>2 DEF Facts, Holds
    <2> QED
      BY <2>1
  <1>4. x - 1 \in 1..n /\ x - 1 \notin Missing
    BY <1>1, <1>3
  <1>5. Facts(x - 1)
    BY <1>4
  <1>6. f[x - 1] \in Seq(S) /\ seqs[x] \in Seq(S) /\ f[x] = f[x - 1] \o seqs[x]
    BY <1>2, <1>3, <1>5 DEF Facts, Holds
  <1>7. f[x] \in Seq(S)
    BY <1>6, ConcatProperties
  <1>8. ASSUME NEW j \in 1..x, NEW k \in 1..Len(seqs[j])
        PROVE  \E m \in 1..Len(f[x]) : f[x][m] = seqs[j][k]
    <2>1. /\ Len(f[x]) = Len(f[x - 1]) + Len(seqs[x])
          /\ Len(f[x - 1]) \in Nat /\ Len(seqs[x]) \in Nat
          /\ \A m \in 1..Len(f[x]) : f[x][m] = IF m <= Len(f[x - 1]) THEN f[x - 1][m]
                                               ELSE seqs[x][m - Len(f[x - 1])]
      BY <1>6, ConcatProperties, LenProperties
    <2>2. CASE j = x
      <3>1. PICK a \in Nat, b \in Nat : a = Len(f[x - 1]) /\ b = Len(seqs[x]) /\ Len(f[x]) = a + b
        BY <2>1
      <3>2. k \in 1..b
        BY <2>2, <3>1
      <3>3. a + k \in 1..(a + b) /\ ~(a + k <= a) /\ (a + k) - a = k
        BY <3>2
      <3>4. f[x][a + k] = seqs[x][k]
        BY <2>1, <3>1, <3>3
      <3> QED
        BY <2>2, <3>1, <3>3, <3>4
    <2>3. CASE j # x
      <3>1. j \in 1..(x - 1)
        BY <2>3
      <3>2. PICK m \in 1..Len(f[x - 1]) : f[x - 1][m] = seqs[j][k]
        BY <1>5, <3>1 DEF Facts, Holds
      <3>3. m \in 1..Len(f[x]) /\ m <= Len(f[x - 1])
        BY <2>1, <3>2
      <3>4. f[x][m] = f[x - 1][m]
        BY <2>1, <3>3
      <3> QED
        BY <3>2, <3>3, <3>4
    <2> QED
      BY <2>2, <2>3
  <1>9. Facts(x)
    BY <1>7, <1>8 DEF Facts, Holds
  <1> QED
    BY <1>9

(* How long the concatenation of the first x sequences is, when each has one element or
   two, and what is where in it as long as they have one.                              *)
Sizes(s, seqs, x) ==
    /\ Len(s) \in x..(2 * x)
    /\ (\A i \in 1..x : Len(seqs[i]) = 1) => Len(s) = x
    /\ (\A i \in 1..x : Len(seqs[i]) = 2) => Len(s) = 2 * x
    /\ (\E i \in 1..x : Len(seqs[i]) = 1) => Len(s) < 2 * x
    /\ (\E i \in 1..x : Len(seqs[i]) = 2) => Len(s) > x

Places(s, seqs, x) ==
    \A j \in 1..x : (\A i \in 1..(j - 1) : Len(seqs[i]) = 1) =>
        \A k \in 1..Len(seqs[j]) :
            (j - 1) + k \in 1..Len(s) /\ s[(j - 1) + k] = seqs[j][k]

LEMMA ConcatenationSizes ==
    ASSUME NEW S, NEW n \in Nat, NEW seqs \in [1..n -> Seq(S)],
           \A i \in 1..n : Len(seqs[i]) \in {1, 2},
           NEW f, Concatenates(f, seqs, n),
           NEW i \in 1..n
    PROVE  Sizes(f[i], seqs, i) /\ Places(f[i], seqs, i)
  <1> DEFINE Facts(x) == Sizes(f[x], seqs, x) /\ Places(f[x], seqs, x)
             Missing == {x \in 1..n : ~ Facts(x)}
  <1> HIDE DEF Facts
  <1> SUFFICES ASSUME ~ Facts(i) PROVE FALSE
    BY DEF Facts
  <1>1. PICK x \in Missing : \A y \in Missing : x <= y
    <2>1. Missing \in SUBSET Nat /\ i \in Missing
      OBVIOUS
    <2> HIDE DEF Missing
    <2> QED
      BY <2>1, LeastNumber
  <1>2. f[x] = IF x = 1 THEN seqs[x] ELSE f[x - 1] \o seqs[x]
    BY DEF Concatenates
  <1>3. PICK l \in {1, 2} : l = Len(seqs[x])
    OBVIOUS
  <1>4. CASE x = 1
    <2>1. Len(f[1]) = l /\ f[1] = seqs[1] /\ l = Len(seqs[1])
      BY <1>2, <1>3, <1>4
    <2>2. 1 \in 1..1 /\ \A y \in 1..1 : y = 1
      OBVIOUS
    <2>3. Sizes(f[1], seqs, 1)
      <3>1. \A v : /\ (\A y \in 1..1 : Len(seqs[y]) = v) <=> l = v
                  /\ (\E y \in 1..1 : Len(seqs[y]) = v) <=> l = v
        BY <2>1, <2>2
      <3>2. l \in 1..(2 * 1) /\ (l = 2 => l = 2 * 1) /\ (l = 1 => l < 2 * 1)
        OBVIOUS
      <3>3. l = 1 \/ l = 2
        OBVIOUS
      <3>4. l = 2 => l > 1
        OBVIOUS
      <3> QED
        BY <2>1, <3>1, <3>2, <3>4 DEF Sizes
    <2>4. Places(f[1], seqs, 1)
      <3>1. \A k \in 1..l : (1 - 1) + k = k
        OBVIOUS
      <3> QED
        BY <2>1, <2>2, <3>1 DEF Places
    <2> QED
      BY <1>1, <1>4, <2>3, <2>4 DEF Facts
  <1>5. CASE x # 1
    <2>1. x - 1 \in 1..n /\ x - 1 \notin Missing /\ x \in Nat
      BY <1>1, <1>5
    <2>2. Sizes(f[x - 1], seqs, x - 1) /\ Places(f[x - 1], seqs, x - 1)
      BY <2>1 DEF Facts
    <2>3. f[x - 1] \in Seq(S) /\ seqs[x] \in Seq(S) /\ f[x] = f[x - 1] \o seqs[x]
      BY <1>2, <1>5, <2>1, ConcatenationFacts
    <2>4. PICK a \in Nat : a = Len(f[x - 1])
      BY <2>3, LenProperties
    <2>5. /\ Len(f[x]) = a + l
          /\ \A m \in 1..(a + l) : f[x][m] = IF m <= a THEN f[x - 1][m] ELSE seqs[x][m - a]
      BY <1>3, <2>3, <2>4, ConcatProperties
    <2>6. 1..x = (1..(x - 1)) \cup {x} /\ x \in 1..x
      BY <2>1
    <2>7. Sizes(f[x], seqs, x)
      <3> DEFINE All(v) == \A y \in 1..(x - 1) : Len(seqs[y]) = v
                 Some(v) == \E y \in 1..(x - 1) : Len(seqs[y]) = v
      <3>1. \A v : /\ (\A y \in 1..x : Len(seqs[y]) = v) <=> All(v) /\ l = v
                  /\ (\E y \in 1..x : Len(seqs[y]) = v) <=> Some(v) \/ l = v
        BY <1>3, <2>6
      <3>2. /\ a \in (x - 1)..(2 * (x - 1))
            /\ All(1) => a = x - 1
            /\ All(2) => a = 2 * (x - 1)
            /\ Some(1) => a < 2 * (x - 1)
            /\ Some(2) => a > x - 1
        BY <2>2, <2>4 DEF Sizes
      <3> HIDE DEF All, Some
      <3>3. l = 1 \/ l = 2
        OBVIOUS
      <3>4. /\ a + l \in x..(2 * x)
            /\ All(1) /\ l = 1 => a + l = x
            /\ All(2) /\ l = 2 => a + l = 2 * x
            /\ Some(1) \/ l = 1 => a + l < 2 * x
            /\ Some(2) \/ l = 2 => a + l > x
        BY <2>1, <3>2, <3>3
      <3> QED
        BY <2>5, <3>1, <3>4 DEF Sizes
    <2>8. Places(f[x], seqs, x)
      <3> SUFFICES ASSUME NEW j \in 1..x, \A y \in 1..(j - 1) : Len(seqs[y]) = 1,
                          NEW k \in 1..Len(seqs[j])
                   PROVE  (j - 1) + k \in 1..(a + l) /\ f[x][(j - 1) + k] = seqs[j][k]
        BY <2>5 DEF Places
      <3>1. CASE j = x
        <4>1. a = x - 1
          BY <2>2, <2>4, <3>1 DEF Sizes
        <4>2. k \in 1..l /\ a + k \in 1..(a + l) /\ ~(a + k <= a) /\ (a + k) - a = k
          BY <1>3, <3>1
        <4> QED
          BY <2>5, <3>1, <4>1, <4>2
      <3>2. CASE j # x
        <4>1. j \in 1..(x - 1)
          BY <2>6, <3>2
        <4>2. (j - 1) + k \in 1..a /\ f[x - 1][(j - 1) + k] = seqs[j][k]
          BY <2>2, <2>4, <4>1 DEF Places
        <4>3. (j - 1) + k \in 1..(a + l) /\ (j - 1) + k <= a
          BY <4>2
        <4> QED
          BY <2>5, <4>2, <4>3
      <3> QED
        BY <3>1, <3>2
    <2> QED
      BY <1>1, <2>7, <2>8 DEF Facts
  <1> QED
    BY <1>4, <1>5

LEMMA FlattenIs ==
    ASSUME NEW S, NEW n \in Nat \ {0}, NEW seqs \in [1..n -> Seq(S)]
    PROVE  \E f : Concatenates(f, seqs, n) /\ FlattenSeq(seqs) = f[n]
  <1>1. Len(seqs) = n
    <2>1. seqs \in Seq(Seq(S))
      OBVIOUS
    <2> QED
      BY <2>1, LenProperties
  <1>2. PICK f : f = CHOOSE g : Concatenates(g, seqs, n)
    OBVIOUS
  <1>3. Concatenates(f, seqs, n)
    BY <1>2, ConcatenationExists
  <1>4. FlattenSeq(seqs) = f[n]
    BY <1>1, <1>2 DEF FlattenSeq, Concatenates
  <1> QED
    BY <1>3, <1>4

LEMMA FlattenFacts ==
    ASSUME NEW S, NEW n \in Nat \ {0}, NEW seqs \in [1..n -> Seq(S)]
    PROVE  /\ FlattenSeq(seqs) \in Seq(S) /\ Holds(FlattenSeq(seqs), seqs, n)
           /\ (\A i \in 1..n : Len(seqs[i]) \in {1, 2}) =>
                 Sizes(FlattenSeq(seqs), seqs, n) /\ Places(FlattenSeq(seqs), seqs, n)
  <1>1. PICK f : Concatenates(f, seqs, n) /\ FlattenSeq(seqs) = f[n]
    BY FlattenIs
  <1>2. n \in 1..n
    OBVIOUS
  <1>3. f[n] \in Seq(S) /\ Holds(f[n], seqs, n)
    BY <1>1, <1>2, ConcatenationFacts
  <1>4. ASSUME \A i \in 1..n : Len(seqs[i]) \in {1, 2}
        PROVE  Sizes(f[n], seqs, n) /\ Places(f[n], seqs, n)
    BY <1>1, <1>2, <1>4, ConcatenationSizes
  <1> QED
    BY <1>1, <1>3, <1>4

-----------------------------------------------------------------------------
(* What the server sends when the frames of F have a fence.  To a client that did not
   stray these are the frames of which the handshake says so: all or none.            *)
Body(F) == FlattenSeq([i \in Buf |-> Items(i, i \in F)])
Script(F) == <<Hello>> \o Body(F)
Promised == IF hello THEN Buf ELSE {}
Misfit(F) == Win32 /\ \E i \in Buf : (i \in F) # hello

(* A frame keeps its fence: a client that strayed was sent what fits some of the frames
   that have one by now, but not what the handshake says.                              *)
Scripts(c) ==
    IF c \in strayed THEN {Script(F) : F \in {G \in SUBSET fenced : Misfit(G)}}
    ELSE {Script(Promised)}

(* A client that waits to be accepted waits once, has nothing of the server's, and has
   come no further than to wait for the handshake.                                     *)
BacklogInv ==
    /\ \A i, j \in 1..Len(backlog) : backlog[i] = backlog[j] => i = j
    /\ \A i \in 1..Len(backlog) :
          /\ cpc[backlog[i]] \in {"greet", "gone"}
          /\ stream[backlog[i]] = <<>> /\ got[backlog[i]] = <<>>
          /\ backlog[i] \notin ends /\ backlog[i] \notin strayed
    /\ \A c \in Client : cpc[c] = "created" =>
          stream[c] = <<>> /\ got[c] = <<>> /\ c \notin ends /\ c \notin strayed

(* An open end is a registered client's or a leaked one, and never both. *)
EndsInv ==
    /\ EndsAccounted
    /\ IsFiniteSet(ends)
    /\ \A s \in Slot : client_fds[s] \notin leaked

(* What a client has received and has yet to receive is a beginning of its script, cut
   off at most behind what is in the stream, and whole if the server remembers it.     *)
Begins(s, t, n) ==
    n + Len(s) <= Len(t) /\ \A k \in 1..Len(s) : s[k] = t[n + k]

Seen(c) == IF cpc[c] = "greet" THEN 0 ELSE Len(got[c]) + 1

Follows(c, script) ==
    /\ cpc[c] = "greet" => got[c] = <<>>
    /\ \A k \in 1..Len(got[c]) : got[c][k] = script[k + 1]
    /\ Begins(stream[c], script, Seen(c))
    /\ Registered(c) <=> Seen(c) + Len(stream[c]) = Len(script)

Scripted(c) ==
    /\ Open(c) => \E script \in Scripts(c) : Follows(c, script)
    /\ cpc[c] = "handles" => Len(got[c]) < Len(Expected)
    /\ cpc[c] = "connected" => Len(got[c]) = Len(Expected)
    /\ c \in leaked => stream[c] = <<>> /\ cpc[c] \in {"greet", "gone"}

ScriptInv == \A c \in Client : Scripted(c)

ConnectionInv == TypeOK /\ BacklogInv /\ EndsInv /\ ScriptInv

-----------------------------------------------------------------------------
LEMMA ItemsFacts ==
    ASSUME NEW i \in Buf, NEW fence
    PROVE  /\ Items(i, fence) \in Seq(Item)
           /\ Len(Items(i, fence)) = IF fence /\ Win32 THEN 2 ELSE 1
           /\ Items(i, fence)[1] = Handle(i)
           /\ fence /\ Win32 => Items(i, fence)[2] = Fence(i)
  <1>1. Handle(i) \in Item /\ Fence(i) \in Item
    BY ConnectionAssumption DEF Handle, Fence, Item, Buf
  <1> HIDE DEF Handle, Fence, Item
  <1>2. <<Handle(i)>> \in Seq(Item) /\ Len(<<Handle(i)>>) = 1 /\ <<Handle(i)>>[1] = Handle(i)
    BY <1>1
  <1>3. CASE fence /\ Win32
    <2>1. <<Fence(i)>> \in Seq(Item) /\ Len(<<Fence(i)>>) = 1 /\ <<Fence(i)>>[1] = Fence(i)
      BY <1>1
    <2>2. PICK a, b : a = <<Handle(i)>> /\ b = <<Fence(i)>>
      OBVIOUS
    <2>3. /\ a \in Seq(Item) /\ b \in Seq(Item) /\ Len(a) = 1 /\ Len(b) = 1
          /\ a[1] = Handle(i) /\ b[1] = Fence(i)
      BY <1>2, <2>1, <2>2
    <2>4. a \o b \in Seq(Item) /\ Len(a \o b) = 2 /\ (a \o b)[1] = a[1] /\ (a \o b)[2] = b[1]
      BY <2>3, ConcatProperties
    <2>5. Items(i, fence) = a \o b
      BY <1>3, <2>2 DEF Items
    <2> QED
      BY <1>3, <2>3, <2>4, <2>5
  <1>4. CASE ~(fence /\ Win32)
    <2>1. PICK a, b : a = <<Handle(i)>> /\ b = <<>>
      OBVIOUS
    <2>2. a \in Seq(Item) /\ b \in Seq(Item) /\ Len(a) = 1 /\ Len(b) = 0 /\ a[1] = Handle(i)
      BY <1>2, <2>1, EmptySeq
    <2>3. a \o b \in Seq(Item) /\ Len(a \o b) = 1 /\ (a \o b)[1] = a[1]
      BY <2>2, ConcatProperties
    <2>4. Items(i, fence) = a \o b
      BY <1>4, <2>1 DEF Items
    <2> QED
      BY <1>4, <2>2, <2>3, <2>4
  <1> QED
    BY <1>3, <1>4

(* How long the items are, and what is where up to the first fence. *)
LEMMA BodyFacts ==
    ASSUME NEW F
    PROVE  /\ Body(F) \in Seq(Item) /\ Len(Body(F)) \in Nat \ {0}
           /\ \A i \in Buf : \E m \in 1..Len(Body(F)) : Body(F)[m] = Handle(i)
           /\ (\A i \in Buf : ~(i \in F /\ Win32)) => Len(Body(F)) = BufCount
           /\ (\A i \in Buf : i \in F /\ Win32) => Len(Body(F)) = 2 * BufCount
           /\ (\E i \in Buf : ~(i \in F /\ Win32)) => Len(Body(F)) < 2 * BufCount
           /\ (\E i \in Buf : i \in F /\ Win32) => Len(Body(F)) > BufCount
           /\ \A j \in Buf : j \in F /\ Win32 /\ (\A i \in 1..(j - 1) : i \notin F) =>
                 /\ \A k \in 1..j : Body(F)[k] = Handle(k)
                 /\ Body(F)[j + 1] = Fence(j)
  <1> USE ConnectionAssumption
  <1>1. PICK seqs : seqs = [i \in Buf |-> Items(i, i \in F)]
    OBVIOUS
  <1>2. /\ seqs \in [1..BufCount -> Seq(Item)]
        /\ \A i \in 1..BufCount :
              /\ Len(seqs[i]) = IF i \in F /\ Win32 THEN 2 ELSE 1
              /\ seqs[i][1] = Handle(i)
              /\ i \in F /\ Win32 => seqs[i][2] = Fence(i)
    BY <1>1, ItemsFacts DEF Buf
  <1>3. PICK s : s = FlattenSeq(seqs) /\ s = Body(F)
    BY <1>1 DEF Body
  <1>4. \A i \in 1..BufCount : Len(seqs[i]) \in {1, 2}
    BY <1>2
  <1>5. s \in Seq(Item) /\ Holds(s, seqs, BufCount) /\ Sizes(s, seqs, BufCount)
        /\ Places(s, seqs, BufCount)
    <2>1. BufCount \in Nat \ {0} /\ seqs \in [1..BufCount -> Seq(Item)]
      BY <1>2
    <2>2. FlattenSeq(seqs) \in Seq(Item) /\ Holds(FlattenSeq(seqs), seqs, BufCount)
      BY <2>1, FlattenFacts
    <2>3. Sizes(FlattenSeq(seqs), seqs, BufCount) /\ Places(FlattenSeq(seqs), seqs, BufCount)
      BY <1>4, <2>1, FlattenFacts
    <2> QED
      BY <1>3, <2>2, <2>3
  <1>6. \A i \in Buf : \E m \in 1..Len(s) : s[m] = Handle(i)
    <2> SUFFICES ASSUME NEW i \in Buf PROVE \E m \in 1..Len(s) : s[m] = Handle(i)
      OBVIOUS
    <2>1. i \in 1..BufCount /\ 1 \in 1..Len(seqs[i]) /\ seqs[i][1] = Handle(i)
      <3>1. i \in 1..BufCount
        BY DEF Buf
      <3>2. Len(seqs[i]) = 1 \/ Len(seqs[i]) = 2
        BY <1>4, <3>1
      <3>3. 1 \in 1..Len(seqs[i])
        BY <3>2
      <3> QED
        BY <1>2, <3>1, <3>3
    <2> QED
      BY <1>5, <2>1 DEF Holds
  <1>7. Len(s) \in Nat \ {0}
    <2>1. 1 \in Buf
      BY DEF Buf
    <2> QED
      BY <1>5, <1>6, <2>1, LenProperties
  <1>8. /\ (\A i \in Buf : ~(i \in F /\ Win32)) => Len(s) = BufCount
        /\ (\A i \in Buf : i \in F /\ Win32) => Len(s) = 2 * BufCount
        /\ (\E i \in Buf : ~(i \in F /\ Win32)) => Len(s) < 2 * BufCount
        /\ (\E i \in Buf : i \in F /\ Win32) => Len(s) > BufCount
    BY <1>2, <1>5 DEF Sizes, Buf
  <1>9. ASSUME NEW j \in Buf, j \in F, Win32, \A i \in 1..(j - 1) : i \notin F
        PROVE  (\A k \in 1..j : s[k] = Handle(k)) /\ s[j + 1] = Fence(j)
    <2>1. \A i \in 1..(j - 1) : Len(seqs[i]) = 1
      BY <1>2, <1>9 DEF Buf
    <2>2. ASSUME NEW k \in 1..j PROVE s[k] = Handle(k)
      <3>1. k \in 1..BufCount /\ 1 \in 1..Len(seqs[k]) /\ (k - 1) + 1 = k
        BY <1>4 DEF Buf
      <3>2. \A i \in 1..(k - 1) : i \in 1..(j - 1)
        BY DEF Buf
      <3>3. \A i \in 1..(k - 1) : Len(seqs[i]) = 1
        BY <2>1, <3>2
      <3> QED
        BY <1>2, <1>5, <3>1, <3>3 DEF Places
    <2>3. s[j + 1] = Fence(j)
      <3>1. j \in 1..BufCount /\ 2 \in 1..Len(seqs[j]) /\ (j - 1) + 2 = j + 1
        BY <1>2, <1>9 DEF Buf
      <3> QED
        BY <1>2, <1>5, <1>9, <2>1, <3>1 DEF Places
    <2> QED
      BY <2>2, <2>3
  <1> QED
    BY <1>3, <1>5, <1>6, <1>7, <1>8, <1>9

LEMMA ScriptFacts ==
    ASSUME NEW F
    PROVE  /\ Script(F) \in Seq(Item) /\ Len(Script(F)) = Len(Body(F)) + 1
           /\ Len(Script(F)) \in Nat /\ Len(Script(F)) > 1
           /\ \A k \in 1..Len(Body(F)) : Script(F)[k + 1] = Body(F)[k]
  <1>1. <<Hello>> \in Seq(Item) /\ Len(<<Hello>>) = 1
    <2>1. Hello \in Item
      BY ConnectionAssumption DEF Hello, Item
    <2> QED
      BY <2>1
  <1>2. Body(F) \in Seq(Item) /\ Len(Body(F)) \in Nat \ {0}
    BY BodyFacts
  <1>3. PICK a, b : a = <<Hello>> /\ b = Body(F)
    OBVIOUS
  <1>4. /\ a \o b \in Seq(Item) /\ Len(a \o b) = 1 + Len(b)
        /\ \A k \in 1..Len(b) : (a \o b)[k + 1] = b[k]
    BY <1>1, <1>2, <1>3, ConcatProperties
  <1> QED
    BY <1>2, <1>3, <1>4 DEF Script

(* What the client expects is what it is promised. *)
LEMMA ExpectedIs == hello \in BOOLEAN => Expected = Body(Promised)
  <1> SUFFICES ASSUME hello \in BOOLEAN PROVE Expected = Body(Promised)
    OBVIOUS
  <1>1. ASSUME NEW i \in Buf PROVE Items(i, hello) = Items(i, i \in Promised)
    <2>1. CASE hello
      BY <2>1 DEF Promised, Items
    <2>2. CASE ~hello
      BY <2>2 DEF Promised, Items
    <2> QED
      BY <2>1, <2>2
  <1>2. [i \in Buf |-> Items(i, hello)] = [i \in Buf |-> Items(i, i \in Promised)]
    BY <1>1
  <1> QED
    BY <1>2 DEF Expected, Body

LEMMA WireIs == Wire = Script(fenced)
  BY DEF Wire, Script, Body

(* A client does not stray when every frame is what the handshake says of all. *)
LEMMA FitIsPromised ==
    ASSUME ~Misfit(fenced), hello \in BOOLEAN
    PROVE  Script(fenced) = Script(Promised)
  <1>1. ASSUME NEW i \in Buf PROVE Items(i, i \in fenced) = Items(i, i \in Promised)
    <2>1. Win32 => ((i \in fenced) <=> (i \in Promised))
      BY DEF Misfit, Promised
    <2> QED
      BY <2>1 DEF Items
  <1>2. [i \in Buf |-> Items(i, i \in fenced)] = [i \in Buf |-> Items(i, i \in Promised)]
    BY <1>1
  <1> QED
    BY <1>2 DEF Script, Body

LEMMA ConnectionInit == Init => ConnectionInv
  <1> SUFFICES ASSUME Init PROVE ConnectionInv
    OBVIOUS
  <1> USE ConnectionAssumption DEF Init
  <1>1. TypeOK
    <2>1. Win32 => Instances <= MaxClients
      BY FS_EmptySet DEF Instances
    <2>2. hello \in BOOLEAN
      <3>1. CASE 1 \in fenced
        BY <3>1
      <3>2. CASE 1 \notin fenced
        BY <3>2
      <3> QED
        BY <3>1, <3>2
    <2>3. fenced \subseteq Buf
      OBVIOUS
    <2> QED
      BY <2>1, <2>2, <2>3 DEF TypeOK
  <1>2. BacklogInv
    BY DEF BacklogInv
  <1>3. EndsInv
    BY FS_EmptySet DEF EndsInv, EndsAccounted, Registered
  <1>4. ScriptInv
    BY DEF ScriptInv, Scripted, Open
  <1> QED
    BY <1>1, <1>2, <1>3, <1>4 DEF ConnectionInv

-----------------------------------------------------------------------------
(* The connection that waits longest, and the backlog without it. *)
LEMMA CallerFacts ==
    ASSUME TypeOK, BacklogInv, EndsInv, backlog # <<>>, backlog' = Tail(backlog)
    PROVE  /\ Caller \in Client /\ cpc[Caller] \in {"greet", "gone"}
           /\ stream[Caller] = <<>> /\ got[Caller] = <<>> /\ Caller \notin ends
           /\ Caller \notin strayed /\ ~Registered(Caller) /\ Caller \notin leaked
           /\ backlog' \in Seq(Client)
           /\ Len(backlog') \in Nat /\ Len(backlog) = Len(backlog') + 1
           /\ \A i \in 1..Len(backlog') : backlog'[i] = backlog[i + 1] /\ backlog'[i] # Caller
           /\ Caller = backlog[1]
  <1>1. backlog \in Seq(Client) /\ Len(backlog) \in Nat \ {0}
    BY EmptySeq, LenProperties DEF TypeOK
  <1>2. Caller = backlog[1] /\ 1 \in 1..Len(backlog)
    BY <1>1 DEF Caller
  <1>3. /\ Caller \in Client /\ cpc[Caller] \in {"greet", "gone"}
        /\ stream[Caller] = <<>> /\ got[Caller] = <<>> /\ Caller \notin ends
        /\ Caller \notin strayed
    BY <1>1, <1>2, LenProperties DEF BacklogInv
  <1>4. ~Registered(Caller) /\ Caller \notin leaked
    BY <1>3 DEF EndsInv, EndsAccounted
  <1>5. /\ backlog' \in Seq(Client) /\ Len(backlog') = Len(backlog) - 1
        /\ \A i \in 1..Len(backlog') : backlog'[i] = backlog[i + 1]
    BY <1>1, HeadTailProperties
  <1>6. ASSUME NEW i \in 1..Len(backlog') PROVE backlog'[i] # Caller
    <2>1. i + 1 \in 1..Len(backlog) /\ i + 1 # 1
      BY <1>1, <1>5
    <2> QED
      BY <1>2, <1>5, <2>1 DEF BacklogInv
  <1> QED
    BY <1>1, <1>2, <1>3, <1>4, <1>5, <1>6

(* What a client is promised does not change while it connects. *)
LEMMA ScriptsKept ==
    ASSUME platform' = platform, hello' = hello, fenced \subseteq fenced',
           NEW c, c \in strayed' <=> c \in strayed
    PROVE  Scripts(c) \subseteq Scripts(c)' /\ Expected' = Expected
  <1>1. \A F : Script(F)' = Script(F) /\ Misfit(F)' = Misfit(F)
    BY DEF Script, Body, Items, Handle, Fence, Hello, Misfit, Win32
  <1>2. Script(Promised)' = Script(Promised)
    BY DEF Script, Body, Items, Handle, Fence, Hello, Promised, Win32
  <1>3. Expected' = Expected
    BY DEF Expected, Items, Handle, Fence, Win32
  <1> QED
    BY <1>1, <1>2, <1>3 DEF Scripts

LEMMA ScriptedKept ==
    ASSUME platform' = platform, hello' = hello, fenced \subseteq fenced',
           NEW c \in Client, Scripted(c),
           c \in strayed' <=> c \in strayed, c \in leaked' => c \in leaked,
           Open(c) => (Registered(c)' <=> Registered(c)),
           cpc'[c] = cpc[c], got'[c] = got[c], stream'[c] = stream[c]
    PROVE  Scripted(c)'
  <1>1. Scripts(c) \subseteq Scripts(c)' /\ Expected' = Expected
    BY ScriptsKept
  <1>2. Open(c)' <=> Open(c)
    BY DEF Open
  <1>3. ASSUME Open(c), NEW script, Follows(c, script) PROVE Follows(c, script)'
    BY <1>3 DEF Follows, Begins, Seen
  <1> QED
    BY <1>1, <1>2, <1>3 DEF Scripted

(* However texlink_server_poll goes on with a connection, it takes it from the backlog
   for good...                                                                         *)
LEMMA AcceptBacklog ==
    ASSUME TypeOK, BacklogInv, EndsInv, Accept,
           \A c \in Client \ {Caller} : stream'[c] = stream[c],
           ends' \subseteq ends \cup {Caller}, strayed' \subseteq strayed \cup {Caller}
    PROVE  BacklogInv'
  <1> USE DEF Accept, Polled
  <1>1. /\ Caller \in Client /\ cpc[Caller] \in {"greet", "gone"}
        /\ Len(backlog') \in Nat /\ Len(backlog) = Len(backlog') + 1
        /\ \A i \in 1..Len(backlog') : backlog'[i] = backlog[i + 1] /\ backlog'[i] # Caller
    BY CallerFacts
  <1>2. backlog' \in Seq(Client) /\ cpc' = cpc /\ got' = got
    BY CallerFacts DEF clientVars
  <1>3. ASSUME NEW i \in 1..Len(backlog')
        PROVE  /\ cpc[backlog'[i]] \in {"greet", "gone"}
               /\ stream'[backlog'[i]] = <<>> /\ got[backlog'[i]] = <<>>
               /\ backlog'[i] \notin ends' /\ backlog'[i] \notin strayed'
    <2>1. i + 1 \in 1..Len(backlog) /\ backlog'[i] = backlog[i + 1]
      BY <1>1
    <2>2. backlog'[i] \in Client
      BY <1>2, LenProperties
    <2> QED
      BY <1>1, <2>1, <2>2 DEF BacklogInv
  <1>4. ASSUME NEW i \in 1..Len(backlog'), NEW j \in 1..Len(backlog'), backlog'[i] = backlog'[j]
        PROVE  i = j
    <2>1. i + 1 \in 1..Len(backlog) /\ j + 1 \in 1..Len(backlog)
      BY <1>1
    <2>2. i + 1 = j + 1
      BY <1>1, <1>4, <2>1 DEF BacklogInv
    <2> QED
      BY <2>2
  <1>5. ASSUME NEW c \in Client, cpc[c] = "created"
        PROVE  stream'[c] = <<>> /\ got[c] = <<>> /\ c \notin ends' /\ c \notin strayed'
    BY <1>1, <1>5 DEF BacklogInv
  <1> QED
    BY <1>2, <1>3, <1>4, <1>5 DEF BacklogInv

(* ... and the others keep what they have. *)
LEMMA AcceptScript ==
    ASSUME TypeOK, BacklogInv, EndsInv, ScriptInv, Accept,
           NEW caller, caller = Caller, Scripted(caller)',
           \A c \in Client \ {caller} :
              /\ stream'[c] = stream[c]
              /\ c \in strayed' <=> c \in strayed
              /\ c \in leaked' => c \in leaked
              /\ Registered(c)' <=> Registered(c)
    PROVE  ScriptInv'
  <1> USE DEF Accept, Polled
  <1>1. cpc' = cpc /\ got' = got /\ platform' = platform /\ hello' = hello /\ fenced' = fenced
    BY DEF clientVars, frameVars
  <1>2. ASSUME NEW c \in Client PROVE Scripted(c)'
    <2>1. CASE c = caller
      BY <2>1
    <2>2. CASE c # caller
      BY <1>1, <2>2, ScriptedKept DEF ScriptInv
    <2> QED
      BY <2>1, <2>2
  <1> QED
    BY <1>2 DEF ScriptInv

(* Who is accepted is sent the whole of a script, or a part of it and has no slot. *)
LEMMA CallerScripted ==
    ASSUME TypeOK, BacklogInv, EndsInv, Accept, Strays, leaked' = leaked,
           NEW caller, caller = Caller,
           cpc[caller] = "greet" =>
              /\ stream'[caller] \in Seq(Item)
              /\ \A k \in 1..Len(stream'[caller]) : stream'[caller][k] = Wire[k]
              /\ Len(stream'[caller]) <= Len(Wire)
              /\ Registered(caller)' <=> Len(stream'[caller]) = Len(Wire)
    PROVE  Scripted(caller)'
  <1> USE DEF Accept, Polled, Strays
  <1>1. /\ caller \in Client /\ cpc[caller] \in {"greet", "gone"} /\ got[caller] = <<>>
        /\ caller \notin strayed /\ caller \notin leaked
    BY CallerFacts
  <1>2. UNCHANGED <<platform, hello, fenced, cpc, got>>
    BY DEF clientVars, frameVars
  <1>3. \A F : Script(F)' = Script(F) /\ Misfit(F)' = Misfit(F)
    BY <1>2 DEF Script, Body, Items, Handle, Fence, Hello, Misfit, Win32
  <1>4. Wire \in Scripts(caller)'
    <2>1. CASE Misfit(fenced)
      <3>1. caller \in strayed' /\ fenced' \in SUBSET fenced' /\ Misfit(fenced)'
        BY <1>1, <1>2, <2>1 DEF Misfit, Win32
      <3> QED
        BY <1>2, <1>3, <3>1, WireIs DEF Scripts
    <2>2. CASE ~Misfit(fenced)
      <3>1. caller \notin strayed'
        BY <1>1, <2>2 DEF Misfit
      <3>2. Wire = Script(Promised)
        BY <2>2, WireIs, FitIsPromised DEF TypeOK
      <3>3. Script(Promised)' = Script(Promised)
        BY <1>2 DEF Script, Body, Items, Handle, Fence, Hello, Promised, Win32
      <3> QED
        BY <3>1, <3>2, <3>3 DEF Scripts
    <2> QED
      BY <2>1, <2>2
  <1>5. Wire \in Seq(Item) /\ Len(Wire) \in Nat
    BY WireIs, ScriptFacts
  <1>6. ASSUME cpc[caller] = "greet" PROVE Follows(caller, Wire)'
    <2>1. PICK q : q = stream'[caller]
      OBVIOUS
    <2>2. Len(q) \in Nat /\ Len(got'[caller]) = 0 /\ got'[caller] = <<>>
      BY <1>1, <1>2, <1>6, <2>1, LenProperties
    <2>3. Seen(caller)' = 0
      BY <1>2, <1>6 DEF Seen
    <2>4. Wire' = Wire
      BY <1>2, <1>3, WireIs DEF Wire, Items, Handle, Fence, Hello, Win32
    <2>5. \A k \in 1..Len(q) : 0 + k = k
      BY <2>2
    <2>6. 0 + Len(q) = Len(q)
      BY <2>2
    <2>7. Begins(q, Wire, 0)
      BY <1>6, <2>1, <2>5, <2>6 DEF Begins
    <2>8. Begins(stream[caller], Wire, Seen(caller))'
      BY <2>1, <2>3, <2>4, <2>7
    <2> QED
      BY <1>6, <2>1, <2>2, <2>3, <2>4, <2>6, <2>8 DEF Follows
  <1>7. Wire' = Wire
    BY <1>2 DEF Wire, Items, Handle, Fence, Hello, Win32
  <1> QED
    BY <1>1, <1>2, <1>4, <1>6, <1>7 DEF Scripted, Open

(* A client that is given an end leaves room for the listener: on Win32 there was a
   further instance.                                                                *)
LEMMA InstancesBounded ==
    ASSUME EndsInv, listening, NextInstance, listening' = listening, platform' = platform,
           NEW c, c \notin ends, ends' = ends \cup {c}
    PROVE  IsFiniteSet(ends') /\ (Win32 => Instances <= MaxClients)'
  <1>1. IsFiniteSet(ends) /\ Cardinality(ends) \in Nat
    BY FS_CardinalityType DEF EndsInv
  <1>2. IsFiniteSet(ends') /\ Cardinality(ends') = Cardinality(ends) + 1
    BY <1>1, FS_AddElement
  <1>3. Win32 => Cardinality(ends) + 1 < MaxClients
    BY DEF NextInstance, Instances
  <1> QED
    BY <1>1, <1>2, <1>3, ConnectionAssumption DEF Instances, Win32

LEMMA AcceptClientStep ==
    ASSUME ConnectionInv, AcceptClient PROVE ConnectionInv'
  <1> USE DEF AcceptClient, Accept, Polled, Strays
  <1>1. PICK caller : caller = Caller
    OBVIOUS
  <1>2. /\ caller \in Client /\ ~Registered(caller) /\ caller \notin ends /\ caller \notin leaked
        /\ backlog' \in Seq(Client)
    BY <1>1, CallerFacts DEF ConnectionInv
  <1>3. PICK s \in Slot : client_fds[s] = NoClient /\ client_fds' = [client_fds EXCEPT ![s] = caller]
    BY <1>1 DEF LowestFree, FreeSlots
  <1>4. /\ client_fds' \in [Slot -> Client \cup {NoClient}]
        /\ \A t \in Slot : client_fds[t] # caller
        /\ \A t \in Slot : client_fds'[t] = IF t = s THEN caller ELSE client_fds[t]
    BY <1>1, <1>2, <1>3 DEF TypeOK, ConnectionInv, Registered
  <1>5. IsFiniteSet(ends') /\ (Win32 => Instances <= MaxClients)'
    BY <1>1, <1>2, InstancesBounded DEF ConnectionInv
  <1>6. TypeOK'
    <2>1. stream' \in [Client -> Seq(Item)]
      BY <1>1, WireIs, ScriptFacts DEF TypeOK, ConnectionInv
    <2>2. strayed' \subseteq Client
      BY <1>1, <1>2 DEF TypeOK, ConnectionInv
    <2>3. \A t \in Slot : client_fds'[t] # NoClient => client_fds'[t] \in ends'
      BY <1>1, <1>4 DEF TypeOK, ConnectionInv
    <2>4. \A t, u \in Slot : client_fds'[t] = client_fds'[u] /\ client_fds'[t] # NoClient => t = u
      BY <1>1, <1>4 DEF TypeOK, ConnectionInv
    <2> QED
      BY <1>1, <1>2, <1>4, <1>5, <2>1, <2>2, <2>3, <2>4 DEF TypeOK, ConnectionInv, frameVars, clientVars
  <1>7. BacklogInv'
    BY <1>1, AcceptBacklog DEF ConnectionInv, TypeOK
  <1>8. EndsInv'
    <2>1. {c \in Client : Registered(c)}' = {c \in Client : Registered(c)} \cup {caller}
      BY <1>1, <1>2, <1>3, <1>4, ConnectionAssumption DEF Registered
    <2> QED
      BY <1>1, <1>2, <1>4, <1>5, <2>1 DEF EndsInv, EndsAccounted, ConnectionInv, Win32
  <1>9. ScriptInv'
    <2>1. stream'[caller] = Wire /\ Wire \in Seq(Item)
      BY <1>1, <1>2, WireIs, ScriptFacts DEF TypeOK, ConnectionInv
    <2>2. /\ Registered(caller)'
          /\ \A c \in Client \ {caller} : Registered(c)' <=> Registered(c)
      BY <1>1, <1>3, <1>4, ConnectionAssumption DEF Registered
    <2>3. Scripted(caller)'
      BY <1>1, <2>1, <2>2, CallerScripted, LenProperties DEF ConnectionInv
    <2> QED
      BY <1>1, <2>2, <2>3, AcceptScript DEF ConnectionInv, TypeOK
  <1> QED
    BY <1>1, <1>6, <1>7, <1>8, <1>9 DEF ConnectionInv

LEMMA AcceptPartStep ==
    ASSUME ConnectionInv, AcceptPart PROVE ConnectionInv'
  <1> USE DEF AcceptPart, Accept, Polled, Strays
  <1>1. PICK caller : caller = Caller
    OBVIOUS
  <1>2. caller \in Client /\ backlog' \in Seq(Client) /\ ~Registered(caller)
    BY <1>1, CallerFacts DEF ConnectionInv
  <1>3. PICK k \in 0..(Len(Wire) - 1) :
           stream' = [stream EXCEPT ![caller] = IF Open(caller) THEN SubSeq(Wire, 1, k) ELSE <<>>]
    BY <1>1
  <1>4. Wire \in Seq(Item) /\ Len(Wire) \in Nat
    BY <1>1, WireIs, ScriptFacts
  <1>5. /\ SubSeq(Wire, 1, k) \in Seq(Item) /\ Len(SubSeq(Wire, 1, k)) = k
        /\ \A i \in 1..k : SubSeq(Wire, 1, k)[i] = Wire[i]
    BY <1>1, <1>4
  <1>6. TypeOK'
    <2>1. stream' \in [Client -> Seq(Item)]
      BY <1>1, <1>3, <1>5, EmptySeq DEF TypeOK, ConnectionInv
    <2>2. strayed' \subseteq Client
      BY <1>1, <1>2 DEF TypeOK, ConnectionInv
    <2> QED
      BY <1>1, <1>2, <2>1, <2>2 DEF TypeOK, ConnectionInv, frameVars, clientVars, Win32, Instances
  <1>7. BacklogInv'
    BY <1>1, AcceptBacklog, <1>3 DEF ConnectionInv, TypeOK
  <1>8. EndsInv'
    BY <1>1 DEF EndsInv, EndsAccounted, Registered, ConnectionInv, Win32
  <1>9. ScriptInv'
    <2>1. \A c \in Client : Registered(c)' <=> Registered(c)
      BY <1>1 DEF Registered
    <2>2. ASSUME cpc[caller] = "greet" PROVE stream'[caller] = SubSeq(Wire, 1, k)
      BY <1>1, <1>2, <1>3, <2>2 DEF TypeOK, ConnectionInv, Open
    <2>3. Scripted(caller)'
      <3>1. ASSUME cpc[caller] = "greet"
            PROVE  /\ stream'[caller] \in Seq(Item) /\ Len(stream'[caller]) = k
                   /\ \A i \in 1..k : stream'[caller][i] = Wire[i]
        BY <1>5, <2>2, <3>1
      <3>2. k <= Len(Wire) /\ k # Len(Wire)
        BY <1>4
      <3> QED
        BY <1>1, <1>2, <2>1, <3>1, <3>2, CallerScripted DEF ConnectionInv
    <2> QED
      BY <1>1, <1>3, <2>1, <2>3, AcceptScript DEF ConnectionInv, TypeOK
  <1> QED
    BY <1>1, <1>6, <1>7, <1>8, <1>9 DEF ConnectionInv

LEMMA AcceptRefuseStep ==
    ASSUME ConnectionInv, AcceptRefuse \/ AcceptLeaks PROVE ConnectionInv'
  <1> USE DEF AcceptRefuse, AcceptLeaks, Accept, Polled
  <1>1. PICK caller : caller = Caller
    OBVIOUS
  <1>2. /\ caller \in Client /\ ~Registered(caller) /\ caller \notin ends
        /\ stream[caller] = <<>> /\ backlog' \in Seq(Client)
        /\ cpc[caller] \in {"greet", "gone"}
    BY <1>1, CallerFacts DEF ConnectionInv
  <1>3. /\ ends' \in {ends, ends \cup {caller}}
        /\ leaked' \in {leaked, leaked \cup {caller}}
        /\ stream' = stream /\ client_fds' = client_fds
    BY <1>1
  <1>4. IsFiniteSet(ends') /\ (Win32 => Instances <= MaxClients)'
    <2>1. CASE AcceptRefuse
      BY <1>1, <2>1 DEF ConnectionInv, EndsInv, TypeOK, Instances, Win32
    <2>2. CASE AcceptLeaks
      BY <1>1, <1>2, <2>2, InstancesBounded DEF ConnectionInv
    <2> QED
      BY <1>1, <2>1, <2>2
  <1>5. TypeOK'
    BY <1>1, <1>2, <1>3, <1>4 DEF TypeOK, ConnectionInv, frameVars, clientVars
  <1>6. BacklogInv'
    BY <1>1, <1>3, AcceptBacklog DEF ConnectionInv
  <1>7. EndsInv'
    <2>1. CASE AcceptRefuse
      BY <1>1, <2>1 DEF EndsInv, EndsAccounted, Registered, ConnectionInv, Win32
    <2>2. CASE AcceptLeaks
      BY <1>1, <1>2, <1>4, <2>2 DEF EndsInv, EndsAccounted, Registered, ConnectionInv, Win32
    <2> QED
      BY <1>1, <2>1, <2>2
  <1>8. ScriptInv'
    <2>1. \A c \in Client : Registered(c)' <=> Registered(c)
      BY <1>1 DEF Registered
    <2>2. UNCHANGED <<platform, hello, fenced, strayed, cpc, got, stream>>
      BY <1>1 DEF frameVars, clientVars
    <2>3. Scripted(caller)'
      <3>1. Scripts(caller) \subseteq Scripts(caller)' /\ Expected' = Expected
        BY <1>1, <2>2, ScriptsKept
      <3>2. Scripted(caller)
        BY <1>1, <1>2 DEF ConnectionInv, ScriptInv
      <3>3. ASSUME NEW script, Follows(caller, script) PROVE Follows(caller, script)'
        BY <1>1, <1>2, <2>1, <2>2, <3>3 DEF Follows, Begins, Seen
      <3> QED
        BY <1>1, <1>2, <2>2, <3>1, <3>2, <3>3 DEF Scripted, Open
    <2> QED
      BY <1>1, <1>3, <2>1, <2>2, <2>3, AcceptScript DEF ConnectionInv
  <1> QED
    BY <1>1, <1>5, <1>6, <1>7, <1>8 DEF ConnectionInv

-----------------------------------------------------------------------------
LEMMA EndsKept ==
    ASSUME EndsInv, UNCHANGED <<platform, client_fds, listening, ends, leaked>>
    PROVE  EndsInv' /\ Instances' = Instances /\ (Win32' <=> Win32)
  BY DEF EndsInv, EndsAccounted, Registered, Instances, Win32

LEMMA ListenerLostStep ==
    ASSUME ConnectionInv, ListenerLost PROVE ConnectionInv'
  <1> USE DEF ListenerLost, Polled, NextInstance
  <1>1. /\ Caller \in Client /\ backlog' \in Seq(Client)
        /\ Len(backlog') \in Nat /\ Len(backlog) = Len(backlog') + 1
        /\ \A i \in 1..Len(backlog') : backlog'[i] = backlog[i + 1]
    BY CallerFacts DEF ConnectionInv
  <1>2. Win32 /\ Win32' /\ listening' = FALSE /\ ends' = ends
    BY DEF Win32
  <1>3. TypeOK'
    <2>1. Instances' <= MaxClients
      <3>1. Cardinality(ends) \in Nat
        BY FS_CardinalityType DEF EndsInv, ConnectionInv
      <3>2. Instances = Cardinality(ends) + 1 /\ Instances' = Cardinality(ends)
        BY <3>1 DEF Instances
      <3> QED
        BY <1>2, <3>1, <3>2, ConnectionAssumption DEF TypeOK, ConnectionInv
    <2> QED
      BY <1>1, <2>1 DEF TypeOK, ConnectionInv, frameVars, clientVars
  <1>4. BacklogInv'
    <2>1. ASSUME NEW i \in 1..Len(backlog')
          PROVE  i + 1 \in 1..Len(backlog) /\ backlog'[i] = backlog[i + 1]
      BY <1>1
    <2> QED
      BY <1>1, <2>1 DEF BacklogInv, ConnectionInv, clientVars
  <1>5. EndsInv'
    BY <1>2 DEF EndsInv, EndsAccounted, Registered, ConnectionInv
  <1>6. ScriptInv'
    <2>1. \A c \in Client : Registered(c)' <=> Registered(c)
      BY DEF Registered
    <2> QED
      BY <2>1, ScriptedKept DEF ScriptInv, ConnectionInv, frameVars, clientVars
  <1> QED
    BY <1>3, <1>4, <1>5, <1>6 DEF ConnectionInv

LEMMA DropStep ==
    ASSUME ConnectionInv, NEW s \in Slot, Drop(s) PROVE ConnectionInv'
  <1> USE DEF Drop
  <1>1. /\ client_fds[s] \in Client
        /\ \A t \in Slot : client_fds'[t] = IF t = s THEN NoClient ELSE client_fds[t]
        /\ \A t \in Slot : t # s => client_fds[t] # client_fds[s]
        /\ client_fds' \in [Slot -> Client \cup {NoClient}]
    BY DEF TypeOK, ConnectionInv
  <1>2. IsFiniteSet(ends') /\ (Win32 => Instances <= MaxClients)'
    <2>1. /\ Cardinality(ends) \in Nat /\ Cardinality(ends') \in Nat
          /\ IsFiniteSet(ends') /\ Cardinality(ends') <= Cardinality(ends)
      BY FS_Subset, FS_CardinalityType DEF EndsInv, ConnectionInv
    <2>2. Win32 => Instances <= MaxClients
      BY DEF TypeOK, ConnectionInv
    <2> QED
      BY <2>1, <2>2, ConnectionAssumption DEF Instances, Win32
  <1>3. TypeOK'
    <2>1. \A t \in Slot : client_fds'[t] # NoClient => client_fds'[t] \in ends'
      BY <1>1 DEF TypeOK, ConnectionInv
    <2>2. \A t, u \in Slot : client_fds'[t] = client_fds'[u] /\ client_fds'[t] # NoClient => t = u
      BY <1>1 DEF TypeOK, ConnectionInv
    <2> QED
      BY <1>1, <1>2, <2>1, <2>2 DEF TypeOK, ConnectionInv, frameVars, clientVars
  <1>4. BacklogInv'
    BY DEF BacklogInv, ConnectionInv, clientVars
  <1>5. EndsInv'
    <2>1. {c \in Client : Registered(c)}' = {c \in Client : Registered(c)} \ {client_fds[s]}
      BY <1>1, ConnectionAssumption DEF Registered
    <2>2. client_fds[s] \notin leaked
      BY DEF EndsInv, ConnectionInv
    <2>3. \A t \in Slot : client_fds'[t] \notin leaked
      BY <1>1, ConnectionAssumption DEF EndsInv, ConnectionInv, TypeOK
    <2> QED
      BY <1>2, <2>1, <2>2, <2>3 DEF EndsInv, EndsAccounted, ConnectionInv, Win32
  <1>6. ScriptInv'
    <2>1. \A c \in Client : Open(c) => (Registered(c)' <=> Registered(c))
      BY <1>1, ConnectionAssumption DEF Registered
    <2> QED
      BY <2>1, ScriptedKept DEF ScriptInv, ConnectionInv, frameVars, clientVars
  <1> QED
    BY <1>3, <1>4, <1>5, <1>6 DEF ConnectionInv

LEMMA SetSyncStep ==
    ASSUME ConnectionInv, NEW i \in Buf, SetSync(i) PROVE ConnectionInv'
  <1> USE DEF SetSync, serverVars, clientVars
  <1>1. EndsInv' /\ Instances' = Instances /\ (Win32' <=> Win32)
    BY EndsKept DEF ConnectionInv
  <1>2. TypeOK'
    BY <1>1 DEF TypeOK, ConnectionInv
  <1>3. BacklogInv'
    BY DEF BacklogInv, ConnectionInv
  <1>4. ScriptInv'
    <2>1. \A c \in Client : Registered(c)' <=> Registered(c)
      BY DEF Registered
    <2> QED
      BY <2>1, ScriptedKept DEF ScriptInv, ConnectionInv
  <1> QED
    BY <1>1, <1>2, <1>3, <1>4 DEF ConnectionInv

(* A step of one client's thread which is not in the backlog. *)
LEMMA ClientBacklog ==
    ASSUME TypeOK, BacklogInv, NEW c \in Client, cpc[c] # "created",
           \/ \A i \in 1..Len(backlog) : backlog[i] # c
           \/ cpc'[c] \in {"greet", "gone"} /\ stream'[c] = <<>> /\ got'[c] = <<>>,
           cpc'[c] # "created", UNCHANGED <<backlog, ends, strayed>>,
           \A d \in Client \ {c} :
              cpc'[d] = cpc[d] /\ stream'[d] = stream[d] /\ got'[d] = got[d]
    PROVE  BacklogInv'
  <1>1. \A i \in 1..Len(backlog) : backlog[i] \in Client
    BY LenProperties DEF TypeOK
  <1> QED
    BY <1>1 DEF BacklogInv

LEMMA ClientScript ==
    ASSUME ScriptInv, NEW c \in Client, Scripted(c)',
           UNCHANGED <<platform, hello, fenced, strayed, leaked, client_fds>>,
           \A d \in Client \ {c} :
              cpc'[d] = cpc[d] /\ stream'[d] = stream[d] /\ got'[d] = got[d]
    PROVE  ScriptInv'
  <1>1. \A d \in Client : Registered(d)' <=> Registered(d)
    BY DEF Registered
  <1>2. ASSUME NEW d \in Client PROVE Scripted(d)'
    <2>1. CASE d = c
      BY <2>1
    <2>2. CASE d # c
      BY <1>1, <2>2, ScriptedKept DEF ScriptInv
    <2> QED
      BY <2>1, <2>2
  <1> QED
    BY <1>2 DEF ScriptInv

LEMMA ConnectStep ==
    ASSUME ConnectionInv, NEW c \in Client, Connect(c) PROVE ConnectionInv'
  <1> USE DEF Connect, Goto
  <1>1. backlog \in Seq(Client) /\ Len(backlog) \in Nat
    BY LenProperties DEF TypeOK, ConnectionInv
  <1>2. /\ backlog' \in Seq(Client) /\ Len(backlog') = Len(backlog) + 1
        /\ \A i \in 1..Len(backlog) : backlog'[i] = backlog[i]
        /\ backlog'[Len(backlog) + 1] = c
    BY <1>1, AppendProperties
  <1>3. \A i \in 1..Len(backlog') :
           \/ i \in 1..Len(backlog) /\ backlog'[i] = backlog[i] /\ backlog[i] # c
           \/ i = Len(backlog) + 1 /\ backlog'[i] = c
    <2>1. \A i \in 1..Len(backlog) : backlog[i] # c
      BY DEF BacklogInv, ConnectionInv
    <2> QED
      BY <1>1, <1>2, <2>1
  <1>4. \A d \in Client : cpc'[d] = IF d = c THEN "greet" ELSE cpc[d]
    BY DEF TypeOK, ConnectionInv
  <1>5. EndsInv' /\ Instances' = Instances /\ (Win32' <=> Win32)
    BY EndsKept DEF ConnectionInv
  <1>6. TypeOK'
    BY <1>2, <1>5 DEF TypeOK, ConnectionInv, frameVars
  <1>7. BacklogInv'
    <2>1. stream[c] = <<>> /\ got[c] = <<>> /\ c \notin ends
      BY DEF BacklogInv, ConnectionInv
    <2>2. ASSUME NEW i \in 1..Len(backlog')
          PROVE  /\ cpc'[backlog'[i]] \in {"greet", "gone"}
                 /\ stream[backlog'[i]] = <<>> /\ got[backlog'[i]] = <<>>
                 /\ backlog'[i] \notin ends
      <3>1. backlog'[i] \in Client
        BY <1>2, LenProperties
      <3> QED
        BY <1>3, <1>4, <2>1, <3>1 DEF BacklogInv, ConnectionInv
    <2>3. \A i, j \in 1..Len(backlog') : backlog'[i] = backlog'[j] => i = j
      BY <1>3 DEF BacklogInv, ConnectionInv
    <2> QED
      BY <1>4, <2>2, <2>3 DEF BacklogInv, ConnectionInv
  <1>8. ScriptInv'
    <2>1. /\ stream[c] = <<>> /\ got[c] = <<>> /\ c \notin strayed /\ ~Registered(c)
          /\ c \notin leaked
      BY DEF BacklogInv, EndsInv, EndsAccounted, ConnectionInv
    <2>2. Scripts(c) \subseteq Scripts(c)' /\ Expected' = Expected
      BY ScriptsKept DEF frameVars
    <2>3. PICK script : script = Script(Promised)
      OBVIOUS
    <2>4. script \in Scripts(c)' /\ Len(script) \in Nat /\ Len(script) > 1
      BY <2>1, <2>2, <2>3, ScriptFacts DEF Scripts
    <2>5. Follows(c, script)'
      <3>1. Seen(c)' = 0 /\ stream'[c] = <<>> /\ got'[c] = <<>> /\ ~Registered(c)'
        BY <1>4, <2>1 DEF Seen, Registered
      <3>2. Begins(<<>>, script, 0)
        BY <2>4 DEF Begins
      <3>3. Begins(stream[c], script, Seen(c))'
        BY <3>1, <3>2
      <3> QED
        BY <2>4, <3>1, <3>3 DEF Follows
    <2>6. Scripted(c)'
      BY <1>4, <2>1, <2>4, <2>5 DEF Scripted
    <2> QED
      BY <1>4, <2>6, ClientScript DEF ConnectionInv, frameVars
  <1> QED
    BY <1>5, <1>6, <1>7, <1>8 DEF ConnectionInv

LEMMA ConnectGivesUpStep ==
    ASSUME ConnectionInv, NEW c \in Client, ConnectGivesUp(c) PROVE ConnectionInv'
  <1> USE DEF ConnectGivesUp, Goto, serverVars, frameVars
  <1>1. \A d \in Client : cpc'[d] = IF d = c THEN "error" ELSE cpc[d]
    BY DEF TypeOK, ConnectionInv
  <1>2. EndsInv' /\ Instances' = Instances /\ (Win32' <=> Win32)
    BY EndsKept DEF ConnectionInv
  <1>3. TypeOK'
    BY <1>2 DEF TypeOK, ConnectionInv
  <1>4. BacklogInv'
    <2>1. \A i \in 1..Len(backlog) : backlog[i] \in Client
      BY LenProperties DEF TypeOK, ConnectionInv
    <2> QED
      BY <1>1, <2>1 DEF BacklogInv, ConnectionInv
  <1>5. ScriptInv'
    <2>1. c \notin leaked
      BY DEF BacklogInv, EndsInv, EndsAccounted, ConnectionInv
    <2>2. Scripted(c)'
      BY <1>1, <2>1 DEF Scripted, Open
    <2> QED
      BY <1>1, <2>2, ClientScript DEF ConnectionInv
  <1> QED
    BY <1>2, <1>3, <1>4, <1>5 DEF ConnectionInv

(* The element that is received, and the stream without it. *)
LEMMA StreamFacts ==
    ASSUME NEW q \in Seq(Item), q # <<>>
    PROVE  /\ Head(q) \in Item /\ Tail(q) \in Seq(Item) /\ Head(q) = q[1]
           /\ Len(q) \in Nat \ {0} /\ Len(Tail(q)) \in Nat /\ Len(q) = Len(Tail(q)) + 1
           /\ \A k \in 1..Len(Tail(q)) : Tail(q)[k] = q[k + 1] /\ k + 1 \in 1..Len(q)
  <1>1. /\ Head(q) \in Item /\ Tail(q) \in Seq(Item) /\ Len(q) \in Nat \ {0}
        /\ Len(Tail(q)) = Len(q) - 1 /\ \A k \in 1..Len(Tail(q)) : Tail(q)[k] = q[k + 1]
    BY EmptySeq, HeadTailProperties
  <1>2. Head(q) = q[1]
    OBVIOUS
  <1> QED
    BY <1>1, <1>2

LEMMA BeginsTail ==
    ASSUME NEW q \in Seq(Item), q # <<>>, NEW t \in Seq(Item), NEW n \in Nat, Begins(q, t, n)
    PROVE  /\ Begins(Tail(q), t, n + 1) /\ Head(q) = t[n + 1] /\ n < Len(t)
           /\ (n + 1) + Len(Tail(q)) = n + Len(q)
  <1>1. PICK l \in Nat : l = Len(Tail(q)) /\ Len(q) = l + 1
    BY StreamFacts
  <1>2. PICK m \in Nat : m = Len(t)
    BY LenProperties
  <1>3. n + (l + 1) <= m /\ \A k \in 1..(l + 1) : q[k] = t[n + k]
    BY <1>1, <1>2 DEF Begins
  <1>4. ASSUME NEW k \in 1..l PROVE Tail(q)[k] = t[(n + 1) + k]
    <2>1. k + 1 \in 1..(l + 1) /\ n + (k + 1) = (n + 1) + k
      OBVIOUS
    <2>2. Tail(q)[k] = q[k + 1]
      BY <1>1, StreamFacts
    <2> QED
      BY <1>3, <2>1, <2>2
  <1>5. Head(q) = t[n + 1]
    <2>1. 1 \in 1..(l + 1) /\ Head(q) = q[1]
      BY StreamFacts
    <2> QED
      BY <1>3, <2>1
  <1>6. (n + 1) + l <= m /\ n < m /\ (n + 1) + l = n + (l + 1)
    BY <1>3
  <1> QED
    BY <1>1, <1>2, <1>4, <1>5, <1>6 DEF Begins

LEMMA RecvHandshakeStep ==
    ASSUME ConnectionInv, NEW c \in Client, RecvHandshake(c) PROVE ConnectionInv'
  <1> USE DEF RecvHandshake, Goto, serverVars, frameVars
  <1>1. /\ \A d \in Client : cpc'[d] = IF d = c THEN "handles" ELSE cpc[d]
        /\ \A d \in Client : stream'[d] = IF d = c THEN Tail(stream[c]) ELSE stream[d]
        /\ got' = got
    BY DEF TypeOK, ConnectionInv
  <1>2. stream[c] \in Seq(Item) /\ stream[c] # <<>>
    BY DEF TypeOK, ConnectionInv
  <1>3. EndsInv' /\ Instances' = Instances /\ (Win32' <=> Win32)
    BY EndsKept DEF ConnectionInv
  <1>4. TypeOK'
    <2>1. Tail(stream[c]) \in Seq(Item)
      BY <1>2, StreamFacts
    <2> QED
      BY <1>3, <2>1 DEF TypeOK, ConnectionInv
  <1>5. BacklogInv'
    <2>1. \A i \in 1..Len(backlog) : backlog[i] # c
      BY DEF BacklogInv, ConnectionInv
    <2> QED
      BY <1>1, <2>1, ClientBacklog DEF ConnectionInv
  <1>6. ScriptInv'
    <2>1. PICK script \in Scripts(c) : Follows(c, script)
      BY DEF ConnectionInv, ScriptInv, Scripted, Open
    <2>2. Scripts(c) \subseteq Scripts(c)' /\ Expected' = Expected
      BY ScriptsKept
    <2>3. script \in Seq(Item)
      BY ScriptFacts DEF Scripts
    <2>4. Seen(c) = 0 /\ got[c] = <<>> /\ Seen(c)' = 1 /\ got'[c] = <<>>
      BY <1>1, <2>1 DEF Follows, Seen
    <2>5. Begins(Tail(stream[c]), script, 1) /\ 1 + Len(Tail(stream[c])) = 0 + Len(stream[c])
      BY <1>2, <2>1, <2>3, <2>4, BeginsTail DEF Follows
    <2>6. Begins(stream[c], script, Seen(c))'
      BY <1>1, <2>4, <2>5
    <2>7. Registered(c)' <=> Registered(c)
      BY DEF Registered
    <2>8. Follows(c, script)'
      BY <1>1, <2>1, <2>4, <2>5, <2>6, <2>7 DEF Follows
    <2>9. Len(Expected) \in Nat \ {0}
      BY ExpectedIs, BodyFacts DEF TypeOK, ConnectionInv
    <2>10. c \notin leaked
      BY DEF ConnectionInv, ScriptInv, Scripted
    <2>11. Scripted(c)'
      BY <1>1, <2>2, <2>4, <2>8, <2>9, <2>10 DEF Scripted
    <2> QED
      BY <1>1, <2>11, ClientScript DEF ConnectionInv
  <1> QED
    BY <1>3, <1>4, <1>5, <1>6 DEF ConnectionInv

LEMMA RecvItemStep ==
    ASSUME ConnectionInv, NEW c \in Client, RecvItem(c) PROVE ConnectionInv'
  <1> USE DEF RecvItem, Goto, serverVars, frameVars
  <1>1. /\ cpc'[c] = IF Len(got[c]) + 1 = Len(Expected) THEN "connected" ELSE "handles"
        /\ \A d \in Client \ {c} : cpc'[d] = cpc[d] /\ stream'[d] = stream[d] /\ got'[d] = got[d]
        /\ stream'[c] = Tail(stream[c])
        /\ got'[c] = Append(got[c], Head(stream[c]))
    BY DEF TypeOK, ConnectionInv
  <1>2. stream[c] \in Seq(Item) /\ stream[c] # <<>> /\ got[c] \in Seq(Item)
    BY DEF TypeOK, ConnectionInv
  <1>3. EndsInv' /\ Instances' = Instances /\ (Win32' <=> Win32)
    BY EndsKept DEF ConnectionInv
  <1>4. TypeOK'
    <2>1. Tail(stream[c]) \in Seq(Item) /\ Append(got[c], Head(stream[c])) \in Seq(Item)
      BY <1>2, StreamFacts, AppendProperties
    <2>2. stream' \in [Client -> Seq(Item)] /\ got' \in [Client -> Seq(Item)]
      BY <2>1 DEF TypeOK, ConnectionInv
    <2>3. cpc' \in [Client -> {"created", "greet", "handles", "connected", "error", "gone"}]
      BY DEF TypeOK, ConnectionInv
    <2> QED
      BY <1>3, <2>2, <2>3 DEF TypeOK, ConnectionInv
  <1>5. BacklogInv'
    <2>1. \A i \in 1..Len(backlog) : backlog[i] # c
      BY DEF BacklogInv, ConnectionInv
    <2> QED
      BY <1>1, <2>1, ClientBacklog DEF ConnectionInv
  <1>6. ScriptInv'
    <2>1. PICK script \in Scripts(c) : Follows(c, script)
      BY DEF ConnectionInv, ScriptInv, Scripted, Open
    <2>2. Scripts(c) \subseteq Scripts(c)' /\ Expected' = Expected
      BY ScriptsKept
    <2>3. script \in Seq(Item)
      BY ScriptFacts DEF Scripts
    <2>4. PICK g \in Nat : g = Len(got[c]) /\ Len(got'[c]) = g + 1
      BY <1>1, <1>2, StreamFacts, AppendProperties, LenProperties
    <2>5. Seen(c) = g + 1 /\ Seen(c)' = (g + 1) + 1 /\ cpc'[c] # "greet"
      BY <1>1, <2>4 DEF Seen
    <2>6. /\ Begins(Tail(stream[c]), script, (g + 1) + 1)
          /\ Head(stream[c]) = script[(g + 1) + 1]
          /\ ((g + 1) + 1) + Len(Tail(stream[c])) = (g + 1) + Len(stream[c])
      <3>1. PICK n \in Nat : n = g + 1
        OBVIOUS
      <3>2. Begins(stream[c], script, n)
        BY <2>1, <2>5, <3>1 DEF Follows
      <3>3. /\ Begins(Tail(stream[c]), script, n + 1) /\ Head(stream[c]) = script[n + 1]
            /\ (n + 1) + Len(Tail(stream[c])) = n + Len(stream[c])
        BY <1>2, <2>3, <3>2, BeginsTail
      <3> QED
        BY <3>1, <3>3
    <2>7. Begins(stream[c], script, Seen(c))'
      BY <1>1, <2>5, <2>6
    <2>8. ASSUME NEW k \in 1..(g + 1) PROVE got'[c][k] = script[k + 1]
      <3>1. CASE k # g + 1
        <4>1. k \in 1..g
          BY <3>1
        <4>2. got'[c][k] = got[c][k]
          BY <1>1, <1>2, <2>4, <4>1, StreamFacts, AppendProperties
        <4> QED
          BY <2>1, <2>4, <4>1, <4>2 DEF Follows
      <3>2. CASE k = g + 1
        <4>1. got'[c][k] = Head(stream[c])
          BY <1>1, <1>2, <2>4, <3>2, StreamFacts, AppendProperties
        <4> QED
          BY <2>6, <3>2, <4>1
      <3> QED
        BY <3>1, <3>2
    <2>9. Registered(c)' <=> Registered(c)
      BY DEF Registered
    <2>10. Follows(c, script)'
      BY <1>1, <2>1, <2>4, <2>5, <2>6, <2>7, <2>8, <2>9 DEF Follows
    <2>11. Len(Expected) \in Nat \ {0} /\ g < Len(Expected)
      BY <2>4, ExpectedIs, BodyFacts DEF TypeOK, ConnectionInv, ScriptInv, Scripted
    <2>12. c \notin leaked
      BY DEF ConnectionInv, ScriptInv, Scripted
    <2>13. Scripted(c)'
      BY <1>1, <2>2, <2>4, <2>10, <2>11, <2>12 DEF Scripted
    <2> QED
      BY <1>1, <2>13, ClientScript DEF ConnectionInv
  <1> QED
    BY <1>3, <1>4, <1>5, <1>6 DEF ConnectionInv

LEMMA ClientEndsStep ==
    ASSUME ConnectionInv, NEW c \in Client, RecvFails(c) \/ Leave(c) PROVE ConnectionInv'
  <1> USE DEF RecvFails, Leave, Ends, Goto, serverVars, frameVars
  <1>1. /\ cpc'[c] \in {"error", "gone"} /\ stream'[c] = <<>> /\ got'[c] = <<>>
        /\ \A d \in Client \ {c} : cpc'[d] = cpc[d] /\ stream'[d] = stream[d] /\ got'[d] = got[d]
        /\ cpc[c] # "created"
    BY DEF TypeOK, ConnectionInv, Open
  <1>2. EndsInv' /\ Instances' = Instances /\ (Win32' <=> Win32)
    BY EndsKept DEF ConnectionInv
  <1>3. TypeOK'
    <2>1. stream' \in [Client -> Seq(Item)] /\ got' \in [Client -> Seq(Item)]
      <3>1. <<>> \in Seq(Item)
        BY EmptySeq
      <3>2. stream \in [Client -> Seq(Item)] /\ got \in [Client -> Seq(Item)]
        BY DEF TypeOK, ConnectionInv
      <3>3. stream' = [stream EXCEPT ![c] = <<>>] /\ got' = [got EXCEPT ![c] = <<>>]
        OBVIOUS
      <3> QED
        BY <3>1, <3>2, <3>3
    <2>2. cpc' \in [Client -> {"created", "greet", "handles", "connected", "error", "gone"}]
      BY DEF TypeOK, ConnectionInv
    <2> QED
      BY <1>2, <2>1, <2>2 DEF TypeOK, ConnectionInv
  <1>4. BacklogInv'
    <2>1. CASE RecvFails(c)
      <3>1. \A i \in 1..Len(backlog) : backlog[i] # c
        BY <2>1, LenProperties DEF Eof, ToSet, TypeOK, ConnectionInv
      <3> QED
        BY <1>1, <3>1, ClientBacklog DEF ConnectionInv
    <2>2. CASE Leave(c)
      <3>1. cpc'[c] = "gone"
        BY <2>2 DEF TypeOK, ConnectionInv
      <3> QED
        BY <1>1, <3>1, ClientBacklog DEF ConnectionInv
    <2> QED
      BY <2>1, <2>2
  <1>5. ScriptInv'
    <2>1. c \in leaked => cpc'[c] = "gone"
      BY DEF Eof, EndsInv, EndsAccounted, ConnectionInv, TypeOK
    <2>2. Scripted(c)'
      BY <1>1, <2>1 DEF Scripted, Open
    <2> QED
      BY <1>1, <2>2, ClientScript DEF ConnectionInv
  <1> QED
    BY <1>2, <1>3, <1>4, <1>5 DEF ConnectionInv

-----------------------------------------------------------------------------
LEMMA ConnectionStep == ConnectionInv /\ [Next]_vars => ConnectionInv'
  <1> SUFFICES ASSUME ConnectionInv, [Next]_vars PROVE ConnectionInv'
    OBVIOUS
  <1>1. CASE ServerPoll
    BY <1>1, AcceptClientStep, AcceptPartStep, AcceptRefuseStep, ListenerLostStep DEF ServerPoll
  <1>2. ASSUME NEW s \in Slot, Drop(s) PROVE ConnectionInv'
    BY <1>2, DropStep
  <1>3. ASSUME NEW i \in Buf, SetSync(i) PROVE ConnectionInv'
    BY <1>3, SetSyncStep
  <1>4. ASSUME NEW c \in Client, Connect(c) \/ ConnectGivesUp(c) PROVE ConnectionInv'
    BY <1>4, ConnectStep, ConnectGivesUpStep
  <1>5. ASSUME NEW c \in Client, SessionConnect(c) \/ Leave(c) PROVE ConnectionInv'
    BY <1>5, RecvHandshakeStep, RecvItemStep, ClientEndsStep DEF SessionConnect
  <1>6. CASE UNCHANGED vars
    <2> USE <1>6 DEF vars, frameVars, serverVars, clientVars
    <2>1. EndsInv' /\ Instances' = Instances /\ (Win32' <=> Win32)
      BY EndsKept DEF ConnectionInv
    <2>2. TypeOK' /\ BacklogInv'
      BY <2>1 DEF TypeOK, BacklogInv, ConnectionInv
    <2>3. ScriptInv'
      <3>1. \A c \in Client : Registered(c)' <=> Registered(c)
        BY DEF Registered
      <3> QED
        BY <3>1, ScriptedKept DEF ScriptInv, ConnectionInv
    <2> QED
      BY <2>1, <2>2, <2>3 DEF ConnectionInv
  <1> QED
    BY <1>1, <1>2, <1>3, <1>4, <1>5, <1>6 DEF Next

(* The strengthened invariant holds throughout. *)
LEMMA ConnectionInvCorrect == Spec => []ConnectionInv
  BY ConnectionInit, ConnectionStep, PTL DEF Spec

(* Type correctness: a slot's client has its end open, no client is in two slots, and
   texlink_socket_accept never creates more instances of a pipe than there may be.   *)
THEOREM TypeCorrect == Spec => []TypeOK
  <1>1. ConnectionInv => TypeOK
    BY DEF ConnectionInv
  <1> QED
    BY <1>1, ConnectionInvCorrect, PTL

(* Accepted, refused, half served and dropped connections leave no open end behind, but
   for the pipes that socket_alloc fails for.                                          *)
THEOREM EndsAccountedCorrect == Spec => []EndsAccounted
  <1>1. ConnectionInv => EndsAccounted
    BY DEF ConnectionInv, EndsInv
  <1> QED
    BY <1>1, ConnectionInvCorrect, PTL

(* session_connect counts the items off as the server sent them, however many frames
   there are: a client that is connected has each buffer's handle and fence in its place
   and leaves nothing in the stream.                                                   *)
THEOREM HandlesMatchCorrect == Spec => []HandlesMatch
  <1>1. ConnectionInv => HandlesMatch
    <2> SUFFICES ASSUME ConnectionInv, NEW c \in Client \ strayed, cpc[c] = "connected"
                 PROVE  /\ Len(got[c]) = Len(Expected) /\ stream[c] = <<>>
                        /\ \A k \in DOMAIN Expected : got[c][k] = Expected[k]
                        /\ \A i \in Buf : Handle(i) \in ToSet(got[c])
      BY DEF HandlesMatch
    <2>1. Follows(c, Script(Promised)) /\ Len(got[c]) = Len(Expected)
      BY DEF ConnectionInv, ScriptInv, Scripted, Open, Scripts
    <2>2. Expected = Body(Promised)
      BY ExpectedIs DEF ConnectionInv, TypeOK
    <2>3. PICK e \in Nat : e = Len(Expected) /\ DOMAIN Expected = 1..e
      BY <2>2, BodyFacts, LenProperties
    <2>4. stream[c] \in Seq(Item) /\ got[c] \in Seq(Item) /\ DOMAIN got[c] = 1..e
      BY <2>1, <2>3, LenProperties DEF ConnectionInv, TypeOK
    <2>5. stream[c] = <<>>
      <3>1. PICK l \in Nat : l = Len(stream[c])
        BY <2>4, LenProperties
      <3>2. (e + 1) + l <= e + 1
        BY <2>1, <2>2, <2>3, <3>1, ScriptFacts DEF Follows, Begins, Seen
      <3>3. l = 0
        BY <3>2
      <3> QED
        BY <2>4, <3>1, <3>3, EmptySeq
    <2>6. ASSUME NEW k \in 1..e PROVE got[c][k] = Expected[k]
      <3>1. got[c][k] = Script(Promised)[k + 1]
        BY <2>1, <2>3 DEF Follows
      <3> QED
        BY <2>2, <2>3, <3>1, ScriptFacts
    <2>7. ASSUME NEW i \in Buf PROVE Handle(i) \in ToSet(got[c])
      <3>1. PICK m \in 1..e : Expected[m] = Handle(i)
        BY <2>2, <2>3, BodyFacts
      <3> QED
        BY <2>4, <2>6, <3>1 DEF ToSet
    <2> QED
      BY <2>1, <2>3, <2>5, <2>6, <2>7
  <1> QED
    BY <1>1, ConnectionInvCorrect, PTL

(* A handshake that said fence of all frames promised more than was sent, and one that
   said none of any less.                                                              *)
LEMMA MisfitSizes ==
    ASSUME hello \in BOOLEAN, NEW F, Misfit(F)
    PROVE  /\ hello => Len(Body(F)) < Len(Expected)
           /\ ~hello => Len(Expected) = BufCount /\ Len(Body(F)) > BufCount
  <1>1. Expected = Body(Promised) /\ Win32
    BY ExpectedIs DEF Misfit
  <1>2. CASE hello
    <2>1. \A i \in Buf : i \in Promised
      BY <1>2 DEF Promised
    <2>2. \E i \in Buf : ~(i \in F)
      BY <1>2 DEF Misfit
    <2>3. Len(Body(Promised)) = 2 * BufCount /\ Len(Body(F)) < 2 * BufCount
      BY <1>1, <2>1, <2>2, BodyFacts
    <2> QED
      BY <1>1, <1>2, <2>3
  <1>3. CASE ~hello
    <2>1. \A i \in Buf : ~(i \in Promised)
      BY <1>3 DEF Promised
    <2>2. \E i \in Buf : i \in F
      BY <1>3 DEF Misfit
    <2>3. Len(Body(Promised)) = BufCount /\ Len(Body(F)) > BufCount
      BY <1>1, <2>1, <2>2, BodyFacts
    <2> QED
      BY <1>1, <1>3, <2>3
  <1> QED
    BY <1>2, <1>3

(* A client that strayed and counts as connected takes the first fence for a handle, and
   leaves items in the stream; where it was promised fences it is never connected.       *)
THEOREM StrayedMisreadCorrect == Spec => []StrayedMisread
  <1>1. ConnectionInv => StrayedMisread
    <2> SUFFICES ASSUME ConnectionInv, NEW c \in strayed, cpc[c] = "connected"
                 PROVE  /\ ~hello
                        /\ \E j \in fenced :
                              /\ \A k \in 1..j : got[c][k] = Handle(k)
                              /\ j < BufCount => got[c][j + 1] = Fence(j)
                        /\ Registered(c) => stream[c] # <<>>
      BY DEF StrayedMisread
    <2> USE ConnectionAssumption
    <2>1. c \in Client /\ hello \in BOOLEAN /\ fenced \subseteq Buf /\ stream[c] \in Seq(Item)
      BY DEF ConnectionInv, TypeOK
    <2>2. PICK F \in SUBSET fenced : Misfit(F) /\ Follows(c, Script(F))
      BY <2>1 DEF ConnectionInv, ScriptInv, Scripted, Open, Scripts
    <2>3. Len(got[c]) = Len(Expected) /\ Expected = Body(Promised)
      BY <2>1, ExpectedIs DEF ConnectionInv, ScriptInv, Scripted
    <2>4. PICK b \in Nat, e \in Nat, l \in Nat :
             b = Len(Body(F)) /\ e = Len(Expected) /\ l = Len(stream[c])
      BY <2>1, <2>3, BodyFacts, LenProperties
    <2>5. Seen(c) = e + 1 /\ Len(Script(F)) = b + 1
      BY <2>3, <2>4, ScriptFacts DEF Seen
    <2>6. (e + 1) + l <= b + 1
      BY <2>2, <2>4, <2>5 DEF Follows, Begins
    <2>7. ~hello
      <3> SUFFICES ASSUME hello PROVE FALSE
        OBVIOUS
      <3>1. b < e
        BY <2>1, <2>2, <2>4, MisfitSizes
      <3> QED
        BY <2>6, <3>1
    <2>8. e = BufCount /\ b > BufCount
      BY <2>1, <2>2, <2>4, <2>7, MisfitSizes
    <2>9. PICK j \in F : j \in Buf /\ \A i \in 1..(j - 1) : i \notin F
      <3>1. F \in SUBSET Nat /\ F # {}
        BY <2>1, <2>2, <2>7 DEF Misfit, Buf
      <3>2. PICK j \in F : \A i \in F : j <= i
        BY <3>1, LeastNumber
      <3>3. j \in Nat /\ \A i \in 1..(j - 1) : ~(j <= i)
        BY <3>1
      <3> QED
        BY <2>1, <3>2, <3>3
    <2>10. (\A k \in 1..j : Body(F)[k] = Handle(k)) /\ Body(F)[j + 1] = Fence(j)
      BY <2>2, <2>9, BodyFacts DEF Misfit
    <2>11. ASSUME NEW k \in 1..e PROVE got[c][k] = Body(F)[k]
      <3>1. k \in 1..b
        BY <2>8
      <3> QED
        BY <2>2, <2>3, <2>4, <3>1, ScriptFacts DEF Follows
    <2>12. j \in 1..BufCount /\ (j < BufCount => j + 1 \in 1..BufCount)
           /\ \A k \in 1..j : k \in 1..BufCount
      BY <2>9 DEF Buf
    <2>13. Registered(c) => stream[c] # <<>>
      <3> SUFFICES ASSUME Registered(c), stream[c] = <<>> PROVE FALSE
        OBVIOUS
      <3>1. (e + 1) + l = b + 1
        BY <2>2, <2>4, <2>5 DEF Follows
      <3>2. l = 0
        BY <2>4
      <3> QED
        BY <2>8, <3>1, <3>2
    <2> QED
      BY <2>7, <2>8, <2>9, <2>10, <2>11, <2>12, <2>13
  <1> QED
    BY <1>1, ConnectionInvCorrect, PTL

(* A client in session_connect that has nothing to read, and whose stream has not ended,
   waits for what the server has yet to do with its connection.                          *)
THEOREM NobodyWaitsInVainCorrect == Spec => []NobodyWaitsInVain
  <1>1. ConnectionInv => NobodyWaitsInVain
    <2> SUFFICES ASSUME ConnectionInv, NEW c \in Client, cpc[c] \in {"greet", "handles"},
                        stream[c] = <<>>, c \in ends, c \notin leaked
                 PROVE  cpc[c] = "handles" /\ c \in strayed /\ hello
      BY DEF NobodyWaitsInVain, Eof, ConnectionInv, ScriptInv, Scripted
    <2>1. Registered(c)
      BY DEF ConnectionInv, EndsInv, EndsAccounted
    <2>2. PICK F : /\ IF c \in strayed THEN Misfit(F) ELSE F = Promised
                   /\ Follows(c, Script(F))
      BY DEF ConnectionInv, ScriptInv, Scripted, Open, Scripts
    <2>3. PICK b \in Nat, g \in Nat : b = Len(Body(F)) /\ g = Len(got[c])
      BY BodyFacts, LenProperties DEF ConnectionInv, TypeOK
    <2>4. Len(Script(F)) = b + 1 /\ b + 1 > 1
      BY <2>3, ScriptFacts
    <2>5. Seen(c) + 0 = b + 1
      BY <2>1, <2>2, <2>4 DEF Follows
    <2>6. cpc[c] = "handles"
      BY <2>4, <2>5 DEF Seen
    <2>7. g = b
      BY <2>3, <2>5, <2>6 DEF Seen
    <2>8. g < Len(Expected) /\ Expected = Body(Promised) /\ hello \in BOOLEAN
      BY <2>3, <2>6, ExpectedIs DEF ConnectionInv, TypeOK, ScriptInv, Scripted
    <2>9. c \in strayed
      BY <2>2, <2>3, <2>7, <2>8
    <2>10. hello
      <3> SUFFICES ASSUME ~hello PROVE FALSE
        OBVIOUS
      <3>1. Len(Expected) = BufCount /\ b > BufCount
        BY <2>2, <2>3, <2>8, <2>9, MisfitSizes
      <3> QED
        BY <2>7, <2>8, <3>1, ConnectionAssumption
    <2> QED
      BY <2>6, <2>9, <2>10
  <1> QED
    BY <1>1, ConnectionInvCorrect, PTL

-----------------------------------------------------------------------------
(* The handshake is Handshake's: what a client is sent and counts off item by item is
   one greeting, and a client is greeted once that has all been sent.                 *)
Waiting == ToSet(backlog)
PhaseOf == [c \in Client |-> Phase(c)]
Welcomed == {c \in Client : Phase(c) = "connecting" /\ Registered(c)}

LEMMA PhaseIs ==
    ASSUME TypeOK, NEW c \in Client
    PROVE  /\ Phase(c) = "new" <=> cpc[c] = "created"
           /\ Phase(c) = "connecting" <=>
                 \/ cpc[c] \in {"greet", "handles"}
                 \/ cpc[c] = "connected" /\ c \in strayed
           /\ Phase(c) = "connected" <=> cpc[c] = "connected" /\ c \notin strayed
           /\ Phase(c) = "ended" <=> cpc[c] \in {"error", "gone"}
  BY DEF Phase, TypeOK

(* A step of one client's thread moves its phase alone. *)
LEMMA PhaseMoves ==
    ASSUME TypeOK, NEW c \in Client, NEW label, Goto(c, label), strayed' = strayed
    PROVE  PhaseOf' = [PhaseOf EXCEPT ![c] = Phase(c)']
  <1>1. \A d \in Client : d # c => cpc'[d] = cpc[d]
    BY DEF Goto, TypeOK
  <1>2. \A d \in Client : d # c => Phase(d)' = Phase(d)
    BY <1>1 DEF Phase
  <1> QED
    BY <1>2 DEF PhaseOf

LEMMA FirstWaits ==
    ASSUME TypeOK, BacklogInv, EndsInv, backlog # <<>>, backlog' = Tail(backlog),
           NEW caller, caller = Caller
    PROVE  caller \in Waiting /\ Waiting' = Waiting \ {caller}
  <1>1. /\ backlog' \in Seq(Client) /\ Len(backlog') \in Nat
        /\ Len(backlog) = Len(backlog') + 1 /\ caller = backlog[1]
        /\ \A i \in 1..Len(backlog') : backlog'[i] = backlog[i + 1] /\ backlog'[i] # caller
    BY CallerFacts
  <1>2. DOMAIN backlog = 1..Len(backlog) /\ DOMAIN backlog' = 1..Len(backlog')
    BY <1>1, LenProperties DEF TypeOK
  <1>3. PICK n \in Nat : n = Len(backlog') /\ Len(backlog) = n + 1
    BY <1>1
  <1>4. \A i \in 1..n : i + 1 \in 1..(n + 1)
    OBVIOUS
  <1>5. \A i \in 1..(n + 1) : i # 1 => i - 1 \in 1..n /\ (i - 1) + 1 = i
    OBVIOUS
  <1>6. 1 \in 1..(n + 1)
    OBVIOUS
  <1>7. Waiting = {backlog[i] : i \in 1..(n + 1)} /\ Waiting' = {backlog'[i] : i \in 1..n}
    BY <1>2, <1>3 DEF Waiting, ToSet
  <1>8. ASSUME NEW d \in Waiting, d # caller PROVE d \in Waiting'
    <2>1. PICK i \in 1..(n + 1) : d = backlog[i]
      BY <1>7
    <2>2. i # 1
      BY <1>1, <1>8, <2>1
    <2>3. i - 1 \in 1..n /\ backlog'[i - 1] = d
      BY <1>1, <1>3, <1>5, <2>1, <2>2
    <2> QED
      BY <1>7, <2>3
  <1>9. ASSUME NEW d \in Waiting' PROVE d \in Waiting /\ d # caller
    BY <1>1, <1>3, <1>4, <1>7, <1>9
  <1> QED
    BY <1>1, <1>6, <1>7, <1>8, <1>9

LEMMA LastWaits ==
    ASSUME TypeOK, NEW c \in Client, backlog' = Append(backlog, c)
    PROVE  Waiting' = Waiting \cup {c}
  <1>1. PICK n \in Nat : n = Len(backlog)
    BY LenProperties DEF TypeOK
  <1>2. /\ backlog' \in Seq(Client) /\ Len(backlog') = n + 1
        /\ \A i \in 1..n : backlog'[i] = backlog[i]
        /\ backlog'[n + 1] = c
    BY <1>1, AppendProperties DEF TypeOK
  <1>3. DOMAIN backlog = 1..n /\ DOMAIN backlog' = 1..(n + 1)
    BY <1>1, <1>2, LenProperties DEF TypeOK
  <1>4. 1..(n + 1) = (1..n) \cup {n + 1}
    OBVIOUS
  <1> QED
    BY <1>2, <1>3, <1>4 DEF Waiting, ToSet

LEMMA GreetingInit == Init => Greeting!Init
  <1> SUFFICES ASSUME Init PROVE Greeting!Init
    OBVIOUS
  <1>1. \A c \in Client : Phase(c) = "new"
    BY DEF Init, Phase
  <1>2. ToSet(backlog) = {}
    BY DEF Init, ToSet
  <1> QED
    BY <1>1, <1>2 DEF Init, Greeting!Init, Greeting!Slot, Slot

(* A connection that is taken from the backlog leaves no phase changed: if its client
   strays, it has not come far enough for that to matter.                             *)
LEMMA PhasesKept ==
    ASSUME TypeOK, BacklogInv, EndsInv, backlog # <<>>, backlog' = Tail(backlog),
           cpc' = cpc, strayed \subseteq strayed', strayed' \subseteq strayed \cup {Caller}
    PROVE  PhaseOf' = PhaseOf /\ \A c \in Client : Phase(c)' = Phase(c)
  <1>1. cpc[Caller] # "connected"
    BY CallerFacts
  <1>2. ASSUME NEW c \in Client PROVE Phase(c)' = Phase(c)
    BY <1>1 DEF Phase
  <1> QED
    BY <1>2 DEF PhaseOf

LEMMA GreetingAccept ==
    ASSUME ConnectionInv, AcceptClient
    PROVE  Greeting!Next
  <1> USE DEF ConnectionInv
  <1>1. PICK h : h = Caller
    OBVIOUS
  <1>2. /\ backlog # <<>> /\ backlog' = Tail(backlog) /\ Open(h) /\ cpc' = cpc
        /\ strayed \subseteq strayed' /\ strayed' \subseteq strayed \cup {h}
    BY <1>1 DEF AcceptClient, Accept, Polled, Strays, clientVars
  <1>3. PICK s \in Slot : client_fds[s] = NoClient /\ client_fds' = [client_fds EXCEPT ![s] = h]
    BY <1>1 DEF AcceptClient, LowestFree, FreeSlots
  <1>4. h \in Waiting /\ Waiting' = Waiting \ {h}
    BY <1>1, <1>2, FirstWaits
  <1>5. h \in Client /\ cpc[h] \in {"greet", "gone"} /\ ~Registered(h)
    BY <1>1, <1>2, CallerFacts
  <1>6. PhaseOf' = PhaseOf /\ \A c \in Client : Phase(c)' = Phase(c)
    BY <1>1, <1>2, PhasesKept
  <1>7. Phase(h) = "connecting" /\ PhaseOf[h] = "connecting"
    BY <1>2, <1>5, PhaseIs DEF Open, PhaseOf
  <1>8. \A c \in Client : Registered(c)' <=> Registered(c) \/ c = h
    BY <1>3, <1>5, ConnectionAssumption DEF Registered, TypeOK
  <1>9. Welcomed' = Welcomed \cup {h}
    BY <1>5, <1>6, <1>7, <1>8 DEF Welcomed
  <1>10. Greeting!Admit(h, s)
    BY <1>3, <1>4, <1>6, <1>7, <1>9 DEF Greeting!Admit, Waiting, Welcomed, PhaseOf
  <1> QED
    BY <1>3, <1>5, <1>10 DEF Greeting!Next, Greeting!Slot, Slot

(* Refused, half served, leaked or without a further instance of the pipe, it is all one
   to the handshake: the client is not remembered.                                      *)
LEMMA GreetingTurnsAway ==
    ASSUME ConnectionInv, AcceptPart \/ AcceptRefuse \/ AcceptLeaks \/ ListenerLost
    PROVE  Greeting!Next
  <1> USE DEF ConnectionInv
  <1>1. PICK h : h = Caller
    OBVIOUS
  <1>2. /\ backlog # <<>> /\ backlog' = Tail(backlog) /\ cpc' = cpc
        /\ client_fds' = client_fds
        /\ strayed \subseteq strayed' /\ strayed' \subseteq strayed \cup {h}
    BY <1>1 DEF AcceptPart, AcceptRefuse, AcceptLeaks, ListenerLost, Accept, Polled, Strays,
                clientVars
  <1>3. h \in Client /\ h \in Waiting /\ Waiting' = Waiting \ {h}
    BY <1>1, <1>2, FirstWaits, CallerFacts
  <1>4. PhaseOf' = PhaseOf /\ \A c \in Client : Phase(c)' = Phase(c)
    BY <1>1, <1>2, PhasesKept
  <1>5. Welcomed' = Welcomed
    BY <1>2, <1>4 DEF Welcomed, Registered
  <1>6. Greeting!TurnAway(h)
    BY <1>2, <1>3, <1>4, <1>5 DEF Greeting!TurnAway, Waiting, Welcomed, PhaseOf
  <1> QED
    BY <1>3, <1>6 DEF Greeting!Next

LEMMA GreetingDrop ==
    ASSUME ConnectionInv, NEW s \in Slot, Drop(s)
    PROVE  Greeting!Next
  <1> USE DEF ConnectionInv
  <1>1. /\ client_fds[s] # NoClient /\ client_fds[s] \in Client /\ ~Open(client_fds[s])
        /\ client_fds' = [client_fds EXCEPT ![s] = NoClient]
        /\ UNCHANGED <<cpc, strayed, backlog>>
    BY DEF Drop, clientVars, TypeOK
  <1>2. cpc[client_fds[s]] \in {"error", "gone"}
    BY <1>1 DEF Open, TypeOK, BacklogInv
  <1>3. Phase(client_fds[s]) = "ended" /\ PhaseOf[client_fds[s]] = "ended"
    BY <1>1, <1>2, PhaseIs DEF PhaseOf
  <1>4. PhaseOf' = PhaseOf /\ Waiting' = Waiting /\ \A c \in Client : Phase(c)' = Phase(c)
    BY <1>1 DEF PhaseOf, Phase, Waiting
  <1>5. \A c \in Client : c # client_fds[s] => (Registered(c)' <=> Registered(c))
    BY <1>1, ConnectionAssumption DEF Registered, TypeOK
  <1>6. Welcomed' = Welcomed
    BY <1>3, <1>4, <1>5 DEF Welcomed
  <1>7. Greeting!Drop(s)
    BY <1>1, <1>3, <1>4, <1>6 DEF Greeting!Drop, Waiting, Welcomed, PhaseOf
  <1> QED
    BY <1>7 DEF Greeting!Next, Greeting!Slot, Slot

(* Who has counted off everything that it was promised was sent all of it. *)
LEMMA AllReceived ==
    ASSUME ConnectionInv, NEW c \in Client \ strayed, RecvItem(c),
           Len(got[c]) + 1 = Len(Expected)
    PROVE  Registered(c)
  <1>1. Follows(c, Script(Promised)) /\ cpc[c] = "handles" /\ stream[c] # <<>>
    BY DEF ConnectionInv, ScriptInv, Scripted, Open, Scripts, RecvItem
  <1>2. PICK g \in Nat, l \in Nat \ {0} : g = Len(got[c]) /\ l = Len(stream[c])
    <2>1. stream[c] \in Seq(Item) /\ got[c] \in Seq(Item)
      BY DEF ConnectionInv, TypeOK
    <2> QED
      BY <1>1, <2>1, LenProperties, EmptySeq
  <1>3. Len(Script(Promised)) = (g + 1) + 1
    BY <1>2, ExpectedIs, ScriptFacts DEF ConnectionInv, TypeOK
  <1>4. (g + 1) + l <= (g + 1) + 1
    BY <1>1, <1>2, <1>3 DEF Follows, Begins, Seen
  <1>5. (g + 1) + l = (g + 1) + 1
    BY <1>4
  <1> QED
    BY <1>1, <1>2, <1>3, <1>5 DEF Follows, Seen

LEMMA GreetingClient ==
    ASSUME ConnectionInv, NEW c \in Client,
           Connect(c) \/ ConnectGivesUp(c) \/ SessionConnect(c) \/ Leave(c)
    PROVE  [Greeting!Next]_(Greeting!vars)
  <1> USE DEF ConnectionInv
  <1>1. strayed' = strayed /\ client_fds' = client_fds /\ DOMAIN cpc = Client
    BY DEF Connect, ConnectGivesUp, SessionConnect, RecvHandshake, RecvItem, RecvFails, Leave,
           serverVars, TypeOK
  <1>2. PICK label : Goto(c, label)
    BY DEF Connect, ConnectGivesUp, SessionConnect, RecvHandshake, RecvItem, RecvFails, Leave,
           Ends
  <1>3. /\ cpc'[c] = label /\ (\A d \in Client : Registered(d)' <=> Registered(d))
        /\ PhaseOf' = [PhaseOf EXCEPT ![c] = Phase(c)']
        /\ \A d \in Client : d # c => Phase(d)' = Phase(d)
    <2>1. cpc'[c] = label /\ \A d \in Client : d # c => cpc'[d] = cpc[d]
      BY <1>1, <1>2 DEF Goto
    <2>2. \A d \in Client : Registered(d)' <=> Registered(d)
      BY <1>1 DEF Registered
    <2>3. PhaseOf' = [PhaseOf EXCEPT ![c] = Phase(c)']
      BY <1>1, <1>2, PhaseMoves
    <2>4. \A d \in Client : d # c => Phase(d)' = Phase(d)
      BY <1>1, <2>1 DEF Phase
    <2> QED
      BY <2>1, <2>2, <2>3, <2>4
  <1>4. TypeOK'
    BY ConnectStep, ConnectGivesUpStep, RecvHandshakeStep, RecvItemStep, ClientEndsStep
    DEF SessionConnect
  <1>ends. ASSUME Phase(c) # "ended", Phase(c)' = "ended", backlog' = backlog
           PROVE  Greeting!Next
    <2>1. Waiting' = Waiting /\ Welcomed' = Welcomed \ {c} /\ PhaseOf[c] # "ended"
      BY <1>3, <1>ends DEF Waiting, Welcomed, PhaseOf
    <2>2. Greeting!End(c)
      BY <1>1, <1>3, <1>ends, <2>1
      DEF Greeting!End, Greeting!Goto, Waiting, Welcomed, PhaseOf
    <2> QED
      BY <2>2 DEF Greeting!Next
  <1>stays. ASSUME Phase(c)' = Phase(c), backlog' = backlog
            PROVE  UNCHANGED Greeting!vars
    <2>1. Waiting' = Waiting /\ Welcomed' = Welcomed /\ PhaseOf' = PhaseOf
      BY <1>3, <1>stays DEF Waiting, Welcomed, PhaseOf
    <2> QED
      BY <1>1, <2>1 DEF Greeting!vars, Waiting, Welcomed, PhaseOf
  <1>5. CASE Connect(c)
    <2>1. cpc[c] = "created" /\ cpc'[c] = "greet" /\ backlog' = Append(backlog, c)
      BY <1>1, <1>5 DEF Connect, Goto
    <2>2. Phase(c) = "new" /\ Phase(c)' = "connecting" /\ PhaseOf[c] = "new"
      BY <2>1, PhaseIs DEF Phase, PhaseOf
    <2>3. Waiting' = Waiting \cup {c}
      BY <2>1, LastWaits
    <2>4. ~Registered(c)
      BY <2>1 DEF BacklogInv, EndsInv, EndsAccounted
    <2>5. Welcomed' = Welcomed
      BY <1>3, <2>4 DEF Welcomed
    <2>6. Greeting!Arrive(c)
      BY <1>1, <1>3, <2>2, <2>3, <2>5
      DEF Greeting!Arrive, Greeting!Goto, Waiting, Welcomed, PhaseOf
    <2> QED
      BY <2>6 DEF Greeting!Next
  <1>6. CASE ConnectGivesUp(c) \/ RecvFails(c) \/ Leave(c)
    <2>1. /\ cpc[c] \in {"created", "greet", "handles", "connected"}
          /\ cpc'[c] \in {"error", "gone"} /\ backlog' = backlog
      BY <1>1, <1>6 DEF ConnectGivesUp, RecvFails, Leave, Open, Ends, Goto, serverVars
    <2>2. Phase(c) # "ended" /\ Phase(c)' = "ended"
      BY <2>1, PhaseIs DEF Phase
    <2> QED
      BY <2>1, <2>2, <1>ends
  <1>7. CASE RecvHandshake(c)
    <2>1. cpc[c] = "greet" /\ cpc'[c] = "handles" /\ backlog' = backlog
      BY <1>1, <1>7 DEF RecvHandshake, Goto, serverVars
    <2>2. Phase(c)' = Phase(c)
      BY <2>1 DEF Phase
    <2> QED
      BY <2>1, <2>2, <1>stays
  <1>8. CASE RecvItem(c) /\ (c \in strayed \/ Len(got[c]) + 1 # Len(Expected))
    <2>1. /\ cpc[c] = "handles" /\ backlog' = backlog
          /\ cpc'[c] = IF Len(got[c]) + 1 = Len(Expected) THEN "connected" ELSE "handles"
      BY <1>1, <1>8 DEF RecvItem, Goto, serverVars
    <2>2. cpc'[c] = "handles" \/ (cpc'[c] = "connected" /\ c \in strayed)
      BY <1>8, <2>1
    <2>3. Phase(c)' = Phase(c)
      BY <1>1, <2>1, <2>2 DEF Phase
    <2> QED
      BY <2>1, <2>3, <1>stays
  <1>9. CASE RecvItem(c) /\ c \notin strayed /\ Len(got[c]) + 1 = Len(Expected)
    <2>1. cpc[c] = "handles" /\ cpc'[c] = "connected" /\ backlog' = backlog
      BY <1>1, <1>9 DEF RecvItem, Goto, serverVars
    <2>2. Phase(c) = "connecting" /\ Phase(c)' = "connected"
      BY <1>1, <1>9, <2>1 DEF Phase
    <2>3. c \in Welcomed
      BY <1>9, <2>2, AllReceived DEF Welcomed
    <2>4. Waiting' = Waiting /\ Welcomed' = Welcomed \ {c}
      BY <1>3, <2>1, <2>2 DEF Waiting, Welcomed
    <2>5. Greeting!Enter(c)
      BY <1>1, <1>3, <2>2, <2>3, <2>4
      DEF Greeting!Enter, Greeting!Goto, Waiting, Welcomed, PhaseOf
    <2> QED
      BY <2>5 DEF Greeting!Next
  <1> QED
    BY <1>5, <1>6, <1>7, <1>8, <1>9 DEF SessionConnect

(* However many items are sent, wherever a transfer breaks off, and whether there is room,
   a slot or a further instance: the accept loop and session_connect keep what Handshake
   says, and a client that counts as connected, unless it strayed, was greeted in full.   *)
THEOREM ImplementsHandshakeCorrect == Spec => ImplementsHandshake
  <1>1. ConnectionInv /\ [Next]_vars => [Greeting!Next]_(Greeting!vars)
    <2> SUFFICES ASSUME ConnectionInv, [Next]_vars PROVE [Greeting!Next]_(Greeting!vars)
      OBVIOUS
    <2>1. CASE UNCHANGED vars \/ \E i \in Buf : SetSync(i)
      BY <2>1 DEF vars, SetSync, serverVars, clientVars, Greeting!vars, Phase, Registered, ToSet
    <2> QED
      BY <2>1, GreetingAccept, GreetingTurnsAway, GreetingDrop, GreetingClient
      DEF Next, ServerPoll
  <1> QED
    BY <1>1, GreetingInit, ConnectionInvCorrect, PTL
    DEF Spec, ImplementsHandshake, Greeting!Spec

(* So every client that is connected and did not stray has a slot, by Handshake alone. *)
THEOREM ConnectedAreServed == Spec => []Greeting!Served
  <1>1. Greeting!Spec => []Greeting!Served
    BY ConnectionAssumption, Greeting!ServedCorrect
  <1> QED
    BY <1>1, ImplementsHandshakeCorrect DEF ImplementsHandshake
=============================================================================
