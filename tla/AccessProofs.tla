---------------------------- MODULE AccessProofs ----------------------------
(***************************************************************************)
(* The safety properties of AccessProperties hold for every size of a      *)
(* frame and of a page, wherever the arithmetic wraps, and for every       *)
(* number of ends that the kernel refuses.                                 *)
(***************************************************************************)
EXTENDS AccessProperties, TLAPS

(* What the mapping is: the window and the range it stands for are given away
   together, and the pages around it are the ones that are mapped.             *)
WindowInv ==
    /\ map # None => map.offset >= 0 /\ map.size >= 0 /\ map.offset + map.size <= FrameSize
    /\ window # None => /\ map # None
                        /\ window.offset >= 0 /\ window.size >= 0
                        /\ window.offset + window.size <= FrameSize
    /\ platform # "darwin" =>
          /\ window = map
          /\ map # None => /\ view.offset = Start(map.offset)
                           /\ view.size = map.size + (map.offset % Page)
    /\ platform = "darwin" /\ map # None => view.offset = 0 /\ view.size = FrameSize

(* The starts that no end matches are at most one for each end that failed. *)
Under(f) == IF platform = "posix" /\ access # None /\ f = access.flags THEN 1 ELSE 0

BracketInv ==
    /\ \A f \in Flags : brackets[f] - Under(f) \in 0..failures
    /\ platform # "darwin" /\ access # None => map # None

(* An application that pairs its calls is at depth 0 with nothing mapped, or at depth 1
   with a mapping that the library remembers to undo.                                  *)
PairInv ==
    /\ platform = "darwin" => locks = IF map # None THEN 1 ELSE 0
    /\ platform # "darwin" => locks = 0
    /\ platform = "darwin" /\ ~nested =>
          /\ depth = 0 => map = None
          /\ depth > 0 => depth = 1 /\ access # None /\ map # None

AccessInv == TypeOK /\ WindowInv /\ BracketInv /\ PairInv

-----------------------------------------------------------------------------
(* Remainders: of a number below the modulus, of one below twice the modulus, and
   that of a page.                                                                 *)
LEMMA RemainderBelow ==
    ASSUME NEW n \in Nat \ {0}, NEW x \in 0..(n - 1) PROVE x % n = x
  BY SMT

LEMMA RemainderAbove ==
    ASSUME NEW n \in Nat \ {0}, NEW x \in n..(2 * n - 1) PROVE x % n = x - n
  BY SMT

LEMMA PageRemainder == ASSUME NEW x \in Nat PROVE x % Page \in Nat /\ x % Page <= x
  BY AccessAssumption

(* normalize_range answers with a range within the frame, or not at all. *)
LEMMA RangeFits ==
    ASSUME NEW offset \in 0..(Wrap - 1), NEW size \in 0..(Wrap - 1)
    PROVE  \/ Range(offset, size) = -1
           \/ Range(offset, size) \in 0..FrameSize /\ offset + Range(offset, size) <= FrameSize
  <1> USE AccessAssumption
  <1>1. CASE offset > FrameSize
    BY <1>1 DEF Range, None
  <1>2. CASE offset <= FrameSize
    <2>1. Rest(offset, size) \in Nat /\ Rest(offset, size) < Wrap
      BY <1>2 DEF Rest
    <2>2. PICK sum \in Nat : sum = offset + Rest(offset, size)
      BY <2>1
    <2>3. CASE sum < Wrap
      <3>1. sum % Wrap = sum
        BY <2>3, RemainderBelow
      <3> QED
        BY <1>2, <2>1, <2>2, <3>1 DEF Range, None
    <2>4. CASE sum >= Wrap
      <3>1. sum % Wrap = sum - Wrap
        <4>1. sum \in Wrap..(2 * Wrap - 1)
          BY <1>2, <2>1, <2>2, <2>4
        <4> QED
          BY <4>1, RemainderAbove
      <3>2. sum % Wrap < offset
        BY <2>1, <2>2, <3>1
      <3> QED
        BY <1>2, <2>2, <3>2 DEF Range, None
    <2> QED
      BY <2>2, <2>3, <2>4
  <1> QED
    BY <1>1, <1>2

(* What the calls store of a description: a range within the frame. *)
LEMMA RangedFits ==
    ASSUME NEW desc \in Desc, Range(desc.offset, desc.size) >= 0
    PROVE  /\ Ranged(desc) \in Region /\ Ranged(desc) # None
           /\ Ranged(desc).offset = desc.offset /\ Ranged(desc).flags = desc.flags
           /\ Ranged(desc).offset >= 0 /\ Ranged(desc).size >= 0
           /\ Ranged(desc).size = Range(desc.offset, desc.size)
           /\ Ranged(desc).offset + Ranged(desc).size <= FrameSize
  <1> USE AccessAssumption
  <1>1. /\ desc.flags \in Flags
        /\ desc.offset \in 0..(Wrap - 1) /\ desc.size \in 0..(Wrap - 1)
    BY DEF Desc
  <1>2. Ranged(desc) = [flags |-> desc.flags, offset |-> desc.offset,
                        size |-> Range(desc.offset, desc.size)]
    BY DEF Ranged, Desc
  <1>3. /\ Range(desc.offset, desc.size) \in 0..FrameSize
        /\ desc.offset + Range(desc.offset, desc.size) <= FrameSize
    BY <1>1, RangeFits
  <1> QED
    BY <1>1, <1>2, <1>3 DEF Region, None

LEMMA NoneType == None \in Region
  BY AccessAssumption DEF None, Region, Flags

-----------------------------------------------------------------------------
LEMMA AccessInit == Init => AccessInv
  <1> SUFFICES ASSUME Init PROVE AccessInv
    OBVIOUS
  <1> USE AccessAssumption, NoneType DEF Init
  <1>1. TypeOK
    <2>1. brackets \in [Flags -> 0..(MaxFailures + 1)]
      OBVIOUS
    <2>2. failures \in 0..MaxFailures /\ locks \in 0..1 /\ depth \in 0..2
      OBVIOUS
    <2>3. nested \in BOOLEAN
      BY Zenon
    <2>4. map \in Region /\ view \in Region /\ access \in Region /\ window \in Region
      OBVIOUS
    <2> QED
      BY <2>1, <2>2, <2>4, <2>3, Zenon DEF TypeOK
  <1>2. WindowInv
    BY DEF WindowInv
  <1>3. BracketInv
    BY DEF BracketInv, Under
  <1>4. PairInv
    BY DEF PairInv
  <1> QED
    BY <1>1, <1>2, <1>3, <1>4 DEF AccessInv

LEMMA MapStep ==
    ASSUME AccessInv, NEW desc \in Desc, Map(desc)
    PROVE  AccessInv'
  <1> USE AccessAssumption DEF Map, ghosts
  <1>1. /\ map' \in Region /\ map' # None /\ map'.offset = desc.offset
        /\ map'.offset >= 0 /\ map'.size >= 0 /\ map'.offset + map'.size <= FrameSize
    <2>1. Range(desc.offset, desc.size) >= 0
      BY RangeFits DEF Desc
    <2> QED
      BY <2>1, RangedFits
  <1>2. desc.offset \in Nat /\ desc.flags \in Flags
    BY DEF Desc
  <1>3. desc.offset % Page \in 0..desc.offset
    <2>1. PICK x \in Nat : x = desc.offset
      BY <1>2
    <2>2. x % Page \in Nat /\ x % Page <= x
      BY PageRemainder
    <2> QED
      BY <2>1, <2>2
  <1>4. map'.offset \in Nat /\ map'.size \in Nat
    BY <1>1 DEF Region
  <1>5. (map'.size + (desc.offset % Page)) % Wrap = map'.size + (desc.offset % Page)
    <2>1. map'.size + (desc.offset % Page) \in 0..(Wrap - 1)
      BY <1>1, <1>3, <1>4
    <2> QED
      BY <2>1, RemainderBelow
  <1>6. view'.offset = desc.offset - (desc.offset % Page) /\ view'.flags = desc.flags
        /\ view'.size = map'.size + (desc.offset % Page)
    BY <1>5 DEF Start
  <1>7. view' \in Region
    <2>1. view'.offset \in -1..(Wrap - 1) /\ view'.size \in -1..(Wrap - 1)
      BY <1>1, <1>2, <1>3, <1>4, <1>6
    <2> QED
      BY <1>2, <2>1 DEF Region
  <1>8. TypeOK'
    BY <1>1, <1>7 DEF TypeOK, AccessInv
  <1>9. WindowInv'
    BY <1>1, <1>6 DEF WindowInv, Start
  <1>10. BracketInv'
    BY <1>1 DEF BracketInv, AccessInv, Under
  <1>11. PairInv'
    BY DEF PairInv, AccessInv
  <1> QED
    BY <1>8, <1>9, <1>10, <1>11 DEF AccessInv

LEMMA MapAgainStep ==
    ASSUME AccessInv, NEW desc \in Desc, MapAgain(desc)
    PROVE  AccessInv'
  <1> USE DEF MapAgain, ghosts, AccessInv
  <1>1. TypeOK'
    BY DEF TypeOK
  <1>2. WindowInv'
    BY DEF WindowInv
  <1>3. BracketInv'
    BY DEF BracketInv, Under
  <1>4. PairInv'
    BY DEF PairInv
  <1> QED
    BY <1>1, <1>2, <1>3, <1>4

LEMMA UnmapStep ==
    ASSUME AccessInv, Unmap
    PROVE  AccessInv'
  <1> USE NoneType DEF Unmap, ghosts, AccessInv
  <1>1. TypeOK'
    BY DEF TypeOK
  <1>2. WindowInv'
    BY DEF WindowInv
  <1>3. BracketInv'
    BY DEF BracketInv, Under
  <1>4. PairInv'
    BY DEF PairInv
  <1> QED
    BY <1>1, <1>2, <1>3, <1>4

(* The bounds of the brackets follow from what each of them stands for. *)
LEMMA BracketsBounded ==
    ASSUME TypeOK, brackets' \in [Flags -> Int], failures' \in 0..MaxFailures, BracketInv'
    PROVE  brackets' \in [Flags -> 0..(MaxFailures + 1)]
  <1> USE AccessAssumption
  <1>1. ASSUME NEW f \in Flags PROVE brackets'[f] \in 0..(MaxFailures + 1)
    BY DEF BracketInv, Under
  <1> QED
    BY <1>1

LEMMA CpuBeginStep ==
    ASSUME AccessInv, NEW desc \in Desc, CpuBegin(desc)
    PROVE  AccessInv'
  <1> USE AccessAssumption DEF CpuBegin, ghosts, AccessInv
  <1>1. access' \in Region /\ access' # None /\ access'.flags = desc.flags
    BY RangedFits
  <1>2. brackets' \in [Flags -> Int]
    <2>1. brackets \in [Flags -> Int]
      BY DEF TypeOK
    <2>2. PICK n \in Int : n = brackets[desc.flags] + 1
      BY <2>1 DEF Desc
    <2>3. [brackets EXCEPT ![desc.flags] = n] \in [Flags -> Int]
      BY <2>1
    <2> QED
      BY <2>1, <2>2, <2>3 DEF Bracket
  <1>3. BracketInv'
    <2>1. ASSUME NEW f \in Flags PROVE (brackets[f] - Under(f) \in 0..failures)'
      <3>1. Under(f) = 0 /\ brackets[f] \in 0..failures
        BY DEF BracketInv, Under, TypeOK
      <3>2. Under(f)' = IF platform = "posix" /\ f = desc.flags THEN 1 ELSE 0
        BY <1>1 DEF Under
      <3>3. brackets'[f] = brackets[f] + (IF platform = "posix" /\ f = desc.flags THEN 1 ELSE 0)
        BY <3>1 DEF Bracket, TypeOK
      <3> QED
        BY <3>1, <3>2, <3>3
    <2> QED
      BY <2>1 DEF BracketInv
  <1>4. TypeOK'
    BY <1>1, <1>2, <1>3, BracketsBounded DEF TypeOK
  <1>5. WindowInv'
    BY DEF WindowInv
  <1>6. PairInv'
    BY DEF PairInv
  <1> QED
    BY <1>3, <1>4, <1>5, <1>6

LEMMA CpuEndStep ==
    ASSUME AccessInv, NEW desc \in Desc, CpuEnd(desc) \/ CpuEndFails(desc)
    PROVE  AccessInv'
  <1> USE AccessAssumption, NoneType DEF CpuEnds, ghosts, AccessInv
  <1>1. brackets' \in [Flags -> Int] /\ failures' \in 0..MaxFailures
    BY DEF TypeOK, Bracket, CpuEnd, CpuEndFails
  <1>2. access' = None /\ platform' = platform /\ platform # "darwin"
    BY DEF CpuEnd, CpuEndFails
  <1>3. BracketInv'
    <2>1. ASSUME NEW f \in Flags PROVE (brackets[f] - Under(f) \in 0..failures)'
      <3>1. brackets[f] \in Int /\ failures \in Nat /\ brackets[f] - Under(f) \in 0..failures
        BY DEF BracketInv, TypeOK
      <3>2. Under(f)' = 0
        BY <1>2 DEF Under
      <3>3. Under(f) = IF platform = "posix" /\ f = access.flags THEN 1 ELSE 0
        BY DEF Under, CpuEnd, CpuEndFails
      <3>4. CASE CpuEnd(desc)
        <4>1. brackets'[f] = brackets[f] - Under(f)
          BY <3>1, <3>3, <3>4 DEF CpuEnd, Bracket, TypeOK
        <4> QED
          BY <3>1, <3>2, <3>4, <4>1 DEF CpuEnd
      <3>5. CASE CpuEndFails(desc)
        BY <3>1, <3>2, <3>3, <3>5 DEF CpuEndFails
      <3> QED
        BY <3>4, <3>5
    <2> QED
      BY <1>2, <2>1 DEF BracketInv
  <1>4. TypeOK'
    <2>1. brackets' \in [Flags -> 0..(MaxFailures + 1)]
      BY <1>1, <1>3, BracketsBounded
    <2> QED
      BY <1>1, <1>2, <2>1 DEF TypeOK, CpuEnd, CpuEndFails
  <1>5. WindowInv'
    BY DEF WindowInv, CpuEnd, CpuEndFails
  <1>6. PairInv'
    BY <1>2 DEF PairInv, CpuEnd, CpuEndFails
  <1> QED
    BY <1>3, <1>4, <1>5, <1>6

-----------------------------------------------------------------------------
(* texlink_frame_map and texlink_frame_cpu_begin on macOS: the window they answer
   with, and the map, are in the surface, which is locked and mapped as a whole.  *)
LEMMA SurfaceStep ==
    ASSUME AccessInv, NEW desc \in Desc, Surface(desc),
           platform = "darwin", platform' = "darwin"
    PROVE  /\ WindowInv' /\ map' # None
           /\ map' \in Region /\ view' \in Region /\ window' \in Region
           /\ locks' = 1
  <1> USE AccessAssumption DEF AccessInv
  <1>1. Size(desc) \in Nat /\ desc.offset \in Nat /\ desc.flags \in Flags
    BY DEF Size, Desc, TypeOK, WindowInv, Region
  <1>2. PICK range : range = [desc EXCEPT !.size = Size(desc)]
    OBVIOUS
  <1>3. range = [flags |-> desc.flags, offset |-> desc.offset, size |-> Size(desc)]
    BY <1>2 DEF Desc
  <1>4. desc.offset <= FrameSize /\ Size(desc) <= FrameSize - desc.offset
    BY DEF Surface, Fits
  <1>5. /\ range \in Region /\ range # None /\ range.offset >= 0 /\ range.size >= 0
        /\ range.offset + range.size <= FrameSize
    BY <1>1, <1>3, <1>4 DEF Region, None
  <1>6. window' = range
    BY <1>2 DEF Surface
  <1>7. CASE map # None
    BY <1>5, <1>6, <1>7 DEF Surface, WindowInv, TypeOK, PairInv
  <1>8. CASE map = None
    <2>1. /\ map' = range /\ locks' = locks + 1
          /\ view' = [offset |-> 0, size |-> FrameSize, flags |-> {}]
      BY <1>2, <1>8 DEF Surface
    <2>2. view' \in Region
      BY <2>1 DEF Region, Flags
    <2>3. locks = 0
      BY <1>8 DEF PairInv
    <2> QED
      BY <1>5, <1>6, <2>1, <2>2, <2>3 DEF WindowInv
  <1> QED
    BY <1>7, <1>8

LEMMA MapDarwinStep ==
    ASSUME AccessInv, NEW desc \in Desc, MapDarwin(desc)
    PROVE  AccessInv'
  <1> USE DEF MapDarwin, AccessInv
  <1>1. /\ WindowInv' /\ map' # None
        /\ map' \in Region /\ view' \in Region /\ window' \in Region
        /\ locks' = 1
    BY SurfaceStep
  <1>2. TypeOK'
    <2>1. nested' \in BOOLEAN
      OBVIOUS
    <2> QED
      BY <1>1, <2>1 DEF TypeOK
  <1>3. BracketInv'
    BY DEF BracketInv, Under
  <1>4. PairInv'
    BY <1>1 DEF PairInv
  <1> QED
    BY <1>1, <1>2, <1>3, <1>4

LEMMA UnmapDarwinStep ==
    ASSUME AccessInv, UnmapDarwin
    PROVE  AccessInv'
  <1> USE NoneType DEF UnmapDarwin, Unlock, AccessInv
  <1>1. locks = 1 /\ locks' = 0
    BY DEF PairInv
  <1>2. TypeOK'
    BY <1>1 DEF TypeOK
  <1>3. WindowInv'
    BY DEF WindowInv
  <1>4. BracketInv'
    BY DEF BracketInv, Under
  <1>5. PairInv'
    BY <1>1 DEF PairInv
  <1> QED
    BY <1>2, <1>3, <1>4, <1>5

LEMMA CpuBeginDarwinStep ==
    ASSUME AccessInv, NEW desc \in Desc, CpuBeginDarwin(desc)
    PROVE  AccessInv'
  <1> USE DEF CpuBeginDarwin, AccessInv
  <1>1. Maps \in Region /\ Maps # None
    <2>1. Maps = [offset |-> -1, size |-> -1, flags |-> {"read", "write"}]
      BY DEF Maps, None
    <2>2. {"read", "write"} \in Flags /\ {"read", "write"} # {}
      BY DEF Flags
    <2> QED
      BY <2>1, <2>2, AccessAssumption DEF Region, None
  <1>2. depth \in 0..1 /\ depth' = depth + 1
    BY DEF TypeOK
  <1>3. nested' <=> nested \/ depth > 0
    OBVIOUS
  <1>4. nested' \in BOOLEAN
    BY DEF TypeOK
  <1>5. BracketInv'
    BY DEF BracketInv, Under
  <1>6. CASE map = None
    <2>1. /\ WindowInv' /\ map' # None
          /\ map' \in Region /\ view' \in Region /\ window' \in Region
          /\ locks' = 1 /\ access' = Maps
      BY <1>6, SurfaceStep
    <2>2. TypeOK'
      BY <1>1, <1>2, <1>4, <2>1 DEF TypeOK
    <2>3. PairInv'
      BY <1>1, <1>2, <1>3, <2>1 DEF PairInv
    <2> QED
      BY <1>5, <2>1, <2>2, <2>3
  <1>7. CASE map # None
    <2>1. access' = None /\ UNCHANGED <<map, view, window, locks>>
      BY <1>7
    <2>2. TypeOK'
      BY <1>2, <1>4, <2>1, NoneType DEF TypeOK
    <2>3. WindowInv'
      BY <2>1 DEF WindowInv
    <2>4. PairInv'
      BY <1>2, <1>3, <1>7, <2>1 DEF PairInv
    <2> QED
      BY <1>5, <2>2, <2>3, <2>4
  <1> QED
    BY <1>6, <1>7

LEMMA CpuEndDarwinStep ==
    ASSUME AccessInv, CpuEndDarwin
    PROVE  AccessInv'
  <1> USE NoneType DEF CpuEndDarwin, AccessInv
  <1>1. depth \in 1..2 /\ depth' = depth - 1
    BY DEF TypeOK
  <1>2. BracketInv'
    BY DEF BracketInv, Under
  <1>3. CASE access # None /\ map # None
    <2>1. locks = 1 /\ locks' = 0 /\ map' = None /\ view' = None /\ window' = None
      BY <1>3 DEF Unlock, PairInv
    <2>2. TypeOK'
      BY <1>1, <2>1 DEF TypeOK
    <2>3. WindowInv'
      BY <2>1 DEF WindowInv
    <2>4. PairInv'
      BY <1>1, <2>1 DEF PairInv
    <2> QED
      BY <1>2, <2>2, <2>3, <2>4
  <1>4. CASE ~(access # None /\ map # None)
    <2>1. UNCHANGED <<map, view, window, locks>>
      BY <1>4
    <2>2. TypeOK'
      BY <1>1, <2>1 DEF TypeOK
    <2>3. WindowInv'
      BY <2>1 DEF WindowInv
    <2>4. nested
      BY <1>1, <1>4 DEF PairInv
    <2>5. PairInv'
      BY <2>1, <2>4 DEF PairInv
    <2> QED
      BY <1>2, <2>2, <2>3, <2>5
  <1> QED
    BY <1>3, <1>4

LEMMA AccessStep == AccessInv /\ [Next]_vars => AccessInv'
  <1> SUFFICES ASSUME AccessInv, [Next]_vars PROVE AccessInv'
    OBVIOUS
  <1>1. ASSUME NEW desc \in Desc, Map(desc) \/ MapAgain(desc) \/ CpuBegin(desc)
        PROVE  AccessInv'
    BY <1>1, MapStep, MapAgainStep, CpuBeginStep
  <1>2. ASSUME NEW desc \in Desc, CpuEnd(desc) \/ CpuEndFails(desc) PROVE AccessInv'
    BY <1>2, CpuEndStep
  <1>3. ASSUME NEW desc \in Desc, MapDarwin(desc) \/ CpuBeginDarwin(desc) PROVE AccessInv'
    BY <1>3, MapDarwinStep, CpuBeginDarwinStep
  <1>4. CASE UNCHANGED vars
    BY <1>4 DEF vars, AccessInv, TypeOK, WindowInv, BracketInv, Under, PairInv
  <1> QED
    BY <1>1, <1>2, <1>3, <1>4, UnmapStep, UnmapDarwinStep, CpuEndDarwinStep DEF Next

(* The strengthened invariant holds throughout. *)
LEMMA AccessInvCorrect == Spec => []AccessInv
  BY AccessInit, AccessStep, PTL DEF Spec

-----------------------------------------------------------------------------
(* Type correctness: brackets, locks and depths stay within their bounds, in
   particular texlink_frame_cpu_end never ends an access that was not begun.  *)
THEOREM TypeCorrect == Spec => []TypeOK
  <1>1. AccessInv => TypeOK
    BY DEF AccessInv
  <1> QED
    BY <1>1, AccessInvCorrect, PTL

(* Whatever offsets and sizes an application asks with, the window that
   texlink_frame_map gives it lies in the pages that are mapped and in the frame. *)
THEOREM WindowMappedCorrect == Spec => []WindowMapped
  <1>1. AccessInv => WindowMapped
    <2> SUFFICES ASSUME AccessInv, window # None
                 PROVE  /\ Bytes(window) \subseteq Bytes(view)
                        /\ Bytes(window) \subseteq 0..(FrameSize - 1)
      BY DEF WindowMapped
    <2> USE AccessAssumption DEF AccessInv
    <2>1. /\ window.offset \in Nat /\ window.size \in Nat /\ map # None
          /\ window.offset + window.size <= FrameSize
      BY DEF WindowInv, TypeOK, Region
    <2>2. view.offset \in Int /\ view.size \in Int
      BY DEF TypeOK, Region
    <2>3. /\ view.offset <= window.offset
          /\ window.offset + window.size <= view.offset + view.size
      <3>1. CASE platform = "darwin"
        BY <2>1, <3>1 DEF WindowInv
      <3>2. CASE platform # "darwin"
        <4>1. PICK x \in Nat : x = window.offset
          BY <2>1
        <4>2. x % Page \in Nat /\ x % Page <= x
          BY PageRemainder
        <4>3. view.offset = x - (x % Page) /\ view.size = window.size + (x % Page)
          BY <2>1, <3>2, <4>1 DEF WindowInv, Start
        <4> QED
          BY <2>1, <4>1, <4>2, <4>3
      <3> QED
        BY <3>1, <3>2
    <2> QED
      BY <2>1, <2>2, <2>3 DEF Bytes
  <1> QED
    BY <1>1, AccessInvCorrect, PTL

(* To the kernel every access that texlink_frame_cpu_begin started is ended once, with
   the flags it was started with, except where the kernel refused the end.            *)
THEOREM BracketsMatchCorrect == Spec => []BracketsMatch
  <1>1. AccessInv => BracketsMatch
    <2> SUFFICES ASSUME AccessInv PROVE BracketsMatch
      OBVIOUS
    <2> USE DEF AccessInv
    <2>1. ASSUME NEW f \in Flags
          PROVE  brackets[f] >= Under(f) /\ (failures = 0 => brackets[f] = Under(f))
      BY DEF BracketInv, Under, TypeOK
    <2>2. brackets = [f \in Flags |-> brackets[f]]
      BY DEF TypeOK
    <2>3. failures = 0 => brackets = [f \in Flags |-> Under(f)]
      BY <2>1, <2>2
    <2>4. platform # "darwin" /\ access # None => map # None
      BY DEF BracketInv
    <2> QED
      BY <2>1, <2>3, <2>4 DEF BracketsMatch, Under
  <1> QED
    BY <1>1, AccessInvCorrect, PTL

(* On macOS, pairs of texlink_frame_cpu_begin and texlink_frame_cpu_end leave the
   surface unlocked, and nothing but a mapping keeps it locked.                     *)
THEOREM PairsUnlockCorrect == Spec => []PairsUnlock
  <1>1. AccessInv => PairsUnlock
    BY DEF AccessInv, PairInv, PairsUnlock
  <1> QED
    BY <1>1, AccessInvCorrect, PTL

(* No call moves or drops the mapping of a frame that the processor accesses, and none
   replaces the access by another one.                                                *)
THEOREM AccessUndisturbedCorrect == Spec => AccessUndisturbed
  <1>1. ASSUME AccessInv, [Next]_vars
        PROVE  [platform # "darwin" /\ access # None =>
                   map' = map /\ view' = view /\ access' \in {access, None}]_vars
    <2> SUFFICES ASSUME Next, platform # "darwin", access # None
                 PROVE  map' = map /\ view' = view /\ access' \in {access, None}
      BY <1>1
    <2>1. map # None
      BY <1>1 DEF AccessInv, BracketInv
    <2> QED
      BY <2>1 DEF Next, Map, MapAgain, CpuBegin, CpuEnd, CpuEndFails, CpuEnds, Unmap,
                  MapDarwin, CpuBeginDarwin, UnmapDarwin, CpuEndDarwin
  <1> QED
    BY <1>1, AccessInvCorrect, PTL DEF Spec, AccessUndisturbed
=============================================================================
