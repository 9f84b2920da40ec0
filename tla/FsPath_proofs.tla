---------------------------- MODULE FsPath_proofs ----------------------------
(***************************************************************************)
(* What holds of gemini_fs_resolve() for all paths and any GEMINI_MAX_PATH *)
(***************************************************************************)
EXTENDS FsRoot, Induction, FiniteSetTheorems, SequenceTheorems, TLAPS

SlashesIn(s) == {k \in 1..Len(s) : s[k] = "/"}

LEMMA SlashesFinite ==
  ASSUME NEW s \in Seq(Chars)
  PROVE  IsFiniteSet(SlashesIn(s)) /\ Slashes(s) = Cardinality(SlashesIn(s))
<1>1. IsFiniteSet(1..Len(s))
  BY FS_Interval DEF SlashesIn
<1>2. SlashesIn(s) \subseteq 1..Len(s)
  BY DEF SlashesIn
<1> QED
  BY <1>1, <1>2, FS_Subset DEF SlashesIn, Slashes

(* A name brings no slash, *)
LEMMA SlashesOfName ==
  ASSUME NEW s \in Seq(Chars), NEW t \in Seq(Chars),
         \A k \in 1..Len(t) : t[k] # "/"
  PROVE  Slashes(s \o t) = Slashes(s)
<1>1. s \o t \in Seq(Chars) /\ Len(s \o t) = Len(s) + Len(t)
  BY ConcatProperties
<1>2. \A k \in 1..Len(s) : (s \o t)[k] = s[k]
  BY ConcatProperties
<1>3. \A k \in Len(s) + 1..Len(s) + Len(t) : (s \o t)[k] # "/"
  <2> TAKE k \in Len(s) + 1..Len(s) + Len(t)
  <2>1. k - Len(s) \in 1..Len(t)
    OBVIOUS
  <2>2. (s \o t)[k] = t[k - Len(s)]
    BY ConcatProperties
  <2> QED BY <2>1, <2>2
<1>4. SlashesIn(s \o t) = SlashesIn(s)
  BY <1>1, <1>2, <1>3 DEF SlashesIn
<1> QED BY <1>1, <1>4, SlashesFinite

(* and a separator one. *)
LEMMA SlashesOfSeparator ==
  ASSUME NEW s \in Seq(Chars)
  PROVE  Slashes(s \o <<"/">>) = Slashes(s) + 1
<1>0. <<"/">> \in Seq(Chars) /\ Len(<<"/">>) = 1 /\ <<"/">>[1] = "/"
  BY PathAssumption
<1>1. s \o <<"/">> \in Seq(Chars) /\ Len(s \o <<"/">>) = Len(s) + 1
  BY <1>0, ConcatProperties
<1>2. \A k \in 1..Len(s) : (s \o <<"/">>)[k] = s[k]
  BY <1>0, ConcatProperties
<1>3. (s \o <<"/">>)[Len(s) + 1] = "/"
  BY <1>0, ConcatProperties
<1>4. SlashesIn(s \o <<"/">>) = SlashesIn(s) \cup {Len(s) + 1}
  BY <1>1, <1>2, <1>3 DEF SlashesIn
<1>5. Len(s) + 1 \notin SlashesIn(s)
  BY DEF SlashesIn
<1> QED BY <1>1, <1>4, <1>5, SlashesFinite, FS_AddElement

LEMMA SlashesOfNone ==
  ASSUME NEW s \in Seq(Chars), \A k \in 1..Len(s) : s[k] # "/"
  PROVE  Slashes(s) = 0
<1>1. SlashesIn(s) = {}
  BY DEF SlashesIn
<1> QED BY <1>1, SlashesFinite, FS_EmptySet

(* Cutting at the last slash takes this one away. *)
LEMMA SlashesOfCut ==
  ASSUME NEW s \in Seq(Chars), NEW k \in 0..Len(s) - 1, s[k + 1] = "/",
         \A l \in k + 2..Len(s) : s[l] # "/"
  PROVE  Slashes(s) = Slashes(SubSeq(s, 1, k)) + 1
<1> DEFINE t == SubSeq(s, 1, k)
<1>1. t \in Seq(Chars) /\ Len(t) = k /\ \A l \in 1..k : t[l] = s[l]
  BY SubSeqProperties
<1> HIDE DEF t
<1>2. SlashesIn(s) = SlashesIn(t) \cup {k + 1} /\ k + 1 \notin SlashesIn(t)
  BY <1>1 DEF SlashesIn
<1>3. Slashes(s) = Slashes(t) + 1
  BY <1>1, <1>2, SlashesFinite, FS_AddElement
<1> QED BY <1>3 DEF t

-----------------------------------------------------------------------------
(* A component is not empty and has no slash. *)
Component ==
  /\ \A k \in 1..Len(buf) : buf[k] # "/"
  /\ phase = "scan" /\ state # 1 => buf # <<>>
  /\ phase = "dir" => buf # <<>>

Relative == path # <<>> => path[1] # "/"

Resolution == TypeOK /\ Component /\ Relative /\ DepthAgrees

(* As much as there is room for. *)
LEMMA MinRoom ==
  ASSUME NEW a \in Nat, NEW b \in Nat
  PROVE  Min({a, b}) \in Nat /\ Min({a, b}) <= a /\ Min({a, b}) <= b
         /\ Min({a, b}) \in {a, b}
<1>1. CASE a <= b
  <2>1. a \in {a, b} /\ \A y \in {a, b} : a <= y
    BY <1>1
  <2> QED BY <2>1 DEF Min
<1>2. CASE b <= a
  <2>1. b \in {a, b} /\ \A y \in {a, b} : b <= y
    BY <1>2
  <2> QED BY <2>1 DEF Min
<1> QED BY <1>1, <1>2

(* A component in front of which the separator goes, cut short or not. *)
LEMMA Appended ==
  ASSUME Resolution, phase = "dir", Room >= 0,
         path' = path \o Separator \o SubSeq(buf, 1, Min({Room, Len(buf)})),
         deep' = deep + 1
  PROVE  /\ path' \in Seq(Chars) /\ Len(path') < MaxPath
         /\ Relative' /\ DepthAgrees'
<1> DEFINE name == SubSeq(buf, 1, Min({Room, Len(buf)}))
           base == path \o Separator
<1> USE DEF Resolution
<1>0. /\ path \in Seq(Chars) /\ buf \in Seq(Chars) /\ deep \in Nat
      /\ Len(path) \in Nat /\ Len(buf) \in Nat /\ MaxPath \in Nat /\ MaxPath > 2
  BY PathAssumption DEF TypeOK
<1>1. Separator \in Seq(Chars) /\ Len(Separator) = IF deep > 0 THEN 1 ELSE 0
  BY PathAssumption DEF Separator
<1>2. base \in Seq(Chars) /\ Len(base) = Len(path) + Len(Separator)
  BY <1>0, <1>1, ConcatProperties
<1>3. Room \in Nat
  BY <1>0, <1>1 DEF Room
<1>4. /\ Min({Room, Len(buf)}) \in Nat
      /\ Min({Room, Len(buf)}) <= Room /\ Min({Room, Len(buf)}) <= Len(buf)
      /\ Min({Room, Len(buf)}) \in {Room, Len(buf)}
  BY <1>0, <1>3, MinRoom
<1>5. /\ name \in Seq(Chars) /\ Len(name) = Min({Room, Len(buf)})
      /\ \A k \in 1..Len(name) : name[k] # "/"
  <2>1. \A k \in 1..Min({Room, Len(buf)}) : buf[k] \in Chars /\ buf[k] # "/"
    BY <1>0, <1>4 DEF Component
  <2>2. ASSUME NEW n \in Nat, \A k \in 1..n : buf[k] \in Chars
        PROVE  /\ SubSeq(buf, 1, n) \in Seq(Chars) /\ Len(SubSeq(buf, 1, n)) = n
               /\ \A k \in 1..n : SubSeq(buf, 1, n)[k] = buf[k]
    BY <2>2, SubSeqProperties
  <2> QED BY <1>4, <2>1, <2>2
<1> HIDE DEF name
<1>6. path' = base \o name
  BY DEF name
<1>7. path' \in Seq(Chars) /\ Len(path') = Len(base) + Len(name)
  BY <1>2, <1>5, <1>6, ConcatProperties
<1>8. Len(path') < MaxPath
  BY <1>0, <1>1, <1>2, <1>4, <1>5, <1>7 DEF Room
<1>9. Slashes(path') = Slashes(base)
  BY <1>2, <1>5, <1>6, SlashesOfName
<1>10. CASE deep = 0
  <2>1. path = <<>> /\ Separator = <<>>
    BY <1>10, <1>0, SlashesFinite, FS_CardinalityType DEF DepthAgrees, Separator
  <2>2. base = <<>> /\ path' = name
    <3>1. <<>> \o <<>> = <<>> /\ <<>> \o name = name
      BY <1>5, ConcatEmptySeq
    <3> QED BY <2>1, <3>1, <1>6
  <2>3. Len(path) = 0 /\ Len(Separator) = 0 /\ Len(buf) > 0
    BY <2>1, <1>0, EmptySeq DEF Component
  <2>4. Len(name) > 0
    BY <2>3, <1>0, <1>4, <1>5 DEF Room
  <2>5. Slashes(path') = 0
    BY <2>2, <1>5, SlashesOfNone
  <2>6. path' # <<>> /\ path'[1] # "/"
    <3>1. name # <<>> /\ 1 \in 1..Len(name)
      BY <2>4, <1>4, <1>5
    <3> QED BY <3>1, <2>2, <1>5
  <2> QED
    BY <2>5, <2>6, <1>7, <1>8, <1>10 DEF Relative, DepthAgrees
<1>11. CASE deep > 0
  <2>1. path # <<>> /\ deep = Slashes(path) + 1 /\ Separator = <<"/">>
    BY <1>11 DEF DepthAgrees, Separator
  <2>2. Slashes(base) = Slashes(path) + 1
    BY <2>1, <1>0, SlashesOfSeparator
  <2>3. Len(path) > 0
    BY <2>1, <1>0, EmptySeq
  <2>4. path' # <<>>
    BY <2>3, <1>0, <1>1, <1>2, <1>4, <1>5, <1>7
  <2>5. path'[1] = path[1]
    <3>1. base[1] = path[1]
      BY <2>3, <1>0, <1>1, ConcatProperties
    <3>2. path'[1] = base[1]
      BY <2>3, <1>0, <1>1, <1>2, <1>4, <1>5, <1>6, ConcatProperties
    <3> QED BY <3>1, <3>2
  <2>6. deep' = Slashes(path') + 1
    BY <2>1, <2>2, <1>9
  <2> QED
    BY <2>1, <2>4, <2>5, <2>6, <1>7, <1>8 DEF Relative, DepthAgrees
<1>12. deep = 0 \/ deep > 0
  BY <1>0
<1> QED BY <1>10, <1>11, <1>12

(* A path that is cut before its last component. *)
LEMMA WasCut ==
  ASSUME Resolution, deep > 0, NEW k \in 0..Len(path) - 1, CutAt(k),
         path' = SubSeq(path, 1, k), deep' = deep - 1
  PROVE  /\ path' \in Seq(Chars) /\ Len(path') < MaxPath
         /\ deep' \in Nat /\ Relative' /\ DepthAgrees'
<1> USE DEF Resolution
<1>0. /\ path \in Seq(Chars) /\ Len(path) \in Nat /\ Len(path) < MaxPath
      /\ deep \in Nat /\ MaxPath \in Nat
  BY PathAssumption DEF TypeOK
<1>1. path # <<>> /\ deep = Slashes(path) + 1 /\ path[1] # "/"
  BY DEF DepthAgrees, Relative
<1>2. /\ path' \in Seq(Chars) /\ Len(path') = k
      /\ \A l \in 1..k : path'[l] = path[l]
  <2>1. \A l \in 1..k : path[l] \in Chars
    BY <1>0
  <2> QED BY <2>1, SubSeqProperties
<1>3. deep' \in Nat
  BY <1>0
<1>4. Relative'
  BY <1>1, <1>2 DEF Relative
<1>5. CASE k = 0
  <2>1. \A l \in 1..Len(path) : path[l] # "/"
    <3> TAKE l \in 1..Len(path)
    <3>1. CASE l = 1 BY <3>1, <1>1
    <3>2. CASE l > 1 BY <3>2, <1>5 DEF CutAt
    <3> QED BY <3>1, <3>2
  <2>2. deep' = 0 /\ path' = <<>>
    BY <2>1, <1>0, <1>1, <1>2, <1>5, SlashesOfNone, EmptySeq
  <2> QED
    BY <2>2, <1>0, <1>2, <1>3, <1>4 DEF DepthAgrees
<1>6. CASE k > 0
  <2>1. Slashes(path) = Slashes(path') + 1
    BY <1>0, <1>6, SlashesOfCut DEF CutAt
  <2>2. path' # <<>>
    BY <1>2, <1>6
  <2>3. Slashes(path') \in Nat
    BY <1>2, SlashesFinite, FS_CardinalityType
  <2> QED
    BY <2>1, <2>2, <2>3, <1>0, <1>1, <1>2, <1>3, <1>4 DEF DepthAgrees
<1> QED BY <1>5, <1>6

LEMMA ResolutionInit == Init => Resolution
<1> SUFFICES ASSUME Init PROVE Resolution
  OBVIOUS
<1>1. <<>> \in Seq(Chars) /\ Len(<<>>) = 0 /\ file \in Seq(Chars)
  BY PathAssumption DEF Init
<1> QED
  BY <1>1, PathAssumption
  DEF Init, Resolution, TypeOK, Component, Relative, DepthAgrees

LEMMA ResolutionStep == Resolution /\ [Next]_vars => Resolution'
<1> SUFFICES ASSUME Resolution, [Next]_vars PROVE Resolution'
  OBVIOUS
<1> USE DEF Resolution
<1>0. MaxPath \in Nat /\ MaxPath > 2
  BY PathAssumption
<1>e. <<>> \in Seq(Chars) /\ Len(<<>>) = 0
  OBVIOUS
<1>c. AtName => file[pos] \in Chars /\ pos + 1 \in 1..Len(file) + 1
  BY DEF AtName, TypeOK
<1>1. CASE Return
  BY <1>1 DEF Return, EndsComponent, TypeOK, Component, Relative, DepthAgrees, Slashes
<1>2. CASE SkipChar
  BY <1>2 DEF SkipChar, AtSlash, TypeOK, Component, Relative, DepthAgrees, Slashes
<1>3. CASE KeepChar
  <2>1. buf' \in Seq(Chars) /\ Len(buf') = Len(buf) + 1
        /\ \A k \in 1..Len(buf) : buf'[k] = buf[k]
        /\ buf'[Len(buf) + 1] = file[pos]
    BY <1>3, <1>c DEF KeepChar, BufLeft, TypeOK
  <2>2. TypeOK'
    BY <1>0, <1>3, <1>c, <2>1 DEF KeepChar, BufLeft, To, TypeOK
  <2>3. Component'
    <3>1. \A k \in 1..Len(buf') : buf'[k] # "/"
      BY <1>3, <2>1 DEF KeepChar, AtName, TypeOK, Component
    <3>2. buf' # <<>>
      BY <2>1 DEF TypeOK
    <3> QED BY <3>1, <3>2 DEF Component
  <2> QED
    BY <1>3, <2>2, <2>3 DEF KeepChar, Relative, DepthAgrees, Slashes
<1>4. CASE TooLong
  BY <1>4 DEF TooLong, TypeOK, Ends, Component, Relative, DepthAgrees, Slashes
<1>5. CASE Finish
  BY <1>5 DEF Finish, TypeOK, Ends, Component, Relative, DepthAgrees, Slashes
<1>6. CASE AppendComponent
  <2>1. path' \in Seq(Chars) /\ Len(path') < MaxPath /\ Relative' /\ DepthAgrees'
    BY <1>6, Appended DEF AppendComponent
  <2>2. deep' \in Nat
    BY <1>6 DEF AppendComponent, TypeOK
  <2>3. phase' = "scan" /\ state' = 1 /\ buf' = <<>> /\ UNCHANGED <<file, pos>>
    BY <1>6 DEF AppendComponent, Rescan
  <2>4. TypeOK'
    BY <1>0, <1>e, <2>1, <2>2, <2>3 DEF TypeOK
  <2>5. Component'
    BY <1>e, <2>3 DEF Component
  <2> QED
    BY <2>1, <2>4, <2>5
<1>7. CASE LeftWraps
  BY <1>7 DEF LeftWraps, TypeOK, Ends, Component, Relative, DepthAgrees, Slashes
<1>8. CASE CutComponent
  <2>1. PICK k \in 0..Len(path) - 1 : CutAt(k) /\ path' = SubSeq(path, 1, k)
    BY <1>8 DEF CutComponent
  <2>2. /\ path' \in Seq(Chars) /\ Len(path') < MaxPath
        /\ deep' \in Nat /\ Relative' /\ DepthAgrees'
    BY <1>8, <2>1, WasCut DEF CutComponent
  <2> QED
    BY <1>0, <1>8, <1>e, <2>2 DEF CutComponent, Rescan, TypeOK, Component
<1>9. CASE StayAtRoot
  BY <1>0, <1>9, <1>e DEF StayAtRoot, Rescan, TypeOK, Component, Relative, DepthAgrees,
                         Slashes
<1>10. CASE UNCHANGED vars
  BY <1>10 DEF vars, TypeOK, Component, Relative, DepthAgrees, Slashes
<1> QED
  BY <1>1, <1>2, <1>3, <1>4, <1>5, <1>6, <1>7, <1>8, <1>9, <1>10 DEF Next

LEMMA ResolutionAlways == Spec => []Resolution
BY ResolutionInit, ResolutionStep, PTL DEF Spec

(* Neither the component buffer nor the result is written behind its end   *)
(* before `left' wraps.                                                    *)
THEOREM TypeCorrect == Spec => []TypeOK
<1>1. Resolution => TypeOK
  BY DEF Resolution
<1> QED BY <1>1, ResolutionAlways, PTL

(* `deep' agrees with the result, whatever components and ".." were met    *)
(* and wherever the buffer ended.                                          *)
THEOREM DepthAgreesHolds == Spec => []DepthAgrees
<1>1. Resolution => DepthAgrees
  BY DEF Resolution
<1> QED BY <1>1, ResolutionAlways, PTL

-----------------------------------------------------------------------------
(* Which of the components that are no names begins at j. *)
LEMMA Has ==
  ASSUME NEW s, Len(s) \in Nat, NEW j \in 1..Len(s) + 1
  PROVE  /\ HasAt(s, j, <<>>) <=> j = Len(s) + 1 \/ s[j] = "/"
         /\ HasAt(s, j, Dot) <=> /\ j <= Len(s) /\ s[j] = "."
                                 /\ j = Len(s) \/ s[j + 1] = "/"
         /\ HasAt(s, j, Up) <=> /\ j < Len(s) /\ s[j] = "." /\ s[j + 1] = "."
                                /\ j + 1 = Len(s) \/ s[j + 2] = "/"
<1>1. HasAt(s, j, <<>>) <=> j = Len(s) + 1 \/ s[j] = "/"
  <2>1. Len(<<>>) = 0 /\ 1..0 = {} /\ j + 0 = j
    OBVIOUS
  <2> QED
    BY <2>1 DEF HasAt
<1>2. HasAt(s, j, Dot) <=> /\ j <= Len(s) /\ s[j] = "."
                           /\ j = Len(s) \/ s[j + 1] = "/"
  <2>1. Len(Dot) = 1 /\ 1..1 = {1} /\ Dot[1] = "." /\ j + 1 - 1 = j
    BY DEF Dot
  <2>2. j + 1 = Len(s) + 1 <=> j = Len(s)
    OBVIOUS
  <2> QED
    BY <2>1, <2>2 DEF HasAt
<1>3. HasAt(s, j, Up) <=> /\ j < Len(s) /\ s[j] = "." /\ s[j + 1] = "."
                          /\ j + 1 = Len(s) \/ s[j + 2] = "/"
  <2>1. Len(Up) = 2 /\ 1..2 = {1, 2} /\ Up[1] = "." /\ Up[2] = "."
    BY DEF Up
  <2>2. j + 1 - 1 = j /\ j + 2 - 1 = j + 1 /\ (j + 2 = Len(s) + 1 <=> j + 1 = Len(s))
        /\ (j <= Len(s) /\ j + 1 <= Len(s) <=> j < Len(s))
    OBVIOUS
  <2> QED
    BY <2>1, <2>2 DEF HasAt
<1> QED
  BY <1>1, <1>2, <1>3

(* A path has the same components up to a slash as what is in front of it. *)
Front1(p, s) == /\ Len(p) < Len(s) /\ s[Len(p) + 1] = "/"
                /\ \A k \in 1..Len(p) : p[k] = s[k]

LEMMA FrontComponents ==
  ASSUME NEW p \in Seq(Chars), NEW s \in Seq(Chars), Front1(p, s), NEW j \in 1..Len(p) + 1
  PROVE  /\ j \in Begins(p) <=> j \in Begins(s)
         /\ j \in Names(p) <=> j \in Names(s)
         /\ j \in Ups(p) <=> j \in Ups(s)
<1>0. Len(p) \in Nat /\ Len(s) \in Nat /\ Len(p) < Len(s) /\ j \in 1..Len(s) + 1
      /\ s[Len(p) + 1] = "/" /\ \A k \in 1..Len(p) : p[k] = s[k]
  BY DEF Front1
<1>1. j \in Begins(p) <=> j \in Begins(s)
  BY <1>0 DEF Begins
<1>2. "." # "/"
  OBVIOUS
<1>3. HasAt(p, j, <<>>) <=> HasAt(s, j, <<>>)
  <2>1. (HasAt(p, j, <<>>) <=> j = Len(p) + 1 \/ p[j] = "/")
        /\ (HasAt(s, j, <<>>) <=> j = Len(s) + 1 \/ s[j] = "/")
    BY <1>0, Has
  <2> QED
    BY <1>0, <2>1
<1>4. HasAt(p, j, Dot) <=> HasAt(s, j, Dot)
  <2>1. /\ HasAt(p, j, Dot) <=> j <= Len(p) /\ p[j] = "." /\ (j = Len(p) \/ p[j + 1] = "/")
        /\ HasAt(s, j, Dot) <=> j <= Len(s) /\ s[j] = "." /\ (j = Len(s) \/ s[j + 1] = "/")
    BY <1>0, Has
  <2> QED
    BY <1>0, <1>2, <2>1
<1>5. HasAt(p, j, Up) <=> HasAt(s, j, Up)
  <2>1. /\ HasAt(p, j, Up) <=> j < Len(p) /\ p[j] = "." /\ p[j + 1] = "."
                                 /\ (j + 1 = Len(p) \/ p[j + 2] = "/")
        /\ HasAt(s, j, Up) <=> j < Len(s) /\ s[j] = "." /\ s[j + 1] = "."
                                 /\ (j + 1 = Len(s) \/ s[j + 2] = "/")
    BY <1>0, Has
  <2>2. CASE j = Len(p) + 1
    BY <1>0, <1>2, <2>1, <2>2
  <2>3. CASE j = Len(p)
    BY <1>0, <1>2, <2>1, <2>3
  <2>4. CASE j + 1 = Len(p)
    <3>1. j \in 1..Len(p) /\ j + 1 \in 1..Len(p) /\ j + 2 = Len(p) + 1 /\ j < Len(p) /\ j < Len(s)
      BY <1>0, <2>4
    <3> QED
      BY <1>0, <2>1, <2>4, <3>1
  <2>5. CASE j + 1 < Len(p)
    <3>1. /\ j \in 1..Len(p) /\ j + 1 \in 1..Len(p) /\ j + 2 \in 1..Len(p)
          /\ j < Len(p) /\ j < Len(s) /\ j + 1 # Len(p) /\ j + 1 # Len(s)
      BY <1>0, <2>5
    <3> QED
      BY <1>0, <2>1, <3>1
  <2> QED
    BY <1>0, <2>2, <2>3, <2>4, <2>5
<1> QED
  BY <1>1, <1>3, <1>4, <1>5 DEF Names, Ups, Skips

(* A path does not lead above its beginning if it begins with a name and   *)
(* has a ".." at its end at most.                                          *)
Tame(s, k) ==
  \A j \in Ups(s) : k < j => /\ k + 1 \in Names(s) /\ k + 1 < j
                             /\ \A l \in j..Len(s) : s[l] # "/"

LEMMA TameDescends ==
  ASSUME NEW s \in Seq(Chars), NEW k \in Nat, Tame(s, k)
  PROVE  DescendsFrom(s, k)
<1> SUFFICES ASSUME NEW n \in Begins(s)
             PROVE  Cardinality({j \in Ups(s) : k < j /\ j <= n})
                      <= Cardinality({j \in Names(s) : k < j /\ j <= n})
  BY DEF DescendsFrom
<1> DEFINE U == {j \in Ups(s) : k < j /\ j <= n}
           M == {j \in Names(s) : k < j /\ j <= n}
<1>1. Len(s) \in Nat /\ n \in 1..Len(s) + 1
  BY DEF Begins
<1>2. IsFiniteSet(M) /\ Cardinality(M) \in Nat
  <2>1. IsFiniteSet(1..Len(s) + 1)
    BY <1>1, FS_Interval
  <2>2. M \subseteq 1..Len(s) + 1
    BY DEF Names, Begins
  <2> QED
    BY <2>1, <2>2, FS_Subset, FS_CardinalityType
<1>3. ASSUME U = {} PROVE Cardinality(U) <= Cardinality(M)
  <2> HIDE DEF U, M
  <2>1. Cardinality(U) = 0
    BY <1>3, FS_EmptySet
  <2> QED
    BY <1>2, <2>1
<1>4. ASSUME U # {} PROVE Cardinality(U) <= Cardinality(M)
  <2>1. PICK u \in U : TRUE
    BY <1>4
  <2>2. ASSUME NEW v \in U PROVE v = u
    <3>1. \A x \in U : x \in 1..Len(s) + 1 /\ (x = 1 \/ s[x - 1] = "/") /\ x > 1
                        /\ \A l \in x..Len(s) : s[l] # "/"
      BY DEF Tame, Ups, Begins
    <3> HIDE DEF U
    <3>2. ~(u < v)
      <4> SUFFICES ASSUME u < v PROVE FALSE
        OBVIOUS
      <4>1. v - 1 \in u..Len(s) /\ s[v - 1] = "/"
        BY <1>1, <2>1, <2>2, <3>1
      <4> QED
        BY <2>1, <3>1, <4>1
    <3>3. ~(v < u)
      <4> SUFFICES ASSUME v < u PROVE FALSE
        OBVIOUS
      <4>1. u - 1 \in v..Len(s) /\ s[u - 1] = "/"
        BY <1>1, <2>1, <2>2, <3>1
      <4> QED
        BY <2>2, <3>1, <4>1
    <3> QED
      BY <2>1, <2>2, <3>1, <3>2, <3>3
  <2>3. Cardinality(U) = 1
    <3> HIDE DEF U
    <3>1. U = {u}
      BY <2>1, <2>2
    <3> QED
      BY <3>1, FS_Singleton
  <2>4. k + 1 \in M
    BY <2>1 DEF Tame, Ups, Begins
  <2>5. Cardinality(M) # 0
    <3> HIDE DEF M
    <3> QED
      BY <1>2, <2>4, FS_EmptySet
  <2> HIDE DEF U, M
  <2> QED
    BY <1>2, <2>3, <2>5
<1> QED
  BY <1>3, <1>4

-----------------------------------------------------------------------------
(* What the automaton says of the buffer, and the result of its parts:     *)
(* these are names, but for the last where the result was cut short.       *)
Proper(t) == Len(t) >= 3 \/ \E k \in 1..Len(t) : t[k] # "."

Spelled ==
  /\ state = 2 => Len(buf) >= 1
  /\ state = 3 => Len(buf) >= 2
  /\ state = 4 => Proper(buf)
  /\ phase = "dir" => state = 4

CutShort(s, j) == j > 1 /\ Len(s) = MaxPath - 1 /\ \A l \in j..Len(s) : s[l] # "/"

OfNames(s) == s # <<>> => \A j \in Begins(s) : j \in Names(s) \/ CutShort(s, j)

(* Such a result does not lead above its beginning. *)
LEMMA OfNamesTame ==
  ASSUME NEW s \in Seq(Chars), OfNames(s)
  PROVE  Tame(s, 0)
<1> SUFFICES ASSUME NEW j \in Ups(s), 0 < j
             PROVE  1 \in Names(s) /\ 1 < j /\ \A l \in j..Len(s) : s[l] # "/"
  BY DEF Tame
<1>1. j \in Begins(s) /\ HasAt(s, j, Up) /\ j \notin Names(s) /\ j \in 1..Len(s) + 1
  BY DEF Ups, Names, Begins
<1>2. Len(s) \in Nat /\ j < Len(s)
  BY <1>1, Has
<1>3. s # <<>>
  <2>1. Len(<<>>) = 0
    OBVIOUS
  <2> QED
    BY <1>1, <1>2, <2>1
<1>4. CutShort(s, j)
  BY <1>1, <1>3 DEF OfNames
<1>5. 1 \in Begins(s) /\ ~CutShort(s, 1)
  BY <1>2 DEF Begins, CutShort
<1>6. 1 \in Names(s)
  BY <1>3, <1>5 DEF OfNames
<1> QED
  BY <1>4, <1>6 DEF CutShort

(* The last component is a name if the automaton says so. *)
LEMMA ProperName ==
  ASSUME NEW s \in Seq(Chars), NEW j \in Begins(s), \A l \in j..Len(s) : s[l] # "/",
         Len(s) >= j + 2 \/ \E k \in j..Len(s) : s[k] # "."
  PROVE  j \in Names(s)
<1>1. Len(s) \in Nat /\ j \in 1..Len(s) + 1
  BY DEF Begins
<1>2. /\ HasAt(s, j, <<>>) <=> j = Len(s) + 1 \/ s[j] = "/"
      /\ HasAt(s, j, Dot) <=> j <= Len(s) /\ s[j] = "." /\ (j = Len(s) \/ s[j + 1] = "/")
      /\ HasAt(s, j, Up) <=> j < Len(s) /\ s[j] = "." /\ s[j + 1] = "."
                               /\ (j + 1 = Len(s) \/ s[j + 2] = "/")
  BY <1>1, Has
<1>3. j <= Len(s)
  BY <1>1
<1>4. ~HasAt(s, j, <<>>)
  BY <1>1, <1>2, <1>3
<1>5. ~HasAt(s, j, Dot)
  <2> SUFFICES ASSUME HasAt(s, j, Dot) PROVE FALSE
    OBVIOUS
  <2>1. s[j] = "." /\ (j = Len(s) \/ s[j + 1] = "/")
    BY <1>2
  <2>2. j = Len(s)
    BY <1>1, <1>3, <2>1
  <2> QED
    BY <1>1, <2>1, <2>2
<1>6. ~HasAt(s, j, Up)
  <2> SUFFICES ASSUME HasAt(s, j, Up) PROVE FALSE
    OBVIOUS
  <2>1. j < Len(s) /\ s[j] = "." /\ s[j + 1] = "." /\ (j + 1 = Len(s) \/ s[j + 2] = "/")
    BY <1>2
  <2>2. j + 1 = Len(s)
    BY <1>1, <1>3, <2>1
  <2>3. \A k \in j..Len(s) : k = j \/ k = j + 1
    BY <1>1, <2>2
  <2> QED
    BY <1>1, <2>1, <2>2, <2>3
<1> QED
  BY <1>4, <1>5, <1>6 DEF Names, Skips

LEMMA Glue ==
  ASSUME NEW a \in Seq(Chars), NEW b \in Seq(Chars)
  PROVE  /\ a \o b \in Seq(Chars) /\ Len(a \o b) = Len(a) + Len(b)
         /\ \A k \in 1..Len(a) : (a \o b)[k] = a[k]
         /\ \A k \in 1..Len(b) : (a \o b)[Len(a) + k] = b[k]
<1>1. Len(a) \in Nat /\ Len(b) \in Nat
  OBVIOUS
<1>2. a \o b \in Seq(Chars) /\ Len(a \o b) = Len(a) + Len(b)
  BY ConcatProperties
<1>3. \A k \in 1..Len(a) : (a \o b)[k] = a[k]
  BY ConcatProperties
<1>4. ASSUME NEW k \in 1..Len(b) PROVE (a \o b)[Len(a) + k] = b[k]
  <2>1. Len(a) + k \in Len(a) + 1..Len(a) + Len(b) /\ Len(a) + k - Len(a) = k
    BY <1>1
  <2>2. (a \o b)[Len(a) + k] = b[Len(a) + k - Len(a)]
    BY <2>1, ConcatProperties
  <2> QED
    BY <2>1, <2>2
<1> QED
  BY <1>2, <1>3, <1>4

(* The characters of the result with one more component. *)
LEMMA AppendedChars ==
  ASSUME TypeOK, Room >= 0,
         path' = path \o Separator \o SubSeq(buf, 1, Min({Room, Len(buf)}))
  PROVE  \E n \in 0..Len(buf) :
           /\ path' \in Seq(Chars) /\ Len(path') = Len(path) + Len(Separator) + n
           /\ n = Len(buf) \/ Len(path') = MaxPath - 1
           /\ \A k \in 1..Len(path) : path'[k] = path[k]
           /\ deep > 0 => path'[Len(path) + 1] = "/"
           /\ \A k \in 1..n : path'[Len(path) + Len(Separator) + k] = buf[k]
<1> DEFINE n == Min({Room, Len(buf)})
           name == SubSeq(buf, 1, n)
           base == path \o Separator
<1>0. /\ path \in Seq(Chars) /\ buf \in Seq(Chars) /\ deep \in Nat
      /\ Len(path) \in Nat /\ Len(buf) \in Nat /\ MaxPath \in Nat
  BY PathAssumption DEF TypeOK
<1>1. /\ Separator \in Seq(Chars) /\ Len(Separator) = IF deep > 0 THEN 1 ELSE 0
      /\ deep > 0 => Separator[1] = "/"
  BY PathAssumption DEF Separator
<1>2. Room \in Nat
  BY <1>0, <1>1 DEF Room
<1>3. n \in 0..Len(buf) /\ (n = Len(buf) \/ n = Room)
  <2>1. /\ n \in Nat /\ n <= Len(buf)
        /\ n \in {Room, Len(buf)}
    BY <1>0, <1>2, MinRoom
  <2> HIDE DEF n
  <2> QED
    BY <1>0, <2>1
<1>4. name \in Seq(Chars) /\ Len(name) = n /\ \A k \in 1..n : name[k] = buf[k]
  <2>1. ASSUME NEW m \in Nat, m <= Len(buf)
        PROVE  /\ SubSeq(buf, 1, m) \in Seq(Chars) /\ Len(SubSeq(buf, 1, m)) = m
               /\ \A k \in 1..m : SubSeq(buf, 1, m)[k] = buf[k]
    <3>1. \A k \in 1..m : buf[k] \in Chars
      BY <1>0, <2>1
    <3> QED
      BY <2>1, <3>1, SubSeqProperties
  <2> HIDE DEF n
  <2> QED
    BY <1>0, <1>3, <2>1
<1>5. /\ base \in Seq(Chars) /\ Len(base) = Len(path) + Len(Separator)
      /\ \A k \in 1..Len(path) : base[k] = path[k]
      /\ \A k \in 1..Len(Separator) : base[Len(path) + k] = Separator[k]
  BY <1>0, <1>1, Glue
<1> HIDE DEF n, name, base
<1>6. path' = base \o name
  BY DEF n, name, base
<1>7. /\ path' \in Seq(Chars) /\ Len(path') = Len(base) + n
      /\ \A k \in 1..Len(base) : path'[k] = base[k]
      /\ \A k \in 1..n : path'[Len(base) + k] = name[k]
  <2>1. PICK r : r = base \o name
    OBVIOUS
  <2>2. /\ r \in Seq(Chars) /\ Len(r) = Len(base) + Len(name)
        /\ \A k \in 1..Len(base) : r[k] = base[k]
        /\ \A k \in 1..Len(name) : r[Len(base) + k] = name[k]
    <3>1. base \in Seq(Chars) /\ name \in Seq(Chars)
      BY <1>4, <1>5
    <3> QED
      BY <2>1, <3>1, Glue
  <2> QED
    BY <1>4, <1>6, <2>1, <2>2
<1>8. n = Len(buf) \/ Len(path') = MaxPath - 1
  BY <1>0, <1>1, <1>3, <1>5, <1>7 DEF Room
<1>9. ASSUME deep > 0 PROVE path'[Len(path) + 1] = "/"
  <2>1. 1 \in 1..Len(Separator) /\ Len(path) + 1 \in 1..Len(base)
    BY <1>0, <1>1, <1>5, <1>9
  <2> QED
    BY <1>1, <1>5, <1>7, <1>9, <2>1
<1>10. \A k \in 1..Len(path) : path'[k] = path[k]
  BY <1>0, <1>1, <1>5, <1>7
<1>11. Len(path') = Len(path) + Len(Separator) + n
  BY <1>5, <1>7
<1>12. \A k \in 1..n : path'[Len(path) + Len(Separator) + k] = buf[k]
  BY <1>4, <1>5, <1>7
<1> USE <1>3
<1> WITNESS n \in 0..Len(buf)
<1> QED
  BY <1>7, <1>8, <1>9, <1>10, <1>11, <1>12

(* It remains of names when one more is handed over, *)
LEMMA NamesAppended ==
  ASSUME Resolution, Spelled, OfNames(path), phase = "dir", Room >= 0,
         path' = path \o Separator \o SubSeq(buf, 1, Min({Room, Len(buf)}))
  PROVE  OfNames(path')
<1>0. /\ path \in Seq(Chars) /\ buf \in Seq(Chars) /\ deep \in Nat
      /\ Len(path) \in Nat /\ Len(buf) \in Nat /\ MaxPath \in Nat
      /\ Len(path) < MaxPath /\ Len(buf) < MaxPath
      /\ Len(Separator) = IF deep > 0 THEN 1 ELSE 0
  BY PathAssumption DEF Resolution, TypeOK, Separator
<1>1. /\ Proper(buf) /\ buf # <<>>
      /\ \A k \in 1..Len(buf) : buf[k] # "/"
  BY DEF Resolution, Component, Spelled
<1>2. PICK n \in 0..Len(buf) :
        /\ path' \in Seq(Chars) /\ Len(path') = Len(path) + Len(Separator) + n
        /\ n = Len(buf) \/ Len(path') = MaxPath - 1
        /\ \A k \in 1..Len(path) : path'[k] = path[k]
        /\ deep > 0 => path'[Len(path) + 1] = "/"
        /\ \A k \in 1..n : path'[Len(path) + Len(Separator) + k] = buf[k]
  BY AppendedChars DEF Resolution
<1>3. PICK s \in Seq(Chars) :
        /\ s = path'
        /\ Len(s) = Len(path) + Len(Separator) + n
        /\ n = Len(buf) \/ Len(s) = MaxPath - 1
        /\ \A k \in 1..Len(path) : s[k] = path[k]
        /\ deep > 0 => s[Len(path) + 1] = "/"
        /\ \A k \in 1..n : s[Len(path) + Len(Separator) + k] = buf[k]
  BY <1>2
<1> DEFINE new == Len(path) + Len(Separator) + 1
<1>4. /\ Len(s) = new - 1 + n /\ new \in Nat \ {0} /\ n \in Nat /\ Len(s) \in Nat
      /\ n = Len(buf) \/ Len(s) = MaxPath - 1
      /\ \A k \in 1..n : s[new - 1 + k] = buf[k]
  <2>1. Len(path) + Len(Separator) = new - 1
    BY <1>0
  <2>2. Len(s) = new - 1 + n /\ (n = Len(buf) \/ Len(s) = MaxPath - 1)
    BY <1>3, <2>1
  <2>3. \A k \in 1..n : s[new - 1 + k] = buf[k]
    BY <1>3, <2>1
  <2>4. new \in Nat \ {0} /\ n \in Nat /\ Len(s) \in Nat
    BY <1>0
  <2> HIDE DEF new
  <2> QED
    BY <2>2, <2>3, <2>4
<1>5. \A l \in new..Len(s) : s[l] = buf[l - new + 1] /\ s[l] # "/"
  <2> SUFFICES ASSUME NEW l \in new..Len(s) PROVE s[l] = buf[l - new + 1] /\ s[l] # "/"
    OBVIOUS
  <2> HIDE DEF new
  <2>1. l - new + 1 \in 1..n /\ new - 1 + (l - new + 1) = l /\ l - new + 1 \in 1..Len(buf)
    BY <1>4
  <2> QED
    BY <1>1, <1>4, <2>1
<1>6. ASSUME n = Len(buf), new \in Begins(s) PROVE new \in Names(s)
  <2> HIDE DEF new
  <2>1. CASE Len(buf) >= 3
    <3>1. Len(s) >= new + 2
      BY <1>0, <1>4, <1>6, <2>1
    <3> QED
      BY <1>5, <1>6, <3>1, ProperName
  <2>2. CASE \E k \in 1..Len(buf) : buf[k] # "."
    <3>1. PICK k \in 1..Len(buf) : buf[k] # "."
      BY <2>2
    <3>2. new - 1 + k \in new..Len(s) /\ s[new - 1 + k] # "."
      BY <1>0, <1>4, <1>6, <3>1
    <3> QED
      BY <1>5, <1>6, <3>2, ProperName
  <2> QED
    BY <1>1, <2>1, <2>2 DEF Proper
<1>7. CASE deep = 0
  <2>1. path = <<>> /\ Len(path) = 0 /\ Len(Separator) = 0
    BY <1>7, <1>0, SlashesFinite, FS_CardinalityType DEF Resolution, DepthAgrees
  <2>2. n = Len(buf)
    BY <1>0, <1>2, <2>1
  <2>3. new = 1 /\ Begins(s) = {1}
    <3>1. new = 1
      BY <2>1
    <3>2. \A l \in 1..Len(s) : s[l] # "/"
      BY <1>5, <3>1
    <3> HIDE DEF new
    <3>3. ASSUME NEW j \in Begins(s) PROVE j = 1
      BY <1>4, <3>2 DEF Begins
    <3>4. 1 \in Begins(s)
      BY <1>4 DEF Begins
    <3> QED
      BY <3>1, <3>3, <3>4
  <2>4. 1 \in Names(s)
    BY <1>6, <2>2, <2>3
  <2> QED
    BY <1>3, <2>3, <2>4 DEF OfNames
<1>8. CASE deep > 0
  <2>1. path # <<>> /\ Len(Separator) = 1 /\ new = Len(path) + 2
    BY <1>0, <1>8 DEF Resolution, DepthAgrees
  <2>2. Len(path) <= MaxPath - 2
    BY <1>0, <2>1 DEF Room
  <2>3. Front1(path, s)
    <3>1. Len(path) < Len(s)
      BY <1>0, <1>3, <2>1
    <3> QED
      BY <1>3, <1>8, <3>1 DEF Front1
  <2>4. ASSUME NEW j \in Begins(s), j <= Len(path) + 1 PROVE j \in Names(s)
    <3>1. j \in 1..Len(path) + 1
      BY <1>0, <2>4 DEF Begins
    <3>2. j \in Begins(path)
      BY <1>0, <2>3, <2>4, <3>1, FrontComponents
    <3>3. ~CutShort(path, j)
      BY <1>0, <2>2 DEF CutShort
    <3>4. j \in Names(path)
      BY <2>1, <3>2, <3>3 DEF OfNames
    <3> QED
      BY <1>0, <2>3, <3>1, <3>4, FrontComponents
  <2>5. ASSUME NEW j \in Begins(s), j > Len(path) + 1
        PROVE  j = new
    <3>1. j \in 2..Len(s) + 1 /\ s[j - 1] = "/"
      BY <1>0, <1>4, <2>5 DEF Begins
    <3>2. ~(j > new)
      <4> SUFFICES ASSUME j > new PROVE FALSE
        OBVIOUS
      <4> HIDE DEF new
      <4>1. j - 1 \in new..Len(s)
        BY <1>4, <3>1
      <4> QED
        BY <1>5, <3>1, <4>1
    <3> QED
      BY <1>0, <2>1, <2>5, <3>1, <3>2
  <2>6. ASSUME new \in Begins(s) PROVE new \in Names(s) \/ CutShort(s, new)
    <3>1. CASE n = Len(buf)
      BY <1>6, <2>6, <3>1
    <3>2. CASE Len(s) = MaxPath - 1
      <4>1. new > 1
        BY <1>0, <2>1
      <4> HIDE DEF new
      <4> QED
        BY <1>5, <3>2, <4>1 DEF CutShort
    <3> QED
      BY <1>4, <3>1, <3>2
  <2> HIDE DEF new
  <2>7. ASSUME NEW j \in Begins(s) PROVE j \in Names(s) \/ CutShort(s, j)
    <3>1. CASE j <= Len(path) + 1
      BY <2>4, <3>1
    <3>2. CASE j > Len(path) + 1
      BY <2>5, <2>6, <3>2
    <3> QED
      BY <1>0, <1>4, <3>1, <3>2 DEF Begins
  <2> QED
    BY <1>3, <2>7 DEF OfNames
<1> QED
  BY <1>0, <1>7, <1>8

(* and when it is cut before its last part. *)
LEMMA NamesCut ==
  ASSUME Resolution, OfNames(path), NEW k \in 0..Len(path) - 1, CutAt(k),
         path' = SubSeq(path, 1, k)
  PROVE  OfNames(path')
<1>0. path \in Seq(Chars) /\ Len(path) \in Nat
  BY DEF Resolution, TypeOK
<1>1. /\ path' \in Seq(Chars) /\ Len(path') = k
      /\ \A l \in 1..k : path'[l] = path[l]
  <2>1. \A l \in 1..k : path[l] \in Chars
    BY <1>0
  <2> QED BY <2>1, SubSeqProperties
<1>2. PICK s \in Seq(Chars) : s = path'
  BY <1>1
<1>3. CASE k = 0
  <2>1. s = <<>>
    BY <1>1, <1>2, <1>3, EmptySeq
  <2> QED
    BY <1>2, <2>1 DEF OfNames
<1>4. CASE k > 0
  <2>1. path # <<>> /\ path[k + 1] = "/" /\ Len(s) = k
    BY <1>0, <1>1, <1>2, <1>4 DEF CutAt
  <2>2. Front1(s, path)
    BY <1>0, <1>1, <1>2, <2>1 DEF Front1
  <2>3. ASSUME NEW j \in Begins(s) PROVE j \in Names(s)
    <3>1. j \in 1..Len(s) + 1
      BY DEF Begins
    <3>2. j \in Begins(path)
      BY <1>0, <2>2, <3>1, FrontComponents
    <3>3. ~CutShort(path, j)
      <4>1. k + 1 \in j..Len(path)
        BY <1>0, <2>1, <3>1
      <4> QED
        BY <2>1, <4>1 DEF CutShort
    <3>4. j \in Names(path)
      BY <2>1, <3>2, <3>3 DEF OfNames
    <3> QED
      BY <1>0, <2>2, <3>1, <3>4, FrontComponents
  <2> QED
    BY <1>2, <2>3 DEF OfNames
<1> QED
  BY <1>3, <1>4

SpelledNames == Resolution /\ Spelled /\ OfNames(path)

(* The automaton counts dots; what it takes for a name is none of the two  *)
(* special components, even where the buffer still held a dot.             *)
LEMMA SpelledKept ==
  ASSUME Resolution, Spelled, KeepChar
  PROVE  Spelled'
<1>0. /\ buf \in Seq(Chars) /\ Len(buf) \in Nat /\ state \in 1..4 /\ file[pos] \in Chars
  BY DEF Resolution, TypeOK, KeepChar, AtName
<1>1. /\ buf' \in Seq(Chars) /\ Len(buf') = Len(buf) + 1
      /\ \A k \in 1..Len(buf) : buf'[k] = buf[k]
      /\ buf'[Len(buf) + 1] = file[pos]
  BY <1>0 DEF KeepChar
<1>2. file[pos] # "/" /\ state' = To(state, file[pos]) /\ phase' = "scan"
  BY DEF KeepChar, AtName
<1>3. state' = 2 => Len(buf') >= 1
  BY <1>0, <1>1
<1>4. state' = 3 => Len(buf') >= 2
  BY <1>0, <1>1, <1>2 DEF To, Spelled
<1>5. ASSUME state' = 4 PROVE Proper(buf')
  <2>1. CASE file[pos] # "."
    <3>1. Len(buf) + 1 \in 1..Len(buf')
      BY <1>0, <1>1
    <3> QED
      BY <1>1, <2>1, <3>1 DEF Proper
  <2>2. CASE file[pos] = "." /\ state = 3
    BY <1>0, <1>1, <2>2 DEF Spelled, Proper
  <2>3. CASE file[pos] = "." /\ state = 4
    <3>1. Proper(buf)
      BY <2>3 DEF Spelled
    <3>2. \A k \in 1..Len(buf) : k \in 1..Len(buf')
      BY <1>0, <1>1
    <3> QED
      BY <1>0, <1>1, <3>1, <3>2 DEF Proper
  <2>4. file[pos] = "." => state \in {3, 4}
    BY <1>0, <1>2, <1>5 DEF To
  <2> QED
    BY <2>1, <2>2, <2>3, <2>4
<1> QED
  BY <1>2, <1>3, <1>4, <1>5 DEF Spelled

LEMMA SpelledNamesInit == Init => SpelledNames
<1> SUFFICES ASSUME Init PROVE SpelledNames
  OBVIOUS
<1>1. Resolution
  BY ResolutionInit
<1> QED
  BY <1>1 DEF Init, SpelledNames, Spelled, OfNames

LEMMA SpelledNamesStep == SpelledNames /\ [Next]_vars => SpelledNames'
<1> SUFFICES ASSUME SpelledNames, [Next]_vars PROVE Spelled' /\ OfNames(path')
  BY ResolutionStep DEF SpelledNames
<1>0. Resolution /\ Spelled /\ OfNames(path) /\ state \in 1..4
  BY DEF SpelledNames, Resolution, TypeOK
<1>1. CASE Return
  BY <1>0, <1>1 DEF Return, EndsComponent, Spelled
<1>2. CASE SkipChar
  BY <1>0, <1>2 DEF SkipChar, Spelled
<1>3. CASE KeepChar
  <2>1. Spelled'
    BY <1>0, <1>3, SpelledKept
  <2> QED
    BY <1>0, <1>3, <2>1 DEF KeepChar
<1>4. CASE TooLong
  BY <1>0, <1>4 DEF TooLong, Spelled
<1>5. CASE Finish
  BY <1>0, <1>5 DEF Finish, Spelled
<1>6. CASE AppendComponent
  <2>1. OfNames(path')
    BY <1>0, <1>6, NamesAppended DEF AppendComponent
  <2> QED
    BY <1>6, <2>1 DEF AppendComponent, Rescan, Spelled
<1>7. CASE LeftWraps
  BY <1>0, <1>7 DEF LeftWraps, Spelled
<1>8. CASE CutComponent
  <2>1. PICK k \in 0..Len(path) - 1 : CutAt(k) /\ path' = SubSeq(path, 1, k)
    BY <1>8 DEF CutComponent
  <2>2. OfNames(path')
    BY <1>0, <2>1, NamesCut
  <2> QED
    BY <1>8, <2>2 DEF CutComponent, Rescan, Spelled
<1>9. CASE StayAtRoot
  BY <1>0, <1>9 DEF StayAtRoot, Rescan, Spelled
<1>10. CASE UNCHANGED vars
  BY <1>0, <1>10 DEF vars, Spelled
<1> QED
  BY <1>1, <1>2, <1>3, <1>4, <1>5, <1>6, <1>7, <1>8, <1>9, <1>10 DEF Next

LEMMA SpelledNamesAlways == Spec => []SpelledNames
BY SpelledNamesInit, SpelledNamesStep, PTL DEF Spec

(* No request leads above the root of a handler, whatever its length: what *)
(* is resolved so far consists of names, and the rest of a name that was   *)
(* cut short where the buffer ended comes last.                            *)
THEOREM StaysBelowRootHolds == Spec => []StaysBelowRoot
<1>1. SpelledNames => StaysBelowRoot
  <2> SUFFICES ASSUME SpelledNames PROVE StaysBelowRoot
    OBVIOUS
  <2>1. path \in Seq(Chars) /\ OfNames(path)
    BY DEF SpelledNames, Resolution, TypeOK
  <2>2. Tame(path, 0)
    BY <2>1, OfNamesTame
  <2> QED
    BY <2>1, <2>2, TameDescends DEF StaysBelowRoot
<1> QED
  BY <1>1, SpelledNamesAlways, PTL

-----------------------------------------------------------------------------
(* The full path of a program. *)

(* A path has the same components behind a slash as what follows it. *)
Behind1(p, s, m) == /\ m \in 1..Len(s) /\ Len(s) = m + Len(p) /\ s[m] = "/"
                    /\ \A k \in 1..Len(p) : s[m + k] = p[k]

LEMMA BehindComponents ==
  ASSUME NEW p \in Seq(Chars), NEW s \in Seq(Chars), NEW m \in Nat, Behind1(p, s, m),
         NEW j \in 1..Len(p) + 1
  PROVE  /\ m + j \in Begins(s) <=> j \in Begins(p)
         /\ m + j \in Names(s) <=> j \in Names(p)
         /\ m + j \in Ups(s) <=> j \in Ups(p)
<1>0. /\ Len(p) \in Nat /\ Len(s) \in Nat /\ m \in Nat \ {0} /\ j \in Nat \ {0}
      /\ Len(s) = m + Len(p) /\ s[m] = "/" /\ \A k \in 1..Len(p) : s[m + k] = p[k]
      /\ m + j \in 1..Len(s) + 1 /\ j <= Len(p) + 1
  BY DEF Behind1
<1>1. m + j \in Begins(s) <=> j \in Begins(p)
  <2>1. CASE j = 1
    BY <1>0, <2>1 DEF Begins
  <2>2. CASE j > 1
    <3>1. j - 1 \in 1..Len(p) /\ m + j - 1 = m + (j - 1)
      BY <1>0, <2>2
    <3>2. s[m + j - 1] = p[j - 1]
      BY <1>0, <3>1
    <3> QED
      BY <1>0, <2>2, <3>2 DEF Begins
  <2> QED
    BY <1>0, <2>1, <2>2
<1>2. /\ HasAt(p, j, <<>>) <=> j = Len(p) + 1 \/ p[j] = "/"
      /\ HasAt(p, j, Dot) <=> j <= Len(p) /\ p[j] = "." /\ (j = Len(p) \/ p[j + 1] = "/")
      /\ HasAt(p, j, Up) <=> j < Len(p) /\ p[j] = "." /\ p[j + 1] = "."
                               /\ (j + 1 = Len(p) \/ p[j + 2] = "/")
  BY <1>0, Has
<1> DEFINE i == m + j
<1>3. /\ HasAt(s, i, <<>>) <=> i = Len(s) + 1 \/ s[i] = "/"
      /\ HasAt(s, i, Dot) <=> i <= Len(s) /\ s[i] = "." /\ (i = Len(s) \/ s[i + 1] = "/")
      /\ HasAt(s, i, Up) <=> i < Len(s) /\ s[i] = "." /\ s[i + 1] = "."
                               /\ (i + 1 = Len(s) \/ s[i + 2] = "/")
  <2>1. i \in 1..Len(s) + 1
    BY <1>0
  <2> HIDE DEF i
  <2> QED
    BY <1>0, <2>1, Has
<1>4. /\ i = Len(s) + 1 <=> j = Len(p) + 1
      /\ i <= Len(s) <=> j <= Len(p)
      /\ i = Len(s) <=> j = Len(p)
      /\ i < Len(s) <=> j < Len(p)
      /\ i + 1 = Len(s) <=> j + 1 = Len(p)
  <2>1. PICK a \in Nat : a = Len(p)
    BY <1>0
  <2>2. Len(s) = m + a /\ m \in Nat /\ j \in Nat /\ a \in Nat
    BY <1>0, <2>1
  <2>3. \A x \in Nat, y \in Nat, z \in Nat :
          /\ z + x = z + y <=> x = y
          /\ z + x <= z + y <=> x <= y
          /\ z + x < z + y <=> x < y
          /\ z + x + 1 = z + y <=> x + 1 = y
          /\ z + x = z + y + 1 <=> x = y + 1
    OBVIOUS
  <2> QED
    BY <2>1, <2>2, <2>3
<1>5. /\ j <= Len(p) => s[i] = p[j]
      /\ j < Len(p) => s[i + 1] = p[j + 1]
      /\ j + 1 < Len(p) => s[i + 2] = p[j + 2]
  <2>1. ASSUME j <= Len(p) PROVE s[i] = p[j]
    BY <1>0, <2>1
  <2>2. ASSUME j < Len(p) PROVE s[i + 1] = p[j + 1]
    <3>1. j + 1 \in 1..Len(p) /\ i + 1 = m + (j + 1)
      BY <1>0, <2>2
    <3> QED
      BY <1>0, <3>1
  <2>3. ASSUME j + 1 < Len(p) PROVE s[i + 2] = p[j + 2]
    <3>1. j + 2 \in 1..Len(p) /\ i + 2 = m + (j + 2)
      BY <1>0, <2>3
    <3> QED
      BY <1>0, <3>1
  <2> QED
    BY <2>1, <2>2, <2>3
<1> HIDE DEF i
<1>6. HasAt(s, i, <<>>) <=> HasAt(p, j, <<>>)
  BY <1>0, <1>2, <1>3, <1>4, <1>5
<1>7. HasAt(s, i, Dot) <=> HasAt(p, j, Dot)
  <2>1. CASE j < Len(p)
    <3>1. j <= Len(p) /\ j # Len(p)
      BY <1>0, <2>1
    <3>2. i <= Len(s) /\ i # Len(s)
      BY <1>4, <3>1
    <3>3. s[i] = p[j] /\ s[i + 1] = p[j + 1]
      BY <1>5, <2>1, <3>1
    <3> QED
      BY <1>2, <1>3, <3>1, <3>2, <3>3
  <2>2. CASE j = Len(p)
    <3>1. j <= Len(p)
      BY <1>0, <2>2
    <3>2. i <= Len(s) /\ i = Len(s) /\ s[i] = p[j]
      BY <1>4, <1>5, <2>2, <3>1
    <3> QED
      BY <1>2, <1>3, <2>2, <3>1, <3>2
  <2>3. CASE j > Len(p)
    <3>1. ~(j <= Len(p))
      BY <1>0, <2>3
    <3>2. ~(i <= Len(s))
      BY <1>4, <3>1
    <3> QED
      BY <1>2, <1>3, <3>1, <3>2
  <2> QED
    BY <1>0, <2>1, <2>2, <2>3
<1>8. HasAt(s, i, Up) <=> HasAt(p, j, Up)
  <2>1. CASE j + 1 < Len(p)
    <3>1. j < Len(p) /\ j <= Len(p) /\ j + 1 # Len(p)
      BY <1>0, <2>1
    <3>2. i < Len(s) /\ i + 1 # Len(s)
      BY <1>4, <3>1
    <3>3. s[i] = p[j] /\ s[i + 1] = p[j + 1] /\ s[i + 2] = p[j + 2]
      BY <1>5, <2>1, <3>1
    <3> QED
      BY <1>2, <1>3, <3>1, <3>2, <3>3
  <2>2. CASE j + 1 = Len(p)
    <3>1. j < Len(p) /\ j <= Len(p)
      BY <1>0, <2>2
    <3>2. i < Len(s) /\ i + 1 = Len(s)
      BY <1>4, <2>2, <3>1
    <3>3. s[i] = p[j] /\ s[i + 1] = p[j + 1]
      BY <1>5, <3>1
    <3> QED
      BY <1>2, <1>3, <2>2, <3>1, <3>2, <3>3
  <2>3. CASE j >= Len(p)
    <3>1. ~(j < Len(p))
      BY <1>0, <2>3
    <3>2. ~(i < Len(s))
      BY <1>4, <3>1
    <3> QED
      BY <1>2, <1>3, <3>1, <3>2
  <2> QED
    BY <1>0, <2>1, <2>2, <2>3
<1> QED
  BY <1>1, <1>6, <1>7, <1>8 DEF Names, Ups, Skips, i

(* What leads nowhere above its beginning does not either behind a root. *)
LEMMA BehindTame ==
  ASSUME NEW p \in Seq(Chars), NEW s \in Seq(Chars), NEW m \in Nat, Behind1(p, s, m),
         Tame(p, 0)
  PROVE  Tame(s, m)
<1>0. /\ Len(p) \in Nat /\ Len(s) = m + Len(p)
      /\ \A k \in 1..Len(p) : s[m + k] = p[k]
  BY DEF Behind1
<1> SUFFICES ASSUME NEW j \in Ups(s), m < j
             PROVE  m + 1 \in Names(s) /\ m + 1 < j /\ \A l \in j..Len(s) : s[l] # "/"
  BY DEF Tame
<1>1. j \in 1..Len(s) + 1
  BY DEF Ups, Begins
<1>2. PICK i \in 1..Len(p) + 1 : j = m + i
  <2>1. j - m \in 1..Len(p) + 1 /\ j = m + (j - m)
    BY <1>0, <1>1
  <2> QED
    BY <2>1
<1>3. i \in Ups(p)
  BY <1>2, BehindComponents
<1>4. 1 \in Names(p) /\ 1 < i /\ \A l \in i..Len(p) : p[l] # "/"
  BY <1>2, <1>3 DEF Tame
<1>5. m + 1 \in Names(s)
  BY <1>0, <1>4, BehindComponents
<1>6. ASSUME NEW l \in j..Len(s) PROVE s[l] # "/"
  <2>1. l - m \in i..Len(p) /\ l - m \in 1..Len(p) /\ l = m + (l - m)
    BY <1>0, <1>2
  <2> QED
    BY <1>0, <1>4, <2>1
<1> QED
  BY <1>2, <1>4, <1>5, <1>6

(* All slashes at the end of a root are taken off. *)
LEMMA TrimmedRoot ==
  ASSUME NEW root \in Seq(Chars)
  PROVE  /\ Trimmed(root) \in Seq(Chars) /\ Len(Trimmed(root)) \in 0..Len(root)
         /\ \A k \in 1..Len(Trimmed(root)) : Trimmed(root)[k] = root[k]
         /\ \A k \in Len(Trimmed(root)) + 1..Len(root) : root[k] = "/"
         /\ Trimmed(root) # <<>> => Trimmed(root)[Len(Trimmed(root))] # "/"
<1> DEFINE S == {0} \cup {k \in 1..Len(root) : root[k] # "/"}
<1>1. Len(root) \in Nat /\ S \in SUBSET (0..Len(root)) /\ S # {}
  OBVIOUS
<1>2. PICK m \in S : \A y \in S : y <= m
  <2> HIDE DEF S
  <2> QED
    BY <1>1, LargestOf
<1>3. m \in 0..Len(root) /\ \A y \in S : y \in Nat
  BY <1>1
<1>4. Max(S) = m
  <2> HIDE DEF S
  <2>1. \A x \in S : (\A y \in S : x >= y) => x = m
    BY <1>2, <1>3
  <2>2. \A y \in S : m >= y
    BY <1>2, <1>3
  <2> QED
    BY <1>2, <2>1, <2>2 DEF Max
<1>5. Trimmed(root) = SubSeq(root, 1, m)
  BY <1>4 DEF Trimmed
<1>6. /\ SubSeq(root, 1, m) \in Seq(Chars) /\ Len(SubSeq(root, 1, m)) = m
      /\ \A k \in 1..m : SubSeq(root, 1, m)[k] = root[k]
  <2>1. \A k \in 1..m : root[k] \in Chars
    BY <1>3
  <2> QED
    BY <1>3, <2>1, SubSeqProperties
<1>7. \A k \in m + 1..Len(root) : root[k] = "/"
  BY <1>2, <1>3
<1>8. m > 0 => root[m] # "/"
  BY <1>2
<1> HIDE DEF S
<1>9. SubSeq(root, 1, m) # <<>> => m > 0
  BY <1>3, <1>6, EmptySeq
<1> QED
  BY <1>3, <1>5, <1>6, <1>7, <1>8, <1>9

LEMMA FullPathChars ==
  ASSUME NEW root \in Seq(Chars), path \in Seq(Chars)
  PROVE  LET t == Trimmed(root) IN
         /\ FullPath(root) \in Seq(Chars) /\ Len(FullPath(root)) = Len(t) + 1 + Len(path)
         /\ \A k \in 1..Len(t) : FullPath(root)[k] = t[k]
         /\ FullPath(root)[Len(t) + 1] = "/"
         /\ \A k \in 1..Len(path) : FullPath(root)[Len(t) + 1 + k] = path[k]
<1>1. PICK t \in Seq(Chars) : t = Trimmed(root)
  BY TrimmedRoot
<1>2. PICK c \in Seq(Chars) : c = <<"/">> /\ Len(c) = 1 /\ c[1] = "/"
  <2>1. <<"/">> \in Seq(Chars) /\ Len(<<"/">>) = 1 /\ <<"/">>[1] = "/"
    BY PathAssumption
  <2> QED
    BY <2>1
<1>3. PICK b \in Seq(Chars) :
        /\ b = t \o c /\ Len(b) = Len(t) + 1 /\ b[Len(t) + 1] = "/"
        /\ \A k \in 1..Len(t) : b[k] = t[k]
  <2>1. /\ t \o c \in Seq(Chars) /\ Len(t \o c) = Len(t) + Len(c)
        /\ \A k \in 1..Len(t) : (t \o c)[k] = t[k]
        /\ \A k \in 1..Len(c) : (t \o c)[Len(t) + k] = c[k]
    BY Glue
  <2>2. 1 \in 1..Len(c)
    BY <1>2
  <2> QED
    BY <1>2, <2>1, <2>2
<1>4. FullPath(root) = b \o path
  BY <1>1, <1>2, <1>3 DEF FullPath
<1>5. /\ b \o path \in Seq(Chars) /\ Len(b \o path) = Len(b) + Len(path)
      /\ \A k \in 1..Len(b) : (b \o path)[k] = b[k]
      /\ \A k \in 1..Len(path) : (b \o path)[Len(b) + k] = path[k]
  BY Glue
<1>6. PICK f : f = b \o path
  OBVIOUS
<1>7. Len(t) \in Nat /\ Len(path) \in Nat
  OBVIOUS
<1> QED
  BY <1>1, <1>3, <1>4, <1>5, <1>6, <1>7

(* The program that a request reaches lies below the root of its handler,  *)
(* for every root and request: the root but for slashes at its end, one    *)
(* slash, and components that never lead above the joint.                  *)
THEOREM JoinsBelowRootHolds == Spec => []JoinsBelowRoot
<1>1. SpelledNames => JoinsBelowRoot
  <2> SUFFICES ASSUME SpelledNames, NEW root \in Roots
               PROVE  LET joint == Len(FullPath(root)) - Len(path)
                      IN /\ \A k \in 1..Len(root) :
                              IF k < joint THEN FullPath(root)[k] = root[k]
                                           ELSE root[k] = "/"
                         /\ joint = 1 \/ FullPath(root)[joint - 1] # "/"
                         /\ path # <<>> => FullPath(root)[joint + 1] # "/"
                         /\ DescendsFrom(FullPath(root), joint)
                         /\ Len(FullPath(root)) < Allocated(root)
    BY DEF JoinsBelowRoot
  <2>1. path \in Seq(Chars) /\ Len(path) \in Nat /\ OfNames(path) /\ Relative
    BY DEF SpelledNames, Resolution, TypeOK
  <2>2. root \in Seq(Chars) /\ Len(root) \in Nat
    BY RootAssumption
  <2>3. PICK t \in Seq(Chars) :
          /\ t = Trimmed(root) /\ Len(t) \in 0..Len(root)
          /\ \A k \in 1..Len(t) : t[k] = root[k]
          /\ \A k \in Len(t) + 1..Len(root) : root[k] = "/"
          /\ t # <<>> => t[Len(t)] # "/"
    BY <2>2, TrimmedRoot
  <2>4. PICK s \in Seq(Chars) :
          /\ s = FullPath(root) /\ Len(s) = Len(t) + 1 + Len(path)
          /\ \A k \in 1..Len(t) : s[k] = t[k]
          /\ s[Len(t) + 1] = "/"
          /\ \A k \in 1..Len(path) : s[Len(t) + 1 + k] = path[k]
    BY <2>1, <2>2, <2>3, FullPathChars
  <2>5. PICK m \in Nat : m = Len(t) + 1
    BY <2>3
  <2>6. Len(s) - Len(path) = m /\ m - 1 = Len(t) /\ Len(s) = m + Len(path)
    BY <2>1, <2>3, <2>4, <2>5
  <2>7. ASSUME NEW k \in 1..Len(root) PROVE IF k < m THEN s[k] = root[k] ELSE root[k] = "/"
    <3>1. CASE k <= Len(t)
      BY <2>3, <2>4, <2>5, <3>1
    <3>2. CASE k > Len(t)
      BY <2>2, <2>3, <2>5, <3>2
    <3> QED
      BY <2>3, <3>1, <3>2
  <2>8. m = 1 \/ s[m - 1] # "/"
    <3>1. CASE t = <<>>
      BY <2>5, <3>1
    <3>2. CASE t # <<>>
      <4>1. Len(t) \in 1..Len(t)
        BY <2>3, <3>2, EmptySeq
      <4> QED
        BY <2>3, <2>4, <2>6, <3>2, <4>1
    <3> QED
      BY <3>1, <3>2
  <2>9. path # <<>> => s[m + 1] # "/"
    <3> SUFFICES ASSUME path # <<>> PROVE s[m + 1] # "/"
      OBVIOUS
    <3>1. 1 \in 1..Len(path)
      BY <2>1, EmptySeq
    <3> QED
      BY <2>1, <2>4, <2>5, <3>1 DEF Relative
  <2>10. DescendsFrom(s, m)
    <3>1. Behind1(path, s, m)
      BY <2>1, <2>3, <2>4, <2>5, <2>6 DEF Behind1
    <3>2. Tame(path, 0)
      BY <2>1, OfNamesTame
    <3>3. Tame(s, m)
      BY <2>1, <3>1, <3>2, BehindTame
    <3> QED
      BY <3>3, TameDescends
  <2>11. Len(s) < Allocated(root)
    BY <2>1, <2>2, <2>3, <2>4 DEF Allocated
  <2> QED
    BY <2>4, <2>6, <2>7, <2>8, <2>9, <2>10, <2>11
<1> QED
  BY <1>1, SpelledNamesAlways, PTL

-----------------------------------------------------------------------------
(* What the reference computes, one character and one name after another.  *)
Texts == Seq(Chars)
Readings == [names : Seq(Texts), name : Texts]

LEMMA EnterType ==
  ASSUME NEW names \in Seq(Texts), NEW name \in Texts
  PROVE  Enter(names, name) \in Seq(Texts)
<1>1. names # <<>> => Front(names) \in Seq(Texts)
  <2> SUFFICES ASSUME names # <<>> PROVE Front(names) \in Seq(Texts)
    OBVIOUS
  <2>1. Len(names) - 1 \in Nat /\ \A k \in 1..Len(names) - 1 : names[k] \in Texts
    BY EmptySeq
  <2> QED
    BY <2>1, SubSeqProperties DEF Front
<1>2. Append(names, name) \in Seq(Texts)
  OBVIOUS
<1> QED
  BY <1>1, <1>2 DEF Enter

LEMMA ReadType ==
  ASSUME NEW c \in Readings, NEW ch \in Chars
  PROVE  Read(c, ch) \in Readings
<1>1. c.names \in Seq(Texts) /\ c.name \in Texts
  BY DEF Readings
<1>2. Enter(c.names, c.name) \in Seq(Texts) /\ <<>> \in Texts
  BY <1>1, EnterType DEF Texts
<1>3. Append(c.name, ch) \in Texts
  BY <1>1 DEF Texts
<1> QED
  BY <1>1, <1>2, <1>3 DEF Read, Readings

LEMMA NothingType == Nothing \in Readings
<1>1. <<>> \in Seq(Texts) /\ <<>> \in Texts
  BY DEF Texts
<1> QED
  BY <1>1 DEF Nothing, Readings

LEMMA ReadsEquation ==
  ASSUME NEW s \in Seq(Chars)
  PROVE  /\ Reads(s) \in [0..Len(s) -> Readings] /\ Reads(s)[0] = Nothing
         /\ \A n \in 1..Len(s) : Reads(s)[n] = Read(Reads(s)[n - 1], s[n])
<1> DEFINE L == Len(s)
           op == [x \in Readings \X (1..L) |-> Read(x[1], s[x[2]])]
           Unfolds(v) == v = [n \in 0..L |-> IF n = 0 THEN Nothing ELSE Read(v[n - 1], s[n])]
           w == CHOOSE v : Unfolds(v)
<1>0. L \in Nat /\ \A n \in 1..L : s[n] \in Chars
  OBVIOUS
<1>1. OperatesOn(op, Readings, L)
  BY <1>0, ReadType DEF OperatesOn
<1>2. PICK g : Iterated(g, Nothing, op, Readings, L)
  <2> HIDE DEF op, L
  <2> QED
    BY <1>0, <1>1, NothingType, Iterates
<1>3. /\ g \in [0..L -> Readings] /\ g[0] = Nothing
      /\ \A n \in 1..L : g[n] = Read(g[n - 1], s[n])
  <2>1. /\ g \in [0..L -> Readings] /\ g[0] = Nothing
        /\ \A n \in 1..L : g[n] = op[<<g[n - 1], n>>]
    BY <1>2 DEF Iterated
  <2>2. ASSUME NEW n \in 1..L PROVE op[<<g[n - 1], n>>] = Read(g[n - 1], s[n])
    <3>1. <<g[n - 1], n>> \in Readings \X (1..L)
      BY <2>1
    <3> QED
      BY <3>1
  <2> HIDE DEF op, L
  <2> QED
    BY <2>1, <2>2
<1>4. Unfolds(g)
  <2>1. \A n \in 0..L : n = 0 \/ n \in 1..L
    BY <1>0
  <2> HIDE DEF L
  <2> QED
    BY <1>3, <2>1
<1>5. Unfolds(w)
  <2> HIDE DEF Unfolds
  <2> QED
    BY <1>4
<1>6. Reads(s) = w
  BY DEF Reads
<1> HIDE DEF w
<1>7. /\ w = [n \in 0..L |-> IF n = 0 THEN Nothing ELSE Read(w[n - 1], s[n])]
      /\ \A n \in 0..L : w[n] = IF n = 0 THEN Nothing ELSE Read(w[n - 1], s[n])
  <2> HIDE DEF L
  <2> QED
    BY <1>5
<1>8. w[0] = Nothing /\ \A n \in 1..L : w[n] = Read(w[n - 1], s[n])
  <2>1. 0 \in 0..L /\ \A n \in 1..L : n \in 0..L /\ n # 0
    BY <1>0
  <2> HIDE DEF L
  <2> QED
    BY <1>7, <2>1
<1>9. \A n \in 0..L : w[n] = g[n]
  <2> HIDE DEF L, op
  <2>1. \A n \in 1..L : w[n - 1] = g[n - 1] => w[n] = g[n]
    BY <1>3, <1>8
  <2>2. w[0] = g[0]
    BY <1>3, <1>8
  <2>3. GoAlike(w, g, L)
    BY <2>1, <2>2 DEF GoAlike
  <2> QED
    BY <1>0, <2>3, Alike
<1>10. w \in [0..L -> Readings]
  <2>1. w = [n \in 0..L |-> w[n]]
    <3> HIDE DEF L
    <3> QED
      BY <1>7
  <2> HIDE DEF L
  <2> QED
    BY <1>3, <1>9, <2>1
<1> QED
  BY <1>6, <1>8, <1>10

LEMMA WithType ==
  ASSUME NEW p \in Texts, NEW name \in Texts
  PROVE  With(p, name) \in Texts
<1>1. <<"/">> \in Seq(Chars)
  BY PathAssumption
<1>2. p \o <<"/">> \in Seq(Chars)
  BY <1>1, ConcatProperties DEF Texts
<1>3. p \o <<"/">> \o name \in Seq(Chars)
  BY <1>2, ConcatProperties DEF Texts
<1> QED
  BY <1>3 DEF With, Texts

LEMMA JoinEquation ==
  ASSUME NEW names \in Seq(Texts)
  PROVE  \E t \in [0..Len(names) -> Texts] :
           /\ t[0] = <<>> /\ \A n \in 1..Len(names) : t[n] = With(t[n - 1], names[n])
           /\ Join(names) = t[Len(names)]
<1> DEFINE L == Len(names)
           op == [x \in Texts \X (1..L) |-> With(x[1], names[x[2]])]
           Unfolds(v) == v = [n \in 0..L |-> IF n = 0 THEN <<>> ELSE With(v[n - 1], names[n])]
           w == CHOOSE v : Unfolds(v)
<1>0. L \in Nat /\ \A n \in 1..L : names[n] \in Texts
  OBVIOUS
<1>1. OperatesOn(op, Texts, L)
  BY <1>0, WithType DEF OperatesOn
<1>2. PICK g : Iterated(g, <<>>, op, Texts, L)
  <2>1. <<>> \in Texts
    BY DEF Texts
  <2> HIDE DEF op, L
  <2> QED
    BY <1>0, <1>1, <2>1, Iterates
<1>3. /\ g \in [0..L -> Texts] /\ g[0] = <<>>
      /\ \A n \in 1..L : g[n] = With(g[n - 1], names[n])
  <2>1. /\ g \in [0..L -> Texts] /\ g[0] = <<>>
        /\ \A n \in 1..L : g[n] = op[<<g[n - 1], n>>]
    BY <1>2 DEF Iterated
  <2>2. ASSUME NEW n \in 1..L PROVE op[<<g[n - 1], n>>] = With(g[n - 1], names[n])
    <3>1. <<g[n - 1], n>> \in Texts \X (1..L)
      BY <2>1
    <3> QED
      BY <3>1
  <2> HIDE DEF op, L
  <2> QED
    BY <2>1, <2>2
<1>4. Unfolds(g)
  <2>1. \A n \in 0..L : n = 0 \/ n \in 1..L
    BY <1>0
  <2> HIDE DEF L
  <2> QED
    BY <1>3, <2>1
<1>5. Unfolds(w)
  <2> HIDE DEF Unfolds
  <2> QED
    BY <1>4
<1>6. Join(names) = w[L]
  BY DEF Join
<1> HIDE DEF w
<1>7. /\ w = [n \in 0..L |-> IF n = 0 THEN <<>> ELSE With(w[n - 1], names[n])]
      /\ \A n \in 0..L : w[n] = IF n = 0 THEN <<>> ELSE With(w[n - 1], names[n])
  <2> HIDE DEF L
  <2> QED
    BY <1>5
<1>8. w[0] = <<>> /\ \A n \in 1..L : w[n] = With(w[n - 1], names[n])
  <2>1. 0 \in 0..L /\ \A n \in 1..L : n \in 0..L /\ n # 0
    BY <1>0
  <2> HIDE DEF L
  <2> QED
    BY <1>7, <2>1
<1>9. \A n \in 0..L : w[n] = g[n]
  <2> HIDE DEF L, op
  <2>1. \A n \in 1..L : w[n - 1] = g[n - 1] => w[n] = g[n]
    BY <1>3, <1>8
  <2>2. w[0] = g[0]
    BY <1>3, <1>8
  <2>3. GoAlike(w, g, L)
    BY <2>1, <2>2 DEF GoAlike
  <2> QED
    BY <1>0, <2>3, Alike
<1>10. w \in [0..L -> Texts]
  <2>1. w = [n \in 0..L |-> w[n]]
    <3> HIDE DEF L
    <3> QED
      BY <1>7
  <2> HIDE DEF L
  <2> QED
    BY <1>3, <1>9, <2>1
<1> QED
  BY <1>6, <1>8, <1>10

LEMMA JoinOfNone == Join(<<>>) = <<>>
<1>1. <<>> \in Seq(Texts) /\ Len(<<>>) = 0
  OBVIOUS
<1> QED
  BY <1>1, JoinEquation

LEMMA JoinType ==
  ASSUME NEW names \in Seq(Texts)
  PROVE  Join(names) \in Texts
<1>1. PICK t \in [0..Len(names) -> Texts] : Join(names) = t[Len(names)]
  BY JoinEquation
<1>2. Len(names) \in 0..Len(names)
  OBVIOUS
<1> QED
  BY <1>1, <1>2

LEMMA JoinOfAppend ==
  ASSUME NEW names \in Seq(Texts), NEW name \in Texts
  PROVE  Join(Append(names, name)) = With(Join(names), name)
<1> DEFINE u == Append(names, name)
           L == Len(names)
<1>1. /\ u \in Seq(Texts) /\ Len(u) = L + 1 /\ L \in Nat
      /\ u[L + 1] = name /\ \A n \in 1..L : u[n] = names[n]
  OBVIOUS
<1> HIDE DEF u
<1>2. PICK v \in [0..L -> Texts] :
        /\ v[0] = <<>> /\ \A n \in 1..L : v[n] = With(v[n - 1], names[n])
        /\ Join(names) = v[L]
  BY JoinEquation
<1>3. PICK w \in [0..L + 1 -> Texts] :
        /\ w[0] = <<>> /\ \A n \in 1..L + 1 : w[n] = With(w[n - 1], u[n])
        /\ Join(u) = w[L + 1]
  BY <1>1, JoinEquation
<1>4. \A n \in 0..L : v[n] = w[n]
  <2>1. \A n \in 1..L : v[n - 1] = w[n - 1] => v[n] = w[n]
    BY <1>1, <1>2, <1>3
  <2>2. v[0] = w[0] /\ L \in Nat
    BY <1>2, <1>3
  <2>3. GoAlike(v, w, L)
    BY <2>1, <2>2 DEF GoAlike
  <2> QED
    BY <1>1, <2>3, Alike
<1>5. w[L + 1] = With(w[L], name)
  <2>1. L + 1 \in 1..L + 1 /\ (L + 1) - 1 = L
    BY <1>1
  <2> HIDE DEF L
  <2> QED
    BY <1>1, <1>3, <2>1
<1>6. w[L] = v[L]
  BY <1>1, <1>4
<1> QED
  BY <1>2, <1>3, <1>5, <1>6 DEF u

-----------------------------------------------------------------------------
(* The names so far have no slash, and the component so far ends after n   *)
(* characters.                                                             *)
NoSlash(t) == \A k \in 1..Len(t) : t[k] # "/"
Clean(names) == \A i \in 1..Len(names) : NoSlash(names[i])

Stands(s, n, c) ==
  /\ Clean(c.names) /\ NoSlash(c.name)
  /\ Len(c.name) <= n /\ n + 1 - Len(c.name) \in Begins(s)
  /\ \A k \in 1..Len(c.name) : c.name[k] = s[n - Len(c.name) + k]

LEMMA FrontOf ==
  ASSUME NEW names \in Seq(Texts), names # <<>>
  PROVE  /\ Front(names) \in Seq(Texts) /\ Len(Front(names)) = Len(names) - 1
         /\ Len(names) > 0 /\ Last(names) \in Texts
         /\ \A k \in 1..Len(names) - 1 : Front(names)[k] = names[k]
         /\ names = Append(Front(names), Last(names))
<1>1. Len(names) \in Nat \ {0} /\ \A k \in 1..Len(names) - 1 : names[k] \in Texts
  BY EmptySeq
<1>2. /\ Front(names) \in Seq(Texts) /\ Len(Front(names)) = Len(names) - 1
      /\ \A k \in 1..Len(names) - 1 : Front(names)[k] = names[k]
  <2>1. PICK m \in Nat : m = Len(names) - 1 /\ \A k \in 1..m : names[k] \in Texts
    BY <1>1
  <2>2. /\ SubSeq(names, 1, m) \in Seq(Texts) /\ Len(SubSeq(names, 1, m)) = m
        /\ \A k \in 1..m : SubSeq(names, 1, m)[k] = names[k]
    BY <2>1, SubSeqProperties
  <2> QED
    BY <2>1, <2>2 DEF Front
<1>3. Last(names) \in Texts /\ Last(names) = names[Len(names)]
  BY <1>1 DEF Last
<1>4. PICK f \in Seq(Texts) : f = Front(names)
  BY <1>2
<1>5. PICK l \in Texts : l = Last(names)
  BY <1>3
<1>6. names = Append(f, l)
  <2>1. /\ Append(f, l) \in Seq(Texts) /\ Len(Append(f, l)) = Len(names)
        /\ \A k \in 1..Len(names) - 1 : Append(f, l)[k] = names[k]
        /\ Append(f, l)[Len(names)] = names[Len(names)]
    BY <1>1, <1>2, <1>3, <1>4, <1>5
  <2>2. \A k \in 1..Len(names) : k \in 1..Len(names) - 1 \/ k = Len(names)
    BY <1>1
  <2>3. PICK a \in Seq(Texts) : a = Append(f, l)
    BY <2>1
  <2>4. Len(a) = Len(names) /\ \A k \in 1..Len(names) : a[k] = names[k]
    BY <2>1, <2>2, <2>3
  <2> QED
    BY <2>3, <2>4, SeqEqual
<1> QED
  BY <1>1, <1>2, <1>3, <1>4, <1>5, <1>6

LEMMA EnterClean ==
  ASSUME NEW names \in Seq(Texts), NEW name \in Texts, Clean(names), NoSlash(name)
  PROVE  Clean(Enter(names, name))
<1>1. names # <<>> => Clean(Front(names))
  <2> SUFFICES ASSUME names # <<>> PROVE Clean(Front(names))
    OBVIOUS
  <2>1. /\ Len(Front(names)) = Len(names) - 1 /\ Len(names) \in Nat
        /\ \A k \in 1..Len(names) - 1 : Front(names)[k] = names[k]
    BY FrontOf
  <2> QED
    BY <2>1 DEF Clean
<1>2. Clean(Append(names, name))
  <2>1. /\ Len(Append(names, name)) = Len(names) + 1 /\ Len(names) \in Nat
        /\ \A k \in 1..Len(names) : Append(names, name)[k] = names[k]
        /\ Append(names, name)[Len(names) + 1] = name
    OBVIOUS
  <2> QED
    BY <2>1 DEF Clean
<1> QED
  BY <1>1, <1>2 DEF Enter

LEMMA ReadStands ==
  ASSUME NEW s \in Seq(Chars), NEW n \in 0..Len(s) - 1, NEW c \in Readings, Stands(s, n, c)
  PROVE  Stands(s, n + 1, Read(c, s[n + 1]))
<1>0. /\ c.names \in Seq(Texts) /\ c.name \in Texts /\ Len(c.name) \in Nat
      /\ Len(s) \in Nat /\ n \in Nat /\ n + 1 \in 1..Len(s) /\ s[n + 1] \in Chars
  BY DEF Readings, Texts
<1>1. CASE s[n + 1] = "/"
  <2>1. PICK d \in Readings : d = Read(c, s[n + 1])
    BY <1>0, ReadType
  <2>2. d.names = Enter(c.names, c.name) /\ d.name = <<>> /\ Len(d.name) = 0
    BY <1>1, <2>1 DEF Read
  <2>3. Clean(d.names)
    BY <1>0, <2>2, EnterClean DEF Stands
  <2>4. n + 1 + 1 - 0 \in Begins(s)
    BY <1>0, <1>1 DEF Begins
  <2>5. NoSlash(d.name) /\ \A k \in 1..Len(d.name) : d.name[k] = s[n + 1 - Len(d.name) + k]
    BY <2>2 DEF NoSlash
  <2> QED
    BY <1>0, <2>1, <2>2, <2>3, <2>4, <2>5 DEF Stands
<1>2. CASE s[n + 1] # "/"
  <2>1. PICK d \in Readings : d = Read(c, s[n + 1])
    BY <1>0, ReadType
  <2>2. d.names = c.names /\ d.name = Append(c.name, s[n + 1])
    BY <1>2, <2>1 DEF Read
  <2>3. PICK m \in Nat : m = Len(c.name)
    BY <1>0
  <2>4. /\ Len(d.name) = m + 1 /\ d.name[m + 1] = s[n + 1]
        /\ \A k \in 1..m : d.name[k] = c.name[k]
    BY <1>0, <2>2, <2>3 DEF Texts
  <2>5. /\ m <= n /\ n + 1 - m \in Begins(s) /\ NoSlash(c.name)
        /\ \A k \in 1..m : c.name[k] = s[n - m + k]
    BY <2>3 DEF Stands
  <2>6. NoSlash(d.name)
    <3> SUFFICES ASSUME NEW k \in 1..m + 1 PROVE d.name[k] # "/"
      BY <2>4 DEF NoSlash
    <3>1. CASE k = m + 1
      BY <1>2, <2>4, <3>1
    <3>2. CASE k # m + 1
      <4>1. k \in 1..m /\ k \in 1..Len(c.name)
        BY <2>3, <3>2
      <4> QED
        BY <2>4, <2>5, <4>1 DEF NoSlash
    <3> QED
      BY <3>1, <3>2
  <2>7. n + 1 + 1 - (m + 1) = n + 1 - m /\ n + 1 - (m + 1) = n - m /\ n - m + (m + 1) = n + 1
    BY <1>0
  <2>8. \A k \in 1..m + 1 : d.name[k] = s[n + 1 - (m + 1) + k]
    BY <2>4, <2>5, <2>7
  <2>9. n + 1 + 1 - (m + 1) \in Begins(s) /\ m + 1 <= n + 1
    BY <1>0, <2>5, <2>7
  <2>10. Clean(d.names)
    BY <2>2 DEF Stands
  <2>11. PICK q \in Nat : q = n + 1
    BY <1>0
  <2>12. /\ Len(d.name) <= q /\ q + 1 - Len(d.name) \in Begins(s)
         /\ \A k \in 1..Len(d.name) : d.name[k] = s[q - Len(d.name) + k]
    <3>1. m + 1 <= q /\ q + 1 - (m + 1) \in Begins(s)
      BY <2>9, <2>11
    <3>2. \A k \in 1..m + 1 : d.name[k] = s[q - (m + 1) + k]
      BY <2>8, <2>11
    <3> QED
      BY <2>4, <3>1, <3>2
  <2>13. Stands(s, q, d)
    BY <2>6, <2>10, <2>12 DEF Stands
  <2> QED
    BY <2>1, <2>11, <2>13
<1> QED
  BY <1>1, <1>2

LEMMA ReadsStand ==
  ASSUME NEW s \in Seq(Chars)
  PROVE  \A n \in 0..Len(s) : Stands(s, n, Reads(s)[n])
<1> DEFINE A == {n \in 0..Len(s) : Stands(s, n, Reads(s)[n])}
<1>0. Len(s) \in Nat
  OBVIOUS
<1>1. 0 \in A
  <2>1. 0 \in 0..Len(s) /\ Reads(s)[0] = Nothing
    BY ReadsEquation
  <2>2. /\ Nothing.names = <<>> /\ Nothing.name = <<>> /\ Len(<<>>) = 0
        /\ 0 + 1 - 0 \in Begins(s)
    BY <1>0 DEF Nothing, Begins
  <2>3. Stands(s, 0, Nothing)
    BY <2>2 DEF Stands, Clean, NoSlash
  <2> QED
    BY <2>1, <2>3
<1>2. ASSUME NEW n \in 0..Len(s) - 1, n \in A PROVE n + 1 \in A
  <2>1. /\ n + 1 \in 1..Len(s) /\ n \in 0..Len(s) /\ (n + 1) - 1 = n /\ n + 1 \in 0..Len(s)
    BY <1>0
  <2>2. Reads(s)[n] \in Readings /\ Reads(s)[n + 1] = Read(Reads(s)[n], s[n + 1])
    BY <2>1, ReadsEquation
  <2>3. Stands(s, n + 1, Read(Reads(s)[n], s[n + 1]))
    BY <1>2, <2>2, ReadStands
  <2> QED
    BY <2>1, <2>2, <2>3
<1>3. \A n \in 0..Len(s) : n \in A
  <2> HIDE DEF A
  <2> QED
    BY <1>0, <1>1, <1>2, HandedOnUpTo
<1> QED
  BY <1>3

(* Only one component stands at a place. *)
LEMMA OneComponentAt ==
  ASSUME NEW s \in Seq(Chars), NEW j \in 1..Len(s) + 1, NEW a \in Texts, NEW b \in Texts,
         NoSlash(a), NoSlash(b), HasAt(s, j, a), HasAt(s, j, b)
  PROVE  a = b
<1>0. Len(a) \in Nat /\ Len(b) \in Nat /\ Len(s) \in Nat /\ j \in Nat
  BY DEF Texts
<1>1. ASSUME NEW x \in Texts, NEW y \in Texts, NoSlash(y), HasAt(s, j, x), HasAt(s, j, y),
             Len(x) < Len(y)
      PROVE  FALSE
  <2>1. Len(x) \in Nat /\ Len(y) \in Nat
    BY DEF Texts
  <2>2. Len(x) + 1 \in 1..Len(y) /\ j + (Len(x) + 1) - 1 = j + Len(x)
    BY <1>0, <1>1, <2>1
  <2>3. j + Len(x) <= Len(s) /\ s[j + Len(x)] = y[Len(x) + 1]
    BY <1>1, <2>2 DEF HasAt
  <2>4. y[Len(x) + 1] # "/"
    BY <1>1, <2>2 DEF NoSlash
  <2>5. j + Len(x) = Len(s) + 1 \/ s[j + Len(x)] = "/"
    BY <1>1 DEF HasAt
  <2> QED
    BY <1>0, <2>1, <2>3, <2>4, <2>5
<1>2. Len(a) = Len(b)
  BY <1>0, <1>1
<1>3. \A k \in 1..Len(a) : a[k] = b[k]
  BY <1>2 DEF HasAt
<1> QED
  BY <1>2, <1>3, SeqEqual DEF Texts

LEMMA Special ==
  /\ <<>> \in Texts /\ Dot \in Texts /\ Up \in Texts
  /\ NoSlash(<<>>) /\ NoSlash(Dot) /\ NoSlash(Up)
  /\ Len(Dot) = 1 /\ Dot[1] = "." /\ Len(Up) = 2 /\ Up[1] = "." /\ Up[2] = "."
BY PathAssumption DEF Texts, Dot, Up, NoSlash

(* What has been read at a slash or the end is a component. *)
LEMMA ComponentAt ==
  ASSUME NEW s \in Seq(Chars), NEW n \in 0..Len(s), NEW c \in Readings, Stands(s, n, c),
         n = Len(s) \/ s[n + 1] = "/"
  PROVE  LET j == n + 1 - Len(c.name)
         IN  j \in Begins(s) /\ j \in 1..Len(s) + 1 /\ HasAt(s, j, c.name)
<1>0. c.name \in Texts /\ Len(s) \in Nat /\ n \in Nat
  BY DEF Readings
<1>1. PICK m \in Nat : m = Len(c.name)
  BY <1>0 DEF Texts
<1>2. /\ m <= n /\ n + 1 - m \in Begins(s)
      /\ \A k \in 1..m : c.name[k] = s[n - m + k]
  BY <1>1 DEF Stands
<1>3. ASSUME NEW k \in 1..m
      PROVE  n + 1 - m + k - 1 <= Len(s) /\ s[n + 1 - m + k - 1] = c.name[k]
  <2>1. n + 1 - m + k - 1 = n - m + k /\ n - m + k <= n
    BY <1>0
  <2> QED
    BY <1>0, <1>2, <2>1
<1>4. n + 1 - m + m = n + 1
  BY <1>0
<1>5. n + 1 - m + m = Len(s) + 1 \/ s[n + 1 - m + m] = "/"
  BY <1>0, <1>4
<1>6. HasAt(s, n + 1 - m, c.name)
  BY <1>1, <1>3, <1>5 DEF HasAt
<1>7. n + 1 - m \in 1..Len(s) + 1
  BY <1>2 DEF Begins
<1> QED
  BY <1>1, <1>2, <1>6, <1>7

LEMMA NameAt ==
  ASSUME NEW s \in Seq(Chars), NEW j \in Begins(s), NEW name \in Texts, NoSlash(name),
         HasAt(s, j, name), name \notin {<<>>, Dot, Up}
  PROVE  j \in Names(s)
<1>1. j \in 1..Len(s) + 1
  BY DEF Begins
<1>2. \A x \in {<<>>, Dot, Up} : ~HasAt(s, j, x)
  BY <1>1, Special, OneComponentAt
<1> QED
  BY <1>2 DEF Names, Skips

-----------------------------------------------------------------------------
(* The state of the automaton is which component has been read so far. *)
StateOf(name) == CASE name = <<>> -> 1 [] name = Dot -> 2 [] name = Up -> 3 [] OTHER -> 4

LEMMA StateIs ==
  ASSUME NEW name \in Texts
  PROVE  /\ StateOf(name) \in 1..4
         /\ StateOf(name) = 1 <=> name = <<>>
         /\ StateOf(name) = 2 <=> name = Dot
         /\ StateOf(name) = 3 <=> name = Up
<1>1. <<>> # Dot /\ <<>> # Up /\ Dot # Up
  BY DEF Dot, Up
<1> QED
  BY <1>1 DEF StateOf

LEMMA StateStep ==
  ASSUME NEW name \in Texts, NEW ch \in Chars, ch # "/"
  PROVE  StateOf(Append(name, ch)) = To(StateOf(name), ch)
<1>1. PICK a \in Texts : a = Append(name, ch)
  <2>1. name \in Seq(Chars)
    BY DEF Texts
  <2>2. Append(name, ch) \in Seq(Chars)
    BY <2>1
  <2> QED
    BY <2>2 DEF Texts
<1>2. PICK m \in Nat : /\ m = Len(name) /\ Len(a) = m + 1 /\ a[m + 1] = ch
                       /\ \A k \in 1..m : a[k] = name[k]
  BY <1>1 DEF Texts
<1>3. a # <<>>
  <2>1. Len(<<>>) = 0
    OBVIOUS
  <2> QED
    BY <1>2, <2>1
<1>4. a = Dot <=> name = <<>> /\ ch = "."
  <2>1. ASSUME a = Dot PROVE name = <<>> /\ ch = "."
    <3>1. m = 0
      <4>1. m + 1 = 1
        BY <1>2, <2>1, Special
      <4> QED
        BY <4>1
    <3>2. ch = "."
      BY <1>2, <2>1, <3>1, Special
    <3> QED
      BY <1>2, <3>1, <3>2, EmptySeq DEF Texts
  <2>2. ASSUME name = <<>>, ch = "." PROVE a = Dot
    BY <1>1, <2>2 DEF Dot
  <2> QED
    BY <2>1, <2>2
<1>5. a = Up <=> name = Dot /\ ch = "."
  <2>1. ASSUME a = Up PROVE name = Dot /\ ch = "."
    <3>1. m = 1
      <4>1. m + 1 = 2
        BY <1>2, <2>1, Special
      <4> QED
        BY <4>1
    <3>4. Len(name) = 1 /\ ch = "." /\ name[1] = "."
      <4>1. 1 \in 1..m /\ m + 1 = 2
        BY <3>1
      <4> QED
        BY <1>2, <2>1, <3>1, <4>1, Special
    <3>2. \A k \in 1..Len(name) : name[k] = Dot[k]
      BY <3>4, Special
    <3>3. Len(name) = Len(Dot)
      BY <3>4, Special
    <3> QED
      BY <3>2, <3>3, <3>4, Special, SeqEqual DEF Texts
  <2>2. ASSUME name = Dot, ch = "." PROVE a = Up
    <3>1. Len(a) = 2 /\ a[1] = "." /\ a[2] = "."
      BY <1>2, <2>2, Special
    <3>2. Len(a) = Len(Up) /\ \A k \in 1..Len(a) : a[k] = Up[k]
      BY <3>1, Special
    <3> QED
      BY <3>2, Special, SeqEqual DEF Texts
  <2> QED
    BY <2>1, <2>2
<1>6. /\ StateOf(a) \in 1..4 /\ (StateOf(a) = 1 <=> a = <<>>)
      /\ (StateOf(a) = 2 <=> a = Dot) /\ (StateOf(a) = 3 <=> a = Up)
      /\ StateOf(name) \in 1..4 /\ (StateOf(name) = 1 <=> name = <<>>)
      /\ (StateOf(name) = 2 <=> name = Dot)
  BY StateIs
<1> QED
  BY <1>1, <1>3, <1>4, <1>5, <1>6 DEF To

(* A lone dot comes before j, and nothing but components that are skipped. *)
AfterDot(s, j) ==
  \E i \in Begins(s) : /\ i < j /\ HasAt(s, i, Dot)
                       /\ \A l \in Begins(s) : i < l /\ l < j => Skips(s, l)

LEMMA NameAfterDot ==
  ASSUME NEW s, NEW j \in Names(s), AfterDot(s, j)
  PROVE  Glued(s)
BY DEF AfterDot, Glued

LEMMA SlashAfterDot ==
  ASSUME NEW s \in Seq(Chars), NEW j \in 1..Len(s), AfterDot(s, j), s[j] = "/"
  PROVE  AfterDot(s, j + 1)
<1>1. PICK i \in Begins(s) : /\ i < j /\ HasAt(s, i, Dot)
                             /\ \A l \in Begins(s) : i < l /\ l < j => Skips(s, l)
  BY DEF AfterDot
<1>2. Skips(s, j)
  BY Has DEF Skips
<1>3. i \in Nat /\ i < j + 1
  BY <1>1 DEF Begins
<1>4. ASSUME NEW l \in Begins(s), i < l, l < j + 1 PROVE Skips(s, l)
  <2>1. l \in Nat /\ (l < j \/ l = j)
    BY <1>4 DEF Begins
  <2> QED
    BY <1>1, <1>2, <1>4, <2>1
<1> QED
  BY <1>1, <1>3, <1>4 DEF AfterDot

LEMMA DotSlash ==
  ASSUME NEW s \in Seq(Chars), NEW j \in 2..Len(s), j - 1 \in Begins(s), HasAt(s, j - 1, Dot)
  PROVE  AfterDot(s, j + 1)
<1>1. s[j - 1] = "."
  BY Has
<1>2. j \notin Begins(s) /\ j - 1 < j + 1
  BY <1>1 DEF Begins
<1>3. \A l \in Begins(s) : ~(j - 1 < l /\ l < j + 1)
  BY <1>2 DEF Begins
<1> QED
  BY <1>2, <1>3 DEF AfterDot

(* The characters of a result with one more name. *)
Gap(p) == IF p = <<>> THEN 0 ELSE 1

LEMMA WithChars ==
  ASSUME NEW p \in Texts, NEW name \in Texts
  PROVE  /\ With(p, name) \in Texts
         /\ Len(With(p, name)) = Len(p) + Len(name) + Gap(p)
         /\ \A k \in 1..Len(p) : With(p, name)[k] = p[k]
         /\ p # <<>> => With(p, name)[Len(p) + 1] = "/"
         /\ \A k \in 1..Len(name) : With(p, name)[Len(p) + Gap(p) + k] = name[k]
<1>0. p \in Seq(Chars) /\ name \in Seq(Chars) /\ Len(p) \in Nat /\ Len(name) \in Nat
  BY DEF Texts
<1>1. CASE p = <<>>
  <2>1. With(p, name) = name /\ Len(p) = 0 /\ Gap(p) = 0
    BY <1>1 DEF With, Gap
  <2> QED
    BY <1>0, <1>1, <2>1
<1>2. CASE p # <<>>
  <2>1. PICK c \in Seq(Chars) : c = <<"/">> /\ Len(c) = 1 /\ c[1] = "/"
    <3>1. <<"/">> \in Seq(Chars) /\ Len(<<"/">>) = 1 /\ <<"/">>[1] = "/"
      BY PathAssumption
    <3> QED
      BY <3>1
  <2>2. PICK b \in Seq(Chars) :
          /\ b = p \o c /\ Len(b) = Len(p) + 1 /\ b[Len(p) + 1] = "/"
          /\ \A k \in 1..Len(p) : b[k] = p[k]
    <3>1. /\ p \o c \in Seq(Chars) /\ Len(p \o c) = Len(p) + Len(c)
          /\ \A k \in 1..Len(p) : (p \o c)[k] = p[k]
          /\ \A k \in 1..Len(c) : (p \o c)[Len(p) + k] = c[k]
      BY <1>0, <2>1, Glue
    <3>2. 1 \in 1..Len(c)
      BY <2>1
    <3> QED
      BY <2>1, <3>1, <3>2
  <2>3. PICK f : f = b \o name
    OBVIOUS
  <2>4. /\ f \in Seq(Chars) /\ Len(f) = Len(b) + Len(name)
        /\ \A k \in 1..Len(b) : f[k] = b[k]
        /\ \A k \in 1..Len(name) : f[Len(b) + k] = name[k]
    BY <1>0, <2>3, Glue
  <2>5. With(p, name) = f /\ Gap(p) = 1
    BY <1>2, <2>1, <2>2, <2>3 DEF With, Gap
  <2>6. Len(p) + 1 \in 1..Len(b) /\ \A k \in 1..Len(p) : k \in 1..Len(b)
    BY <1>0, <2>2
  <2>7. /\ Len(f) = Len(p) + Len(name) + 1 /\ f[Len(p) + 1] = "/"
        /\ \A k \in 1..Len(p) : f[k] = p[k]
        /\ \A k \in 1..Len(name) : f[Len(p) + 1 + k] = name[k]
    BY <1>0, <2>2, <2>4, <2>6
  <2> QED
    BY <2>4, <2>5, <2>7 DEF Texts
<1> QED
  BY <1>1, <1>2

-----------------------------------------------------------------------------
(* In a component the buffer holds this one, perhaps behind dots that were *)
(* left in it, and the result is what came before. Once it has been handed *)
(* over it belongs to the result.                                          *)
Plain(s) == Fits(s) /\ ~Glued(s)

Within(c) ==
  /\ path = Join(c.names) /\ deep = Len(c.names)
  /\ state = StateOf(c.name)
  /\ buf = c.name \/ AfterDot(file, pos - Len(c.name))
  /\ Len(path) + Len(buf) + Gap(path) <= pos - 1
  /\ \/ phase = "scan"
     \/ phase \in {"dir", "up"} /\ phase = EndsComponent(state) /\ (AtSlash \/ AtEnd)

HandedOver(c) ==
  /\ path = Join(Enter(c.names, c.name)) /\ deep = Len(Enter(c.names, c.name))
  /\ phase = "scan" /\ state = 1 /\ buf = <<>> /\ (AtSlash \/ AtEnd)
  /\ Len(path) <= pos - 1

Follows ==
  IF phase = "resolved" THEN path = Join(Resolved(file))
  ELSE \E c \in {Reads(file)[pos - 1]} : Within(c) \/ HandedOver(c)

LEMMA Distinct == <<>> # Dot /\ <<>> # Up /\ Dot # Up
BY DEF Dot, Up

LEMMA StateOfNone == StateOf(<<>>) = 1
<1>1. <<>> \in Texts
  BY Special
<1> QED
  BY <1>1, StateIs

LEMMA EnterIs ==
  ASSUME NEW names, NEW name
  PROVE  /\ name \in {<<>>, Dot} => Enter(names, name) = names
         /\ name = Up /\ names = <<>> => Enter(names, name) = names
         /\ name = Up /\ names # <<>> => Enter(names, name) = Front(names)
         /\ name \notin {<<>>, Dot, Up} => Enter(names, name) = Append(names, name)
BY Distinct DEF Enter

LEMMA SoFar ==
  ASSUME Resolution
  PROVE  \E c \in Readings :
           /\ c = Reads(file)[pos - 1] /\ Stands(file, pos - 1, c)
           /\ pos <= Len(file) => /\ Reads(file)[pos] = Read(c, file[pos])
                                  /\ file[pos] \in Chars
           /\ AtEnd => Resolved(file) = Enter(c.names, c.name)
<1>0. file \in Seq(Chars) /\ pos \in 1..Len(file) + 1 /\ Len(file) \in Nat
  BY DEF Resolution, TypeOK
<1>1. pos - 1 \in 0..Len(file)
  BY <1>0
<1>2. PICK c \in Readings : c = Reads(file)[pos - 1] /\ Stands(file, pos - 1, c)
  BY <1>0, <1>1, ReadsEquation, ReadsStand
<1>3. ASSUME pos <= Len(file)
      PROVE  Reads(file)[pos] = Read(c, file[pos]) /\ file[pos] \in Chars
  <2>1. pos \in 1..Len(file)
    BY <1>0, <1>3
  <2> QED
    BY <1>0, <1>2, <2>1, ReadsEquation
<1>4. ASSUME AtEnd PROVE Resolved(file) = Enter(c.names, c.name)
  <2>1. pos - 1 = Len(file)
    BY <1>0, <1>4 DEF AtEnd
  <2> QED
    BY <1>2, <2>1 DEF Resolved
<1> QED
  BY <1>2, <1>3, <1>4

LEMMA EndOfComponent ==
  ASSUME Resolution, NEW c \in Readings, Stands(file, pos - 1, c), AtSlash \/ AtEnd
  PROVE  /\ pos - Len(c.name) \in Begins(file) /\ pos - Len(c.name) \in 1..Len(file) + 1
         /\ HasAt(file, pos - Len(c.name), c.name)
         /\ c.name \notin {<<>>, Dot, Up} => pos - Len(c.name) \in Names(file)
<1>0. /\ file \in Seq(Chars) /\ pos \in 1..Len(file) + 1 /\ Len(file) \in Nat
      /\ c.name \in Texts /\ Len(c.name) \in Nat
  BY DEF Resolution, TypeOK, Readings, Texts
<1>1. PICK n \in 0..Len(file) : n = pos - 1
  BY <1>0
<1>2. n = Len(file) \/ file[n + 1] = "/"
  BY <1>0, <1>1 DEF AtSlash, AtEnd
<1>3. n + 1 - Len(c.name) = pos - Len(c.name)
  BY <1>0, <1>1
<1>4. LET j == n + 1 - Len(c.name)
      IN  j \in Begins(file) /\ j \in 1..Len(file) + 1 /\ HasAt(file, j, c.name)
  BY <1>0, <1>1, <1>2, ComponentAt
<1>5. NoSlash(c.name)
  BY DEF Stands
<1>6. PICK j \in Begins(file) : j = pos - Len(c.name) /\ HasAt(file, j, c.name)
                                /\ j \in 1..Len(file) + 1
  BY <1>3, <1>4
<1>7. c.name \notin {<<>>, Dot, Up} => j \in Names(file)
  BY <1>0, <1>5, <1>6, NameAt
<1> QED
  BY <1>6, <1>7

(* Without a lone dot the buffer is what is handed over as a name. *)
LEMMA BufIsName ==
  ASSUME Resolution, Plain(file), NEW c \in Readings, Stands(file, pos - 1, c),
         Within(c), phase = "dir"
  PROVE  buf = c.name /\ c.name \notin {<<>>, Dot, Up} /\ (AtSlash \/ AtEnd)
<1>1. (AtSlash \/ AtEnd) /\ EndsComponent(state) = "dir" /\ state = StateOf(c.name)
  BY DEF Within
<1>2. c.name \in Texts
  BY DEF Readings
<1>3. state = 4
  BY <1>1 DEF EndsComponent
<1>4. c.name \notin {<<>>, Dot, Up}
  <2>1. StateOf(c.name) = 4
    BY <1>1, <1>3
  <2>2. c.name # <<>> /\ c.name # Dot /\ c.name # Up
    BY <1>2, <2>1, StateIs
  <2> QED
    BY <2>2
<1>5. pos - Len(c.name) \in Names(file)
  BY <1>1, <1>4, EndOfComponent
<1>6. ~AfterDot(file, pos - Len(c.name))
  BY <1>5, NameAfterDot DEF Plain
<1> QED
  BY <1>1, <1>4, <1>6 DEF Within

LEMMA FollowsInit ==
  ASSUME Resolution, Init
  PROVE  Follows
<1>1. file \in Seq(Chars) /\ pos = 1 /\ pos - 1 = 0
  BY DEF Init, Resolution, TypeOK
<1>2. PICK c : c = Reads(file)[pos - 1] /\ c = Nothing
  BY <1>1, ReadsEquation
<1>3. c.names = <<>> /\ c.name = <<>> /\ Len(<<>>) = 0
  BY <1>2 DEF Nothing
<1>4. path = <<>> /\ buf = <<>> /\ deep = 0 /\ state = 1 /\ phase = "scan"
  BY DEF Init
<1>5. Within(c)
  <2>1. path = Join(c.names) /\ deep = Len(c.names) /\ state = StateOf(c.name) /\ buf = c.name
    BY <1>3, <1>4, JoinOfNone, StateOfNone
  <2>2. Len(path) + Len(buf) + Gap(path) <= pos - 1
    BY <1>1, <1>3, <1>4 DEF Gap
  <2> QED
    BY <1>4, <2>1, <2>2 DEF Within
<1> QED
  BY <1>2, <1>4, <1>5 DEF Follows

(* The automaton returns at the end of a component, *)
LEMMA FollowsReturn ==
  ASSUME NEW c, Within(c) \/ HandedOver(c), Return
  PROVE  Within(c)'
<1>1. EndsComponent(state) \in {"dir", "up"} /\ (AtSlash \/ AtEnd)
  BY DEF Return, EndsComponent
<1>2. ~HandedOver(c)
  BY <1>1 DEF HandedOver, EndsComponent
<1>3. (AtSlash \/ AtEnd)'
  BY <1>1 DEF Return, AtSlash, AtEnd
<1> QED
  BY <1>1, <1>2, <1>3 DEF Return, Within

(* goes on behind a slash, *)
LEMMA FollowsSkipChar ==
  ASSUME Resolution, NEW c \in Readings, Stands(file, pos - 1, c),
         Within(c) \/ HandedOver(c), SkipChar, NEW d, d = Read(c, file[pos])
  PROVE  Within(d)'
<1>0. /\ file \in Seq(Chars) /\ pos \in 1..Len(file) /\ file[pos] = "/" /\ Len(file) \in Nat
      /\ c.name \in Texts /\ Len(path) \in Nat /\ Len(buf) \in Nat /\ AtSlash
      /\ pos' = pos + 1 /\ state' = 1 /\ phase = "scan" /\ EndsComponent(state) = "scan"
      /\ UNCHANGED <<file, buf, path, deep, phase>>
  BY DEF Resolution, TypeOK, Readings, Texts, SkipChar, AtSlash
<1>2. d.names = Enter(c.names, c.name) /\ d.name = <<>> /\ Len(<<>>) = 0
  BY <1>0 DEF Read
<1>3. state' = StateOf(d.name)
  BY <1>0, <1>2, StateOfNone
<1>4. CASE Within(c)
  <2>1. state \in 1..4 /\ state \notin {3, 4}
    BY <1>0 DEF EndsComponent, Resolution, TypeOK
  <2>2. c.name \in {<<>>, Dot}
    <3>1. state = StateOf(c.name)
      BY <1>4 DEF Within
    <3> QED
      BY <1>0, <2>1, <3>1, StateIs
  <2>3. d.names = c.names
    BY <1>2, <2>2, EnterIs
  <2>4. buf = <<>> \/ AfterDot(file, pos + 1)
    <3>1. CASE c.name = <<>>
      <4>1. buf = <<>> \/ AfterDot(file, pos)
        BY <1>0, <1>2, <1>4, <3>1 DEF Within
      <4> QED
        BY <1>0, <4>1, SlashAfterDot
    <3>2. CASE c.name = Dot
      <4>1. pos - 1 \in Begins(file) /\ pos - 1 \in 1..Len(file) + 1 /\ HasAt(file, pos - 1, Dot)
        BY <1>0, <3>2, EndOfComponent, Special
      <4>2. pos \in 2..Len(file)
        BY <1>0, <4>1
      <4> QED
        BY <1>0, <4>1, <4>2, DotSlash
    <3> QED
      BY <2>2, <3>1, <3>2
  <2>5. path = Join(d.names) /\ deep = Len(d.names)
    BY <1>4, <2>3 DEF Within
  <2>6. buf' = d.name \/ AfterDot(file', pos' - Len(d.name))
    <3>1. pos + 1 - 0 = pos + 1
      BY <1>0
    <3>2. pos' = pos + 1 /\ file' = file /\ buf' = buf /\ Len(d.name) = 0
      BY <1>0, <1>2
    <3>3. pos' - Len(d.name) = pos + 1
      BY <3>1, <3>2
    <3> QED
      BY <1>2, <2>4, <3>2, <3>3
  <2>7. Len(path') + Len(buf') + Gap(path') <= pos' - 1
    <3>1. Len(path) + Len(buf) + Gap(path) <= pos - 1 /\ Gap(path) \in Nat
      BY <1>4 DEF Within, Gap
    <3>2. Len(path) + Len(buf) + Gap(path) <= pos + 1 - 1
      BY <1>0, <3>1
    <3> QED
      BY <1>0, <3>2
  <2> QED
    BY <1>0, <1>3, <2>5, <2>6, <2>7 DEF Within
<1>5. CASE HandedOver(c)
  <2>1. path = Join(d.names) /\ deep = Len(d.names) /\ buf = d.name
    BY <1>2, <1>5 DEF HandedOver
  <2>2. Len(path') + Len(buf') + Gap(path') <= pos' - 1
    <3>1. Len(path) <= pos - 1 /\ Gap(path) \in {0, 1} /\ Len(buf) = 0
      BY <1>2, <1>5 DEF HandedOver, Gap
    <3>2. Len(path) + Len(buf) + Gap(path) <= pos + 1 - 1
      BY <1>0, <3>1
    <3> QED
      BY <1>0, <3>2
  <2> QED
    BY <1>0, <1>3, <2>1, <2>2 DEF Within
<1> QED
  BY <1>4, <1>5

(* and keeps a character of a component. *)
LEMMA FollowsKeepChar ==
  ASSUME Resolution, NEW c \in Readings, Stands(file, pos - 1, c),
         Within(c) \/ HandedOver(c), KeepChar, NEW d, d = Read(c, file[pos])
  PROVE  Within(d)'
<1>0. /\ file \in Seq(Chars) /\ pos \in 1..Len(file) /\ file[pos] # "/" /\ Len(file) \in Nat
      /\ c.name \in Texts /\ Len(path) \in Nat /\ Len(buf) \in Nat /\ ~AtSlash /\ ~AtEnd
      /\ file[pos] \in Chars /\ buf \in Seq(Chars)
      /\ pos' = pos + 1 /\ state' = To(state, file[pos]) /\ phase = "scan"
      /\ buf' = Append(buf, file[pos])
      /\ UNCHANGED <<file, path, deep, phase>>
  BY DEF Resolution, TypeOK, Readings, Texts, KeepChar, AtName, AtSlash, AtEnd
<1>2. d.names = c.names /\ d.name = Append(c.name, file[pos])
  BY <1>0 DEF Read
<1>3. Within(c)
  BY <1>0 DEF HandedOver
<1>4. state' = StateOf(d.name)
  <2>1. state = StateOf(c.name)
    BY <1>3 DEF Within
  <2> QED
    BY <1>0, <1>2, <2>1, StateStep
<1>5. /\ Len(d.name) = Len(c.name) + 1 /\ Len(c.name) \in Nat
      /\ Len(buf') = Len(buf) + 1
  BY <1>0, <1>2 DEF Texts
<1>6. buf' = d.name \/ AfterDot(file', pos' - Len(d.name))
  <2>1. pos + 1 - Len(d.name) = pos - Len(c.name)
    BY <1>0, <1>5
  <2>2. buf = c.name \/ AfterDot(file, pos - Len(c.name))
    BY <1>3 DEF Within
  <2>3. pos' - Len(d.name) = pos - Len(c.name) /\ file' = file
    <3>1. pos' = pos + 1 /\ file' = file /\ pos \in Nat
      BY <1>0
    <3> QED
      BY <1>5, <2>1, <3>1
  <2>4. buf = c.name => buf' = d.name
    BY <1>0, <1>2
  <2> QED
    BY <2>2, <2>3, <2>4
<1>7. Len(path') + Len(buf') + Gap(path') <= pos' - 1
  <2>1. Len(path) + Len(buf) + Gap(path) <= pos - 1 /\ Gap(path) \in Nat
    BY <1>3 DEF Within, Gap
  <2>2. Len(path) + (Len(buf) + 1) + Gap(path) <= pos + 1 - 1
    BY <1>0, <2>1
  <2> QED
    BY <1>0, <1>5, <2>2
<1>8. path = Join(d.names) /\ deep = Len(d.names)
  BY <1>2, <1>3 DEF Within
<1> QED
  BY <1>0, <1>4, <1>6, <1>7, <1>8 DEF Within

(* A component with room for it, *)
LEMMA SeparatorLen ==
  ASSUME Resolution
  PROVE  Len(Separator) = Gap(path) /\ (deep > 0 <=> path # <<>>)
<1>1. path \in Seq(Chars) /\ deep \in Nat /\ Slashes(path) \in Nat
  BY SlashesFinite, FS_CardinalityType DEF Resolution, TypeOK
<1>2. deep > 0 <=> path # <<>>
  BY <1>1 DEF Resolution, DepthAgrees
<1>3. Len(<<>>) = 0 /\ Len(<<"/">>) = 1
  OBVIOUS
<1> QED
  BY <1>2, <1>3 DEF Separator, Gap

LEMMA RoomLeft ==
  ASSUME Resolution, Plain(file), NEW c \in Readings, Within(c)
  PROVE  Len(path) + Len(buf) + Gap(path) <= MaxPath - 1 /\ Room >= Len(buf)
<1>1. /\ Len(file) \in Nat /\ pos \in 1..Len(file) + 1 /\ MaxPath \in Nat
      /\ Len(path) \in Nat /\ Len(buf) \in Nat
  BY PathAssumption DEF Resolution, TypeOK
<1>2. Len(path) + Len(buf) + Gap(path) <= pos - 1
  BY DEF Within
<1>3. Len(file) < MaxPath
  BY DEF Plain, Fits
<1>4. Gap(path) \in Nat
  BY DEF Gap
<1>5. Len(path) + Len(buf) + Gap(path) <= MaxPath - 1
  BY <1>1, <1>2, <1>3, <1>4
<1>6. Room = MaxPath - Len(path) - 1 - Gap(path)
  BY SeparatorLen DEF Room
<1> QED
  BY <1>1, <1>4, <1>5, <1>6

LEMMA FollowsAppend ==
  ASSUME Resolution, Plain(file), NEW c \in Readings, Stands(file, pos - 1, c), Within(c),
         AppendComponent
  PROVE  HandedOver(c)'
<1>1. buf = c.name /\ c.name \notin {<<>>, Dot, Up} /\ (AtSlash \/ AtEnd)
  BY BufIsName DEF AppendComponent
<1>2. /\ path \in Seq(Chars) /\ buf \in Seq(Chars) /\ Len(path) \in Nat /\ Len(buf) \in Nat
      /\ pos \in Nat /\ deep \in Nat /\ MaxPath \in Nat /\ Gap(path) \in Nat
      /\ c.names \in Seq(Texts) /\ c.name \in Texts
  BY PathAssumption DEF Resolution, TypeOK, Readings, Gap
<1>3. PICK n \in 0..Len(buf) :
        /\ path' \in Seq(Chars) /\ Len(path') = Len(path) + Gap(path) + n
        /\ n = Len(buf) \/ Len(path') = MaxPath - 1
        /\ \A k \in 1..Len(path) : path'[k] = path[k]
        /\ path # <<>> => path'[Len(path) + 1] = "/"
        /\ \A k \in 1..n : path'[Len(path) + Gap(path) + k] = buf[k]
  BY AppendedChars, SeparatorLen DEF Resolution, AppendComponent
<1>4. n = Len(buf)
  <2>1. Len(path) + Len(buf) + Gap(path) <= MaxPath - 1
    BY RoomLeft
  <2> QED
    BY <1>2, <1>3, <2>1
<1>5. PICK w \in Seq(Chars) :
        /\ w = With(path, buf) /\ Len(w) = Len(path) + Len(buf) + Gap(path)
        /\ \A k \in 1..Len(path) : w[k] = path[k]
        /\ path # <<>> => w[Len(path) + 1] = "/"
        /\ \A k \in 1..Len(buf) : w[Len(path) + Gap(path) + k] = buf[k]
  <2>1. path \in Texts /\ buf \in Texts
    BY <1>2 DEF Texts
  <2> QED
    BY <2>1, WithChars DEF Texts
<1>6. PICK s \in Seq(Chars) :
        /\ s = path' /\ Len(s) = Len(path) + Len(buf) + Gap(path)
        /\ \A k \in 1..Len(path) : s[k] = path[k]
        /\ path # <<>> => s[Len(path) + 1] = "/"
        /\ \A k \in 1..Len(buf) : s[Len(path) + Gap(path) + k] = buf[k]
  <2>0. \A x, y, z \in Nat : x + y + z = x + z + y
    OBVIOUS
  <2>1. Len(path) + Gap(path) + n = Len(path) + Len(buf) + Gap(path)
    BY <1>2, <1>4, <2>0
  <2> QED
    BY <1>3, <1>4, <2>1
<1>7. s = w
  <2>1. ASSUME NEW k \in 1..Len(s) PROVE s[k] = w[k]
    <3>1. CASE k <= Len(path)
      <4>1. k \in 1..Len(path)
        BY <3>1
      <4> QED
        BY <1>5, <1>6, <4>1
    <3>2. CASE k > Len(path) + Gap(path)
      <4>1. PICK i \in 1..Len(buf) : k = Len(path) + Gap(path) + i
        <5>1. k - (Len(path) + Gap(path)) \in 1..Len(buf)
          BY <1>2, <1>6, <3>2
        <5>2. k = Len(path) + Gap(path) + (k - (Len(path) + Gap(path)))
          BY <1>2
        <5> QED
          BY <5>1, <5>2
      <4> QED
        BY <1>5, <1>6, <4>1
    <3>3. CASE k > Len(path) /\ k <= Len(path) + Gap(path)
      <4>1. path # <<>>
        BY <1>2, <3>3 DEF Gap
      <4>2. k = Len(path) + 1
        BY <1>2, <3>3 DEF Gap
      <4> QED
        BY <1>5, <1>6, <4>1, <4>2
    <3> QED
      BY <1>2, <3>1, <3>2, <3>3
  <2>2. Len(s) = Len(w)
    BY <1>5, <1>6
  <2> QED
    BY <2>1, <2>2, SeqEqual
<1>8. path = Join(c.names) /\ deep = Len(c.names)
      /\ Len(path) + Len(buf) + Gap(path) <= pos - 1
  BY DEF Within
<1>9. Enter(c.names, c.name) = Append(c.names, c.name)
  BY <1>1, EnterIs
<1>10. path' = Join(Enter(c.names, c.name))
  <2>1. With(path, buf) = Join(Append(c.names, c.name))
    BY <1>1, <1>2, <1>8, JoinOfAppend
  <2> QED
    BY <1>5, <1>6, <1>7, <1>9, <2>1
<1>11. deep' = Len(Enter(c.names, c.name))
  <2>1. Len(Append(c.names, c.name)) = Len(c.names) + 1
    BY <1>2
  <2> QED
    BY <1>8, <1>9, <2>1 DEF AppendComponent
<1>12. phase' = "scan" /\ state' = 1 /\ buf' = <<>> /\ pos' = pos /\ file' = file
  BY DEF AppendComponent, Rescan
<1>13. (AtSlash \/ AtEnd)'
  BY <1>1, <1>12 DEF AtSlash, AtEnd
<1>14. Len(path') <= pos' - 1
  <2>1. Len(path') = Len(path) + Len(buf) + Gap(path)
    BY <1>6
  <2> QED
    BY <1>8, <1>12, <2>1
<1> QED
  BY <1>10, <1>11, <1>12, <1>13, <1>14 DEF HandedOver

(* and "..", which takes the last name away, if there is one. *)
LEMMA CutBehind ==
  ASSUME NEW p \in Texts, NEW name \in Texts, NoSlash(name), NEW s, s = With(p, name),
         s \in Seq(Chars), s # <<>>, s[1] # "/", NEW k \in 0..Len(s) - 1,
         k = 0 \/ s[k + 1] = "/", \A l \in k + 2..Len(s) : s[l] # "/"
  PROVE  SubSeq(s, 1, k) = p
<1>0. Len(p) \in Nat /\ Len(name) \in Nat /\ Len(s) \in Nat
  BY DEF Texts
<1>1. /\ Len(s) = Len(p) + Len(name) + Gap(p)
      /\ \A i \in 1..Len(p) : s[i] = p[i]
      /\ p # <<>> => s[Len(p) + 1] = "/"
      /\ \A i \in 1..Len(name) : s[Len(p) + Gap(p) + i] = name[i]
  BY WithChars
<1>2. /\ SubSeq(s, 1, k) \in Seq(Chars) /\ Len(SubSeq(s, 1, k)) = k
      /\ \A l \in 1..k : SubSeq(s, 1, k)[l] = s[l]
  <2>1. \A l \in 1..k : s[l] \in Chars
    BY <1>0
  <2> QED BY <2>1, SubSeqProperties
<1>3. ASSUME NEW l \in Len(p) + Gap(p) + 1..Len(s) PROVE s[l] # "/"
  <2>0. Gap(p) \in Nat
    BY DEF Gap
  <2>1. l - (Len(p) + Gap(p)) \in 1..Len(name)
    BY <1>0, <1>1, <2>0
  <2>2. PICK i \in 1..Len(name) : i = l - (Len(p) + Gap(p))
    BY <2>1
  <2>3. Len(p) + Gap(p) + i = l
    BY <1>0, <2>0, <2>2
  <2> QED
    BY <1>1, <2>2, <2>3 DEF NoSlash
<1>4. CASE p = <<>>
  <2>1. Len(p) = 0 /\ Gap(p) = 0
    BY <1>4 DEF Gap
  <2>2. s[k + 1] # "/"
    <3>1. k + 1 \in Len(p) + Gap(p) + 1..Len(s)
      BY <1>0, <2>1
    <3> QED
      BY <1>3, <3>1
  <2> QED
    BY <1>2, <1>4, <2>2, EmptySeq
<1>5. CASE p # <<>>
  <2>1. Gap(p) = 1 /\ Len(p) > 0 /\ s[Len(p) + 1] = "/"
    BY <1>0, <1>1, <1>5, EmptySeq DEF Gap, Texts
  <2>2. Len(p) + 1 \in 2..Len(s)
    BY <1>0, <1>1, <2>1
  <2>3. ~(k < Len(p))
    <3> SUFFICES ASSUME k < Len(p) PROVE FALSE
      OBVIOUS
    <3>1. Len(p) + 1 \in k + 2..Len(s)
      BY <1>0, <2>2
    <3> QED
      BY <2>1, <3>1
  <2>4. ~(k > Len(p))
    <3> SUFFICES ASSUME k > Len(p) PROVE FALSE
      OBVIOUS
    <3>1. k + 1 \in Len(p) + Gap(p) + 1..Len(s) /\ k # 0
      BY <1>0, <2>1
    <3> QED
      BY <1>3, <3>1
  <2>5. k = Len(p)
    BY <1>0, <2>3, <2>4
  <2> QED
    BY <1>1, <1>2, <2>5, SeqEqual DEF Texts
<1> QED
  BY <1>4, <1>5

LEMMA FollowsCut ==
  ASSUME Resolution, NEW c \in Readings, Stands(file, pos - 1, c), Within(c),
         CutComponent \/ StayAtRoot
  PROVE  HandedOver(c)'
<1>1. /\ phase = "up" /\ phase' = "scan" /\ state' = 1 /\ buf' = <<>>
      /\ pos' = pos /\ file' = file
  BY DEF CutComponent, StayAtRoot, Rescan
<1>2. /\ c.names \in Seq(Texts) /\ c.name \in Texts /\ Len(c.names) \in Nat
      /\ path \in Seq(Chars) /\ Len(path) \in Nat /\ Len(buf) \in Nat /\ Gap(path) \in Nat
      /\ pos \in Nat /\ deep \in Nat
  BY DEF Resolution, TypeOK, Readings, Gap
<1>3. /\ path = Join(c.names) /\ deep = Len(c.names) /\ state = StateOf(c.name)
      /\ Len(path) + Len(buf) + Gap(path) <= pos - 1
      /\ (AtSlash \/ AtEnd) /\ EndsComponent(state) = "up"
  BY <1>1 DEF Within
<1>4. c.name = Up
  <2>1. state = 3
    BY <1>3 DEF EndsComponent
  <2>2. StateOf(c.name) = 3
    BY <1>3, <2>1
  <2> QED
    BY <1>2, <2>2, StateIs
<1>5. (AtSlash \/ AtEnd)'
  BY <1>1, <1>3 DEF AtSlash, AtEnd
<1>6. Len(path) <= pos' - 1
  <2>1. Len(path) + Len(buf) + Gap(path) <= pos - 1
    BY <1>3
  <2>2. Len(path) <= pos - 1
    BY <1>2, <2>1
  <2> QED
    BY <1>1, <2>2
<1>7. CASE StayAtRoot
  <2>1. deep = 0 /\ path' = path /\ deep' = deep
    BY <1>7 DEF StayAtRoot
  <2>2. c.names = <<>>
    BY <1>2, <1>3, <2>1, EmptySeq
  <2>3. Enter(c.names, c.name) = c.names
    BY <1>4, <2>2, EnterIs
  <2> QED
    BY <1>1, <1>3, <1>5, <1>6, <2>1, <2>3 DEF HandedOver
<1>8. CASE CutComponent
  <2>1. PICK k \in 0..Len(path) - 1 : CutAt(k) /\ path' = SubSeq(path, 1, k)
    BY <1>8 DEF CutComponent
  <2>2. deep > 0 /\ deep' = deep - 1
    BY <1>8 DEF CutComponent
  <2>3. c.names # <<>>
    <3>1. Len(<<>>) = 0
      OBVIOUS
    <3> QED
      BY <1>3, <2>2, <3>1
  <2>4. PICK f \in Seq(Texts), l \in Texts :
          /\ f = Front(c.names) /\ l = Last(c.names)
          /\ c.names = Append(f, l) /\ Len(f) = Len(c.names) - 1
    BY <1>2, <2>3, FrontOf
  <2>5. NoSlash(l)
    <3>1. Len(c.names) \in 1..Len(c.names)
      BY <1>2, <2>3, EmptySeq
    <3>2. Clean(c.names)
      BY DEF Stands
    <3> QED
      BY <2>4, <3>1, <3>2 DEF Clean, Last
  <2>6. path = With(Join(f), l) /\ Join(f) \in Texts
    BY <1>3, <2>4, JoinOfAppend, JoinType
  <2>7. path # <<>> /\ path[1] # "/"
    BY <2>2, SeparatorLen DEF Resolution, Relative
  <2>8. /\ k = 0 \/ path[k + 1] = "/"
        /\ \A i \in k + 2..Len(path) : path[i] # "/"
    BY <2>1 DEF CutAt
  <2>9. path' = Join(f)
    <3>1. PICK p \in Texts : p = Join(f) /\ path = With(p, l)
      BY <2>6
    <3>2. path \in Seq(Chars)
      BY <1>2
    <3>3. SubSeq(path, 1, k) = p
      BY <2>5, <2>7, <2>8, <3>1, <3>2, CutBehind
    <3> QED
      BY <2>1, <3>1, <3>3
  <2>10. Enter(c.names, c.name) = f
    BY <1>4, <2>3, <2>4, EnterIs
  <2>11. deep' = Len(f)
    BY <1>3, <2>2, <2>4
  <2>12. Len(path') <= pos' - 1
    <3>1. Len(path') = k
      <4>1. \A i \in 1..k : path[i] \in Chars
        BY <1>2
      <4> QED
        BY <2>1, <4>1, SubSeqProperties
    <3>2. PICK q : q = Len(path')
      OBVIOUS
    <3> QED
      BY <1>1, <1>2, <1>6, <3>1
  <2> QED
    BY <1>1, <1>5, <2>9, <2>10, <2>11, <2>12 DEF HandedOver
<1> QED
  BY <1>7, <1>8

(* At the end the names are all there are. *)
LEMMA FollowsFinish ==
  ASSUME Resolution, NEW c \in Readings, Resolved(file) = Enter(c.names, c.name),
         Within(c) \/ HandedOver(c), Finish
  PROVE  path = Join(Resolved(file))
<1>1. CASE HandedOver(c)
  BY <1>1 DEF HandedOver
<1>2. CASE Within(c)
  <2>1. path = Join(c.names) /\ state = StateOf(c.name)
    BY <1>2 DEF Within
  <2>2. state \notin {3, 4} /\ state \in 1..4
    BY DEF Finish, EndsComponent, Resolution, TypeOK
  <2>3. c.name \in {<<>>, Dot}
    <3>1. c.name \in Texts
      BY DEF Readings
    <3>2. StateOf(c.name) = 1 \/ StateOf(c.name) = 2
      BY <2>1, <2>2
    <3> QED
      BY <3>1, <3>2, StateIs
  <2>4. Enter(c.names, c.name) = c.names
    BY <2>3, EnterIs
  <2> QED
    BY <2>1, <2>4
<1> QED
  BY <1>1, <1>2

(* Neither buffer is too small for a path that fits into one. *)
LEMMA FollowsRoom ==
  ASSUME Resolution, Plain(file), NEW c \in Readings, Within(c) \/ HandedOver(c)
  PROVE  ~TooLong /\ ~LeftWraps
<1>0. /\ Len(file) \in Nat /\ pos \in 1..Len(file) + 1 /\ MaxPath \in Nat
      /\ Len(path) \in Nat /\ Len(buf) \in Nat /\ Gap(path) \in Nat /\ Len(file) < MaxPath
  BY PathAssumption DEF Resolution, TypeOK, Gap, Plain, Fits
<1>1. ~TooLong
  <2> SUFFICES ASSUME TooLong PROVE FALSE
    OBVIOUS
  <2>1. pos <= Len(file) /\ ~AtSlash /\ ~AtEnd
    BY <1>0 DEF TooLong, AtName, AtSlash, AtEnd
  <2>2. Within(c)
    BY <2>1 DEF HandedOver
  <2>3. Len(path) + Len(buf) + Gap(path) <= pos - 1
    BY <2>2 DEF Within
  <2>4. Len(buf) = MaxPath - 1
    BY <1>0 DEF TooLong, BufLeft
  <2> QED
    BY <1>0, <2>1, <2>3, <2>4
<1>2. ~LeftWraps
  <2> SUFFICES ASSUME LeftWraps PROVE FALSE
    OBVIOUS
  <2>1. Within(c)
    BY DEF LeftWraps, HandedOver
  <2>2. Room >= Len(buf) /\ Room < 0
    BY <2>1, RoomLeft DEF LeftWraps
  <2>3. Room \in Int
    BY <1>0, SeparatorLen DEF Room
  <2> QED
    BY <1>0, <2>2, <2>3
<1> QED
  BY <1>1, <1>2

LEMMA FollowsStep ==
  ASSUME Resolution, Plain(file), Follows, [Next]_vars
  PROVE  Follows'
<1>1. CASE phase = "resolved"
  <2>1. UNCHANGED vars
    BY <1>1 DEF Next, Return, SkipChar, KeepChar, TooLong, Finish, AppendComponent,
                LeftWraps, CutComponent, StayAtRoot
  <2> QED
    BY <1>1, <2>1 DEF vars, Follows
<1>2. CASE phase # "resolved"
  <2>1. PICK c \in Readings :
          /\ c = Reads(file)[pos - 1] /\ Stands(file, pos - 1, c)
          /\ pos <= Len(file) => /\ Reads(file)[pos] = Read(c, file[pos])
                                 /\ file[pos] \in Chars
          /\ AtEnd => Resolved(file) = Enter(c.names, c.name)
    BY SoFar
  <2>2. Within(c) \/ HandedOver(c)
    BY <1>2, <2>1 DEF Follows
  <2>3. ASSUME phase' # "resolved", UNCHANGED <<file, pos>>, Within(c)' \/ HandedOver(c)'
        PROVE  Follows'
    BY <2>1, <2>3 DEF Follows
  <2>4. ASSUME phase' # "resolved", file' = file, pos' = pos + 1, pos <= Len(file),
               NEW d, d = Read(c, file[pos]), Within(d)'
        PROVE  Follows'
    <3>1. pos \in Nat
      BY DEF Resolution, TypeOK
    <3>2. d = Reads(file')[pos' - 1]
      <4>1. pos' - 1 = pos
        BY <2>4, <3>1
      <4> QED
        BY <2>1, <2>4, <4>1
    <3> QED
      BY <2>4, <3>2 DEF Follows
  <2>5. CASE Return
    <3>1. Within(c)'
      BY <2>2, <2>5, FollowsReturn
    <3>2. phase' # "resolved"
      BY <2>5 DEF Return, EndsComponent
    <3> QED
      BY <2>3, <2>5, <3>1, <3>2 DEF Return
  <2>6. CASE SkipChar
    <3>1. PICK d : d = Read(c, file[pos])
      OBVIOUS
    <3>2. Within(d)'
      BY <2>1, <2>2, <2>6, <3>1, FollowsSkipChar
    <3>3. phase' # "resolved" /\ file' = file /\ pos' = pos + 1 /\ pos <= Len(file)
      BY <1>2, <2>6 DEF SkipChar, AtSlash
    <3> QED
      BY <2>4, <3>1, <3>2, <3>3
  <2>7. CASE KeepChar
    <3>1. PICK d : d = Read(c, file[pos])
      OBVIOUS
    <3>2. Within(d)'
      BY <2>1, <2>2, <2>7, <3>1, FollowsKeepChar
    <3>3. phase' # "resolved" /\ file' = file /\ pos' = pos + 1 /\ pos <= Len(file)
      BY <1>2, <2>7 DEF KeepChar, AtName
    <3> QED
      BY <2>4, <3>1, <3>2, <3>3
  <2>8. CASE TooLong \/ LeftWraps
    BY <2>2, <2>8, FollowsRoom
  <2>9. CASE Finish
    <3>1. path = Join(Resolved(file))
      BY <2>1, <2>2, <2>9, FollowsFinish DEF Finish
    <3> QED
      BY <2>9, <3>1 DEF Finish, Follows
  <2>10. CASE AppendComponent
    <3>1. Within(c)
      BY <2>2, <2>10 DEF AppendComponent, HandedOver
    <3>2. HandedOver(c)'
      BY <2>1, <2>10, <3>1, FollowsAppend
    <3>3. phase' # "resolved" /\ UNCHANGED <<file, pos>>
      BY <2>10 DEF AppendComponent, Rescan
    <3> QED
      BY <2>3, <3>2, <3>3
  <2>11. CASE CutComponent \/ StayAtRoot
    <3>1. Within(c)
      BY <2>2, <2>11 DEF CutComponent, StayAtRoot, HandedOver
    <3>2. HandedOver(c)'
      BY <2>1, <2>11, <3>1, FollowsCut
    <3>3. phase' # "resolved" /\ UNCHANGED <<file, pos>>
      BY <2>11 DEF CutComponent, StayAtRoot, Rescan
    <3> QED
      BY <2>3, <3>2, <3>3
  <2>12. CASE UNCHANGED vars
    <3>1. Within(c)' \/ HandedOver(c)'
      BY <2>2, <2>12 DEF vars, Within, HandedOver, AtSlash, AtEnd
    <3> QED
      BY <1>2, <2>3, <2>12, <3>1 DEF vars
  <2> QED
    BY <2>5, <2>6, <2>7, <2>8, <2>9, <2>10, <2>11, <2>12 DEF Next
<1> QED
  BY <1>1, <1>2

Faithful == Resolution /\ (Plain(file) => Follows)

(* A path that fits the buffer, and in which no name comes after a lone    *)
(* dot, resolves to what its components say, whatever they are and however *)
(* long the buffer is.                                                     *)
THEOREM ResolvesLikeReferenceHolds == Spec => []ResolvesLikeReference
<1>1. Init => Faithful
  BY ResolutionInit, FollowsInit DEF Faithful
<1>2. Faithful /\ [Next]_vars => Faithful'
  <2> SUFFICES ASSUME Faithful, [Next]_vars PROVE Faithful'
    OBVIOUS
  <2>1. Resolution /\ Resolution'
    BY ResolutionStep DEF Faithful
  <2>2. file' = file
    BY DEF Next, Return, SkipChar, KeepChar, TooLong, Finish, AppendComponent, LeftWraps,
           CutComponent, StayAtRoot, vars
  <2>3. ASSUME Plain(file) PROVE Follows'
    BY <2>1, <2>3, FollowsStep DEF Faithful
  <2> QED
    BY <2>1, <2>2, <2>3 DEF Faithful
<1>3. Faithful => ResolvesLikeReference
  <2> SUFFICES ASSUME Faithful, phase \in Ends, Fits(file), ~Glued(file)
               PROVE  phase = "resolved" /\ path = Join(Resolved(file))
    BY DEF ResolvesLikeReference
  <2>1. Follows
    BY DEF Faithful, Plain
  <2>2. phase = "resolved"
    BY <2>1 DEF Follows, Within, HandedOver, Ends
  <2> QED
    BY <2>1, <2>2 DEF Follows
<1> QED
  BY <1>1, <1>2, <1>3, PTL DEF Spec
===============================================================================
