----------------------------- MODULE DeployUiProofs -----------------------------
(***************************************************************************)
(* Proofs about the pager and the tiles of annet/deploy_ui.py, for texts,  *)
(* screens and numbers of devices of any size, whatever keys are pressed   *)
(* and whatever the driver says.                                           *)
(***************************************************************************)
EXTENDS DeployUi, SequenceFacts

-----------------------------------------------------------------------------
(* A pad has rows and columns.                                             *)
LEMMA ParsedType ==
    ASSUME NEW t \in Seq(AnyLine)
    PROVE  Parsed(t) \in Seq(AnyLine) /\ (t # <<>> => Parsed(t) # <<>>)
<1>1. <<Warning>> \in Seq(AnyLine) /\ Len(<<Warning>>) = 1
  BY DEF Warning, AnyLine
<1>2. CASE TooLong(t)
  <2>1. 1 \in 1 .. Len(t) + 1 /\ NcursesSize - 3 \in 0 .. Len(t)
    BY <1>2, PagerAssumption DEF TooLong
  <2>2. SubSeq(t, 1, NcursesSize - 3) \in Seq(AnyLine)
    BY <2>1, SubSeqProperties
  <2>3. <<Warning>> \o SubSeq(t, 1, NcursesSize - 3) \in Seq(AnyLine)
    BY <1>1, <2>2, ConcatProperties
  <2>4. Parsed(t) \in Seq(AnyLine) /\ Len(Parsed(t)) >= 1
    BY <1>1, <1>2, <2>2, <2>3, ConcatProperties DEF Parsed
  <2> QED
    BY <2>4
<1>3. CASE ~TooLong(t)
  BY <1>3 DEF Parsed
<1> QED
  BY <1>2, <1>3

LEMMA PadSize ==
    ASSUME NEW t \in Seq(AnyLine), t # <<>>
    PROVE  /\ Rows(t) \in Nat /\ Cols(t) \in Nat
           /\ \A i \in 1 .. Rows(t) : Parsed(t)[i].len <= Cols(t)
<1> DEFINE p    == Parsed(t)
           lens == {line.len : line \in ToSet(p)}
<1>1. p \in Seq(AnyLine) /\ p # <<>>
  BY ParsedType
<1> HIDE DEF p
<1>2. Len(p) \in Nat /\ DOMAIN p = 1 .. Len(p) /\ 1 \in 1 .. Len(p)
  BY <1>1
<1>3. \A i \in 1 .. Len(p) : p[i].len \in Nat
  <2>1. \A i \in 1 .. Len(p) : p[i] \in AnyLine
    BY <1>1, ElementOfSeq
  <2> QED
    BY <2>1 DEF AnyLine
<1>4. PICK b \in Nat : \A i \in 1 .. Len(p) : p[i].len <= b
  <2>1. [i \in 1 .. Len(p) |-> p[i].len] \in [1 .. Len(p) -> Nat]
    BY <1>3
  <2>2. \E b \in Nat : \A i \in 1 .. Len(p) : [j \in 1 .. Len(p) |-> p[j].len][i] <= b
    BY <1>2, <2>1, BoundedFcn
  <2> QED
    BY <2>2
<1>5. lens = {p[i].len : i \in 1 .. Len(p)}
  BY <1>2 DEF ToSet
<1> HIDE DEF lens
<1>6. lens \in SUBSET (0 .. b) /\ lens # {}
  <2>1. \A i \in 1 .. Len(p) : p[i].len \in 0 .. b
    BY <1>3, <1>4
  <2>2. p[1].len \in lens
    BY <1>2, <1>5
  <2> QED
    BY <1>5, <2>1, <2>2
<1>7. Max(lens) \in lens /\ \A k \in lens : k <= Max(lens)
  BY <1>6, MaxBounded
<1>8. Rows(t) = Len(p) /\ Cols(t) = Max(lens)
  BY DEF Rows, Cols, p, lens
<1> QED
  BY <1>2, <1>3, <1>5, <1>6, <1>7, <1>8 DEF p

(* The lines that bound the scrolling are no more than the rows.           *)
LEMMA LinesOfText ==
    ASSUME NEW t \in Seq(AnyLine)
    PROVE  /\ Rows(t) \in Nat /\ NumLines(t) \in Nat
           /\ t # <<>> => NumLines(t) <= Rows(t)
<1>1. Rows(t) \in Nat /\ (t # <<>> => Rows(t) >= 1)
  BY ParsedType DEF Rows
<1>2. CASE Full(t) = {}
  BY <1>1, <1>2 DEF NumLines
<1>3. CASE Full(t) # {}
  <2>1. Full(t) \in SUBSET (0 .. Rows(t)) /\ Full(t) \in SUBSET Nat
    BY <1>1 DEF Full
  <2>2. Max(Full(t)) \in Full(t) /\ Min(Full(t)) \in Full(t) /\ Min(Full(t)) <= Max(Full(t))
    BY <1>1, <1>3, <2>1, MaxBounded, MinNatural
  <2>3. Max(Full(t)) \in 1 .. Rows(t) /\ Min(Full(t)) \in 1 .. Rows(t)
    BY <2>2 DEF Full
  <2>4. NumLines(t) = Max(Full(t)) - Min(Full(t)) + 1
    BY <1>3 DEF NumLines
  <2> QED
    BY <1>1, <2>2, <2>3, <2>4
<1> QED
  BY <1>2, <1>3

-----------------------------------------------------------------------------
(* A search comes to a place.                                              *)
Places == SUBSET (Nat \X Nat)

LEMMA FirstPlace ==
    ASSUME NEW hits \in Places, hits # {}
    PROVE  \E h \in hits : \A k \in hits : h = k \/ Before(h, k)
<1> DEFINE lines == {h[1] : h \in hits}
<1>1. lines \in SUBSET Nat /\ lines # {}
  BY DEF Places
<1>2. PICK line \in lines : \A l \in lines : line <= l
  BY <1>1, LeastNatural
<1> DEFINE offsets == {h[2] : h \in {k \in hits : k[1] = line}}
<1>3. offsets \in SUBSET Nat /\ offsets # {}
  BY DEF Places
<1>4. PICK offset \in offsets : \A o \in offsets : offset <= o
  BY <1>3, LeastNatural
<1>5. PICK h \in hits : h[1] = line /\ h[2] = offset
  OBVIOUS
<1>6. ASSUME NEW k \in hits PROVE h = k \/ Before(h, k)
  <2>1. h \in Nat \X Nat /\ k \in Nat \X Nat
    BY DEF Places
  <2>2. line <= k[1] /\ (k[1] = line => offset <= k[2])
    BY <1>2, <1>4
  <2> QED
    BY <1>5, <2>1, <2>2 DEF Before
<1> QED
  BY <1>6

LEMMA SearchPlaces ==
    ASSUME NEW hits \in Places, y \in Nat, x \in Nat
    PROVE  /\ SearchNext(hits)[1] \in Nat /\ SearchNext(hits)[2] \in Nat
           /\ SearchPrev(hits)[1] \in Nat /\ SearchPrev(hits)[2] \in Nat
<1>1. SearchNext(hits)[1] \in Nat /\ SearchNext(hits)[2] \in Nat
  <2> DEFINE after == {h \in hits : Before(<<y, x>>, h)}
  <2>1. CASE after = {}
    BY <2>1 DEF SearchNext
  <2>2. CASE after # {}
    <3>1. after \in Places
      BY DEF Places
    <3>2. \E h \in after : \A k \in after : h = k \/ Before(h, k)
      BY <2>2, <3>1, FirstPlace
    <3>3. SearchNext(hits) \in after
      BY <2>2, <3>2 DEF SearchNext
    <3> QED
      BY <3>1, <3>3 DEF Places
  <2> QED
    BY <2>1, <2>2
<1>2. SearchPrev(hits)[1] \in Nat /\ SearchPrev(hits)[2] \in Nat
  <2> DEFINE before == {h \in hits : Before(h, <<y, x>>)}
             line   == Max({h[1] : h \in before})
             there  == {h[2] : h \in {k \in before : k[1] = line}}
  <2>1. CASE before = {}
    BY <2>1 DEF SearchPrev
  <2>2. CASE before # {}
    <3>1. {h[1] : h \in before} \in SUBSET (0 .. y) /\ {h[1] : h \in before} # {}
      BY <2>2 DEF Places, Before
    <3>2. line \in {h[1] : h \in before}
      BY <3>1, MaxBounded
    <3>3. there \in SUBSET Nat /\ there # {}
      BY <3>2 DEF Places
    <3>4. Min(there) \in Nat
      BY <3>3, MinNatural
    <3>5. line \in Nat
      BY <3>1, <3>2
    <3>6. SearchPrev(hits) = <<line, Min(there)>>
      BY <2>2 DEF SearchPrev
    <3> QED
      BY <3>4, <3>5, <3>6
  <2> QED
    BY <2>1, <2>2
<1> QED
  BY <1>1, <1>2

-----------------------------------------------------------------------------
(* The lesser of two numbers, and a number brought between two.            *)
LEMMA MinOfTwo ==
    ASSUME NEW a \in Int, NEW b \in Int
    PROVE  Min({a, b}) = IF a <= b THEN a ELSE b
<1>1. CASE a <= b
  BY <1>1 DEF Min
<1>2. CASE ~(a <= b)
  BY <1>2 DEF Min
<1> QED
  BY <1>1, <1>2

LEMMA Clamped ==
    ASSUME NEW n \in Int, NEW hi \in Nat
    PROVE  Clamp(0, n, hi) \in 0 .. hi
<1> DEFINE m == Max({0, n})
<1>1. m \in Nat
  BY DEF Max
<1> HIDE DEF m
<1>2. Min({hi, m}) = IF hi <= m THEN hi ELSE m
  BY <1>1, MinOfTwo
<1>3. Clamp(0, n, hi) = Min({hi, m})
  BY DEF Clamp, m
<1> QED
  BY <1>1, <1>2, <1>3

TextsInv == text \in Seq(AnyLine) /\ alternative \in Seq(AnyLine) /\ found \in Places

(* A move leaves the cursor in the pad and what is shown around it, and    *)
(* does not scroll further than the text goes.                             *)
InPad(t, r, c)     == r \in 0 .. Rows(t) /\ c \in 0 .. Cols(t) - 1
OnScreen(r, first, below) == first <= r /\ r <= (IF first < 0 THEN 0 ELSE first) + MaxY + below
InColumns(c, first)       == first <= c /\ c <= first + MaxX

(* How far the cursor may be below what is shown depends on both texts, in *)
(* whichever order they stand.                                             *)
LEMMA RowsBelowType ==
    ASSUME TextsInv
    PROVE  RowsBelow \in Nat /\ EmptyEnds(text) <= RowsBelow /\ EmptyEnds(text) \in Int
<1>1. EmptyEnds(text) \in Int /\ EmptyEnds(alternative) \in Int
  BY LinesOfText DEF TextsInv, EmptyEnds
<1> DEFINE a == EmptyEnds(text)  b == EmptyEnds(alternative)
<1>2. RowsBelow = Max({0, a, b})
  BY DEF RowsBelow
<1> HIDE DEF a, b
<1>3. a \in Int /\ b \in Int => Max({0, a, b}) \in Nat /\ a <= Max({0, a, b})
  <2> SUFFICES ASSUME a \in Int, b \in Int
               PROVE  Max({0, a, b}) \in Nat /\ a <= Max({0, a, b})
    OBVIOUS
  <2>1. \E m \in {0, a, b} : \A k \in {0, a, b} : m >= k
    <3>1. CASE a >= 0 /\ a >= b
      BY <3>1
    <3>2. CASE b >= 0 /\ b >= a
      BY <3>2
    <3>3. CASE 0 >= a /\ 0 >= b
      BY <3>3
    <3> QED
      BY <3>1, <3>2, <3>3
  <2>2. Max({0, a, b}) \in {0, a, b} /\ \A k \in {0, a, b} : Max({0, a, b}) >= k
    BY <2>1 DEF Max
  <2> QED
    BY <2>2
<1> QED
  BY <1>1, <1>2, <1>3 DEF a, b

LEMMA RowsBelowStays ==
    (text' = text /\ alternative' = alternative) \/ (text' = alternative /\ alternative' = text)
        => RowsBelow' = RowsBelow
<1>1. CASE text' = text /\ alternative' = alternative
  BY <1>1 DEF RowsBelow, EmptyEnds
<1>2. CASE text' = alternative /\ alternative' = text
  <2>1. {0, EmptyEnds(text'), EmptyEnds(alternative')} = {0, EmptyEnds(text), EmptyEnds(alternative)}
    BY <1>2
  <2>2. RowsBelow' = Max({0, EmptyEnds(text'), EmptyEnds(alternative')})
    BY DEF RowsBelow, EmptyEnds, NumLines, Rows, Full, Parsed, TooLong, Warning
  <2> QED
    BY <2>1, <2>2 DEF RowsBelow
<1> QED
  BY <1>1, <1>2

LEMMA Followed ==
    ASSUME NEW margin \in Nat, NEW y1 \in 0 .. Rows(text), top \in Int,
           Rows(text) \in Nat, NumLines(text) \in 0 .. Rows(text)
    PROVE  /\ Follow(margin, y1) \in Int /\ Follow(margin, y1) <= NumLines(text) - MaxY
           /\ margin <= MaxY => OnScreen(y1, Follow(margin, y1), EmptyEnds(text))
<1>1. MaxY \in Nat \ {0}
  BY PagerAssumption
<1> DEFINE last  == NumLines(text) - MaxY
           below == y1 - (top + MaxY - margin)
           to    == IF below > 0 THEN top + below ELSE IF y1 - margin < top THEN y1 ELSE top
<1>2. to \in Int /\ last \in Int
  BY <1>1
<1>3. Follow(margin, y1) = Min({last, to})
  BY DEF Follow
<1>4. Min({last, to}) = IF last <= to THEN last ELSE to
  <2> HIDE DEF last, to
  <2> QED
    BY <1>2, MinOfTwo
<1>5. Follow(margin, y1) = IF last <= to THEN last ELSE to
  BY <1>3, <1>4
<1>6. EmptyEnds(text) = Rows(text) - NumLines(text)
  BY DEF EmptyEnds
<1> QED
  BY <1>1, <1>5, <1>6 DEF OnScreen

(* Sideways: what is shown starts left of the cursor.                      *)
LEMMA FollowedLeft ==
    ASSUME NEW cols \in Nat \ {0}, NEW x1 \in 0 .. cols, left \in Int, left <= cols - 1
    PROVE  /\ FollowLeft(x1) \in Int
           /\ FollowLeft(x1) <= left \/ FollowLeft(x1) <= cols - MaxX
           /\ InColumns(IF x1 <= cols - 1 THEN x1 ELSE cols - 1, FollowLeft(x1))
<1>1. MaxX \in Nat \ {0}
  BY PagerAssumption
<1> QED
  BY <1>1 DEF FollowLeft, InColumns

LEMMA Moved ==
    ASSUME TextsInv, text # <<>>, Cols(text) # 0, InPad(text, y, x), top \in Int, left \in Int,
           left <= x, NEW dy \in Int, NEW dx \in Int, NEW margin \in Nat, Move(dy, dx, margin)
    PROVE  /\ InPad(text, y', x') /\ top' \in Int /\ left' \in Int
           /\ margin <= MaxY /\ OnScreen(y, top, RowsBelow) => OnScreen(y', top', RowsBelow)
           /\ InColumns(x, left) => InColumns(x', left')
           /\ top' = top \/ top' <= NumLines(text) - MaxY
           /\ left' <= left \/ left' <= Cols(text) - MaxX
           /\ answer' = IF Unshown(text) THEN Died ELSE answer
<1> DEFINE y1 == Clamp(0, y + dy, Rows(text))
           x1 == Clamp(0, x + dx, Cols(text))
<1>1. Rows(text) \in Nat /\ Cols(text) \in Nat \ {0} /\ MaxY \in Nat \ {0} /\ MaxX \in Nat \ {0}
  BY PadSize, PagerAssumption DEF TextsInv
<1>0. NumLines(text) \in 0 .. Rows(text) /\ RowsBelow \in Nat /\ EmptyEnds(text) \in Int /\ EmptyEnds(text) <= RowsBelow
  BY LinesOfText, RowsBelowType DEF TextsInv
<1>2. y + dy \in Int /\ x + dx \in Int
  BY <1>1 DEF InPad
<1>3. y1 \in 0 .. Rows(text) /\ x1 \in 0 .. Cols(text)
  BY <1>1, <1>2, Clamped
<1>4. answer' = IF Unshown(text) THEN Died ELSE answer
  BY DEF Move
<1>5. CASE dy = 0 /\ dx = 0
  <2>1. UNCHANGED <<y, x, top, left>>
    BY <1>5 DEF Move
  <2> QED
    BY <1>4, <2>1
<1>6. CASE ~(dy = 0 /\ dx = 0)
  <2>1. top' = Follow(margin, y1) /\ left' = FollowLeft(x1) /\ y' = y1 /\ x' = Min({x1, Cols(text) - 1})
    BY <1>6 DEF Move
  <2> HIDE DEF y1, x1
  <2>2. x' = (IF x1 <= Cols(text) - 1 THEN x1 ELSE Cols(text) - 1) /\ x' \in 0 .. Cols(text) - 1
    <3>1. x1 \in Int /\ Cols(text) - 1 \in Int
      BY <1>1, <1>3
    <3>2. x' = IF x1 <= Cols(text) - 1 THEN x1 ELSE Cols(text) - 1
      BY <2>1, <3>1, MinOfTwo
    <3> QED
      BY <1>1, <1>3, <3>2
  <2>3. left' \in Int /\ (left' <= left \/ left' <= Cols(text) - MaxX) /\ InColumns(x', left')
    <3>1. left \in Int /\ left <= Cols(text) - 1
      BY <1>1 DEF InPad
    <3> QED
      BY <1>1, <1>3, <2>1, <2>2, <3>1, FollowedLeft
  <2>4. top' \in Int /\ top' <= NumLines(text) - MaxY /\ (margin <= MaxY => OnScreen(y1, top', EmptyEnds(text)))
    BY <1>0, <1>1, <1>3, <2>1, Followed
  <2>5. margin <= MaxY => OnScreen(y', top', RowsBelow)
    BY <1>0, <1>1, <1>3, <2>1, <2>4 DEF OnScreen
  <2> QED
    BY <1>3, <1>4, <2>1, <2>2, <2>3, <2>4, <2>5 DEF InPad
<1> QED
  BY <1>5, <1>6

-----------------------------------------------------------------------------
(* While the pager asks there is a text on the pad, and the cursor is in   *)
(* it.  How far the text is scrolled is what one of the two texts allows:  *)
(* the one that was shown when it was scrolled.                            *)
CursorInv == /\ ~NoPad(text) /\ InPad(text, y, x)
             /\ top \in Int /\ left \in Int
             /\ SearchMargin <= MaxY => OnScreen(y, top, RowsBelow)
             /\ InColumns(x, left)
ScrollInv == /\ top <= 0 \/ top <= NumLines(text) - MaxY \/ top <= NumLines(alternative) - MaxY
             /\ left <= 0 \/ left <= Cols(text) - MaxX \/ left <= Cols(alternative) - MaxX
AskInv    == pc = "ask" => /\ TextsInv
                           /\ Asked => CursorInv
                           /\ Alike /\ Asked => ScrollInv
                           /\ Alike /\ Readable => answer # Died

LEMMA AskInit == Init => AskInv
<1> SUFFICES ASSUME Init PROVE AskInv
  OBVIOUS
<1>1. /\ TextsInv /\ y = 0 /\ x = 0 /\ top = 0 /\ left = 0
      /\ answer = IF NoPad(text) \/ MaxX <= PromptLen THEN Died ELSE "none"
  BY TextsAssumption DEF Init, PagerInit, TextsInv, Places
<1>2. ASSUME Asked PROVE CursorInv
  <2>1. ~NoPad(text)
    BY <1>1, <1>2 DEF Asked, Died
  <2>2. /\ Rows(text) \in Nat /\ Cols(text) \in Nat \ {0} /\ MaxY \in Nat /\ MaxX \in Nat
        /\ PromptLen \in Nat /\ RowsBelow \in Nat
    BY <1>1, <2>1, PadSize, PagerAssumption, RowsBelowType DEF TextsInv, NoPad
  <2> QED
    BY <1>1, <2>1, <2>2 DEF CursorInv, InPad, OnScreen, InColumns
<1>3. ScrollInv
  BY <1>1 DEF ScrollInv
<1>4. ASSUME Alike, Readable PROVE answer # Died
  <2>1. ~NoPad(text) /\ ~(MaxX <= PromptLen)
    BY <1>4, PagerAssumption DEF Alike, Shown, Readable
  <2> QED
    BY <1>1, <2>1 DEF Died
<1> QED
  BY <1>1, <1>2, <1>3, <1>4 DEF AskInv

(* What a move of the cursor has to keep; where to move is a place.        *)
LEMMA MoveStep ==
    ASSUME AskInv, pc = "ask", pc' = "ask", Asked, UNCHANGED <<text, alternative>>, found' \in Places,
           NEW dy \in Int, NEW dx \in Int, NEW margin \in {0, SearchMargin}, Move(dy, dx, margin)
    PROVE  AskInv'
<1>1. TextsInv /\ CursorInv
  BY DEF AskInv
<1>2. text \in Seq(AnyLine) /\ text # <<>> /\ Cols(text) # 0 /\ margin \in Nat
  BY <1>1, PagerAssumption DEF TextsInv, CursorInv, NoPad
<1>3. /\ InPad(text, y', x') /\ top' \in Int /\ left' \in Int
      /\ margin <= MaxY /\ OnScreen(y, top, RowsBelow) => OnScreen(y', top', RowsBelow)
      /\ InColumns(x, left) => InColumns(x', left')
      /\ top' = top \/ top' <= NumLines(text) - MaxY
      /\ left' <= left \/ left' <= Cols(text) - MaxX
      /\ answer' = IF Unshown(text) THEN Died ELSE answer
  <2>1. left <= x
    BY <1>1 DEF CursorInv, InColumns
  <2> QED
    BY <1>1, <1>2, <2>1, Moved DEF CursorInv
<1>4. TextsInv'
  BY <1>1 DEF TextsInv
<1>5. CursorInv'
  <2>1. SearchMargin <= MaxY => margin <= MaxY
    BY PagerAssumption
  <2>2. RowsBelow' = RowsBelow
    BY RowsBelowStays
  <2>3. SearchMargin <= MaxY => OnScreen(y', top', RowsBelow')
    BY <1>1, <1>3, <2>1, <2>2 DEF CursorInv
  <2>4. InColumns(x', left')
    BY <1>1, <1>3 DEF CursorInv
  <2>5. ~NoPad(text') /\ InPad(text', y', x')
    BY <1>1, <1>3 DEF CursorInv
  <2> QED
    BY <1>3, <2>3, <2>4, <2>5 DEF CursorInv, NoPad, Cols, Parsed, TooLong, Warning, InPad, Rows, OnScreen, InColumns
<1>6. ASSUME Alike' PROVE ScrollInv'
  <2>1. Alike /\ ScrollInv
    BY <1>6 DEF Alike, AskInv, Shown, NoPad, TooLong, Longer, Cols, Rows, NumLines, Full, Parsed, Warning, HitsOf
  <2>2. top' <= 0 \/ top' <= NumLines(text) - MaxY \/ top' <= NumLines(alternative) - MaxY
    BY <1>3, <2>1 DEF ScrollInv
  <2>3. left' <= 0 \/ left' <= Cols(text) - MaxX \/ left' <= Cols(alternative) - MaxX
    <3>1. /\ Cols(text) \in Nat \ {0} /\ Cols(alternative) \in Nat \ {0} /\ MaxX \in Nat
      BY <1>1, <2>1, PadSize, PagerAssumption DEF TextsInv, Alike, Shown, NoPad
    <3> QED
      BY <1>1, <1>3, <2>1, <3>1 DEF ScrollInv, CursorInv
  <2> QED
    BY <2>2, <2>3 DEF ScrollInv, Cols, Rows, NumLines, Full, Parsed, TooLong, Warning
<1>7. ASSUME Alike', Readable' PROVE answer' # Died
  <2>1. ScrollInv' /\ Alike
    BY <1>6, <1>7 DEF Alike, Shown, NoPad, TooLong, Longer, Cols, Rows, NumLines, Full, Parsed, Warning, HitsOf
  <2>2. /\ Rows(text) \in Nat /\ NumLines(text) \in 0 .. Rows(text) /\ Cols(text) \in Nat \ {0}
        /\ Rows(alternative) \in Nat /\ NumLines(alternative) \in Nat /\ Cols(alternative) \in Nat \ {0}
        /\ MaxY \in Nat \ {0} /\ MaxX \in Nat \ {0}
    BY <1>1, <2>1, PadSize, LinesOfText, PagerAssumption DEF TextsInv, Alike, Shown, NoPad
  <2>3. ~Longer(alternative, text)
    BY <2>1 DEF Alike
  <2>4. /\ top' <= 0 \/ top' <= NumLines(text) - MaxY \/ top' <= NumLines(alternative) - MaxY
        /\ left' <= 0 \/ left' <= Cols(text) - MaxX \/ left' <= Cols(alternative) - MaxX
    BY <2>1 DEF ScrollInv, Cols, Rows, NumLines, Full, Parsed, TooLong, Warning
  <2>5. ~OffPad(text)
    BY <1>3, <2>2, <2>3, <2>4 DEF Longer, OffPad
  <2>6. ~Unprompted
    BY <1>7, <2>2, PagerAssumption DEF Readable, Unprompted
  <2> QED
    BY <1>3, <2>5, <2>6 DEF Unshown, Asked, Died
<1> QED
  BY <1>4, <1>5, <1>6, <1>7 DEF AskInv

LEMMA ToggleStep == AskInv /\ pc = "ask" /\ pc' = "ask" /\ Toggle => AskInv'
<1> SUFFICES ASSUME AskInv, pc = "ask", pc' = "ask", Toggle PROVE AskInv'
  OBVIOUS
<1>1. TextsInv /\ CursorInv /\ Asked
  BY DEF AskInv, Toggle
<1>2. /\ text' = alternative /\ alternative' = text
      /\ top' = top /\ left' = left /\ found' = found
  BY DEF Toggle
<1>3. TextsInv'
  BY <1>1, <1>2 DEF TextsInv
<1>4. ASSUME Asked' PROVE CursorInv'
  <2>1. ~NoPad(alternative) /\ ~OffPad(alternative) /\ NewPad(alternative)
    BY <1>4 DEF Toggle, Asked, Died, Unshown
  <2>2. Rows(alternative) \in Nat /\ Cols(alternative) \in Nat \ {0} /\ Rows(text) \in Nat /\ Cols(text) \in Nat
    BY <1>1, <2>1, PadSize DEF TextsInv, NoPad, CursorInv
  <2>3. y \in Nat /\ x \in Nat /\ top \in Int /\ left \in Int /\ MaxY \in Nat /\ MaxX \in Nat /\ RowsBelow \in Nat
    BY <1>1, <2>2, PagerAssumption, RowsBelowType DEF CursorInv, InPad
  <2>4. /\ y' = IF Rows(alternative) <= y THEN Rows(alternative) ELSE y
        /\ x' = IF Cols(alternative) - 1 <= x THEN Cols(alternative) - 1 ELSE x
    <3>1. Cols(alternative) - 1 \in Int
      BY <2>2
    <3> QED
      BY <2>1, <2>2, <2>3, <3>1, MinOfTwo DEF NewPad
  <2>5. top <= Rows(alternative) /\ left <= Cols(alternative) - 1
    BY <1>2, <2>1, <2>2, <2>3 DEF OffPad
  <2>6. InPad(alternative, y', x') /\ (SearchMargin <= MaxY => OnScreen(y', top, RowsBelow)) /\ InColumns(x', left)
    BY <1>1, <2>2, <2>3, <2>4, <2>5 DEF CursorInv, InPad, OnScreen, InColumns
  <2>7. RowsBelow' = RowsBelow
    BY <1>2, RowsBelowStays
  <2>8. ~NoPad(text') /\ InPad(text', y', x') /\ (SearchMargin <= MaxY => OnScreen(y', top', RowsBelow')) /\ InColumns(x', left')
    BY <1>2, <2>1, <2>6, <2>7
  <2> QED
    BY <1>1, <1>2, <2>8 DEF CursorInv, InPad, OnScreen, InColumns, NoPad, Cols, Rows, Parsed, TooLong, Warning
<1>5. ASSUME Alike' PROVE Alike /\ ScrollInv /\ ScrollInv'
  <2>1. Alike
    BY <1>2, <1>5 DEF Alike, Shown, NoPad, TooLong, Longer, Cols, Rows, NumLines, Full, Parsed, Warning, HitsOf
  <2>2. ScrollInv
    BY <1>1, <2>1 DEF AskInv
  <2> QED
    BY <1>2, <2>1, <2>2 DEF ScrollInv, Cols, Rows, NumLines, Full, Parsed, TooLong, Warning
<1>6. ASSUME Alike', Readable' PROVE answer' # Died
  <2>1. Alike /\ ScrollInv
    BY <1>5, <1>6
  <2>2. /\ Rows(text) \in Nat /\ NumLines(text) \in Nat /\ Cols(text) \in Nat \ {0}
        /\ Rows(alternative) \in Nat /\ NumLines(alternative) \in 0 .. Rows(alternative) /\ Cols(alternative) \in Nat \ {0}
        /\ MaxY \in Nat \ {0} /\ MaxX \in Nat \ {0}
    BY <1>1, <2>1, PadSize, LinesOfText, PagerAssumption DEF TextsInv, Alike, Shown, NoPad
  <2>3. ~OffPad(alternative) /\ ~NoPad(alternative)
    BY <1>1, <1>2, <2>1, <2>2 DEF ScrollInv, Alike, Longer, Shown, OffPad, CursorInv
  <2>4. ~Unprompted
    BY <1>6, <2>2, PagerAssumption DEF Readable, Unprompted
  <2>5. answer' = answer
    BY <2>3, <2>4 DEF Toggle, Unshown
  <2> QED
    BY <1>1, <2>5 DEF Asked, Died
<1> QED
  BY <1>3, <1>4, <1>5, <1>6 DEF AskInv

(* The pager's own steps.                                                  *)
LEMMA PagerStep == AskInv /\ pc = "ask" /\ pc' = "ask" /\ Pager => AskInv'
<1> SUFFICES ASSUME AskInv, pc = "ask", pc' = "ask", Pager PROVE AskInv'
  OBVIOUS
<1>0. TextsInv /\ (Asked => CursorInv)
  BY DEF AskInv
<1>1. ASSUME Asked PROVE /\ Rows(text) \in Nat /\ NumLines(text) \in Nat /\ y \in Nat /\ x \in Nat
                         /\ PageKeys \in Nat /\ SearchMargin \in Nat
  <2>1. Rows(text) \in Nat /\ NumLines(text) \in Nat /\ Cols(text) \in Nat
    BY <1>0, <1>1, PadSize, LinesOfText DEF TextsInv, CursorInv, NoPad
  <2> QED
    BY <1>0, <1>1, <2>1, PagerAssumption DEF CursorInv, InPad
<1>2. ASSUME NEW key \in {"y", "exit", "force-yes", "n"}, Answer(key) PROVE AskInv'
  <2>1. answer' = key /\ key # "none" /\ key # Died /\ UNCHANGED <<text, alternative, y, x, top, left, found, debug>>
    BY <1>2 DEF Answer, Died
  <2>2. TextsInv'
    BY <1>0, <2>1 DEF TextsInv
  <2>3. ~Asked'
    BY <2>1 DEF Asked
  <2> QED
    BY <2>1, <2>2, <2>3 DEF AskInv, Died
<1>3. CASE Toggle
  BY <1>3, ToggleStep
<1>4. ASSUME NEW dy \in Int, NEW dx \in Int, Scroll(dy, dx) PROVE AskInv'
  BY <1>0, <1>4, MoveStep DEF Scroll, TextsInv
<1>9. CASE Debug
  BY <1>0, <1>9, MoveStep DEF Debug, TextsInv
<1>5. CASE Cursor
  <2>1. CASE \E dx \in {-1, 1} : Scroll(0, dx)
    BY <1>4, <2>1
  <2>2. ASSUME NEW dy \in {-1, 1, -PageKeys, PageKeys, -NumLines(text), NumLines(text)}, Scroll(dy, 0) PROVE AskInv'
    <3>1. dy \in Int
      BY <1>1, <2>2 DEF Scroll
    <3> QED
      BY <1>4, <2>2, <3>1
  <2> QED
    BY <1>5, <2>1, <2>2 DEF Cursor
<1>6. ASSUME NEW h, h[1] \in Nat, h[2] \in Nat, Asked, JumpTo(h),
             UNCHANGED <<text, alternative>>, found' \in Places
      PROVE  AskInv'
  <2>1. h[1] - y \in Int /\ h[2] - x \in Int
    BY <1>1, <1>6
  <2> QED
    BY <1>6, <2>1, MoveStep DEF JumpTo
<1>7. CASE Jump
  <2>1. Asked /\ UNCHANGED <<text, alternative, found>> /\ found' \in Places
    BY <1>0, <1>7 DEF Jump, TextsInv
  <2> QED
    BY <1>0, <1>1, <1>6, <1>7, <2>1, SearchPlaces DEF Jump, TextsInv
<1>8. ASSUME NEW hits \in {HitsOf(text), {}}, Search(hits) PROVE AskInv'
  <2>1. Asked /\ found' = hits /\ UNCHANGED <<text, alternative>>
    BY <1>8 DEF Search
  <2>2. \A h \in HitsOf(text) : h \in Nat \X Nat /\ h[1] < Len(text)
    <3>1. text \in Seq(AnyLine)
      BY <1>0 DEF TextsInv
    <3>2. DOMAIN text = 1..Len(text) /\ Len(text) \in Nat
      BY <3>1
    <3>3. \A i \in 1..Len(text) : text[i] \in AnyLine
      BY <3>1, ElementOfSeq
    <3>4. \A i \in DOMAIN text : text[i].hits \in SUBSET Nat
      BY <3>2, <3>3 DEF AnyLine
    <3>5. \A i \in DOMAIN text : i - 1 \in Nat /\ i - 1 < Len(text)
      BY <3>2
    <3> QED
      BY <3>4, <3>5 DEF HitsOf
  <2>3. hits \in Places
    BY <2>2 DEF Places
  <2>4. CASE Unrendered(hits)
    <3>1. answer' = Died /\ UNCHANGED <<y, x, top, left>>
      BY <1>8, <2>4 DEF Search
    <3>2. TextsInv' /\ ~Asked'
      BY <1>0, <2>1, <2>3, <3>1 DEF TextsInv, Asked, Died
    <3>3. ~Alike
      <4> SUFFICES ASSUME Alike PROVE FALSE
        OBVIOUS
      <4>1. PICK h \in hits : h[1] > Rows(text) \/ h[2] >= Cols(text)
        BY <2>4 DEF Unrendered
      <4>2. Rows(text) = Len(text)
        BY DEF Alike, Shown, Rows, Parsed
      <4>3. h \in HitsOf(text) /\ h[1] < Len(text) /\ h[2] < Cols(text) /\ h \in Nat \X Nat
        BY <2>2, <4>1 DEF Alike, Shown
      <4>4. Len(text) \in Nat /\ Cols(text) \in Nat
        BY <1>0, <1>1, <2>1, PadSize DEF TextsInv, CursorInv, NoPad
      <4> QED
        BY <4>1, <4>2, <4>3, <4>4
    <3> QED
      BY <2>1, <3>2, <3>3 DEF AskInv, Alike
  <2>5. CASE ~Unrendered(hits)
    <3>1. JumpTo(SearchNext(hits))
      BY <1>8, <2>5 DEF Search
    <3>2. SearchNext(hits)[1] \in Nat /\ SearchNext(hits)[2] \in Nat
      BY <1>1, <2>1, <2>3, SearchPlaces
    <3> QED
      BY <1>6, <2>1, <2>3, <3>1, <3>2
  <2> QED
    BY <2>4, <2>5
<1> QED
  BY <1>2, <1>3, <1>5, <1>7, <1>8, <1>9 DEF Pager

LEMMA AskStep == AskInv /\ [Next]_vars => AskInv'
<1> SUFFICES ASSUME AskInv, [Next]_vars PROVE AskInv'
  OBVIOUS
<1>1. CASE Ask
  BY <1>1, PagerStep DEF Ask
<1>2. ASSUME UNCHANGED <<pagerVars, pc>> PROVE AskInv'
  <2>1. UNCHANGED <<text, alternative, y, x, top, left, found, debug, answer, pc>>
    BY <1>2 DEF pagerVars
  <2>2. RowsBelow' = RowsBelow
    BY <2>1, RowsBelowStays
  <2> QED
    BY <2>1, <2>2 DEF AskInv, TextsInv, CursorInv, ScrollInv, Asked, Alike, Readable
<1>3. ASSUME pc' # "ask" PROVE AskInv'
  BY <1>3 DEF AskInv
<1>4. CASE Decline \/ Open
  BY <1>3, <1>4 DEF Decline, Open
<1>5. CASE DriverReturns \/ DriverRaises
  BY <1>3, <1>5 DEF DriverReturns, DriverRaises
<1>6. CASE WaitForExit
  BY <1>2, <1>3, <1>6 DEF WaitForExit, Waiting, Leave, WaitRaises
<1>7. CASE Deploying \/ User \/ Refresher \/ UNCHANGED vars
  BY <1>2, <1>7 DEF Deploying, User, Refresher, vars
<1> QED
  BY <1>1, <1>4, <1>5, <1>6, <1>7 DEF Next

LEMMA AskAlways == Spec => []AskInv
<1> QED
  BY AskInit, AskStep, PTL DEF Spec

(* What is shown follows the cursor, for texts and screens of any size and *)
(* whatever keys are pressed: it starts neither below nor right of the     *)
(* cursor, and ends above it by at most the empty lines at the ends of the *)
(* texts and left of it by at most two columns.                            *)
THEOREM CursorIsFollowed == Spec => []CursorFollowed
<1>1. AskInv => CursorFollowed
  <2> SUFFICES ASSUME AskInv, pc = "ask", Asked, SearchMargin <= MaxY
               PROVE  /\ y \in 0 .. Rows(text) /\ x \in 0 .. Cols(text) - 1
                      /\ Max({0, top}) <= y /\ y <= LastRow + RowsBelow
                      /\ left <= x /\ x <= LastColumn + 2
    BY DEF CursorFollowed
  <2>1. CursorInv /\ TextsInv
    BY DEF AskInv
  <2>2. /\ Rows(text) \in Nat /\ Cols(text) \in Nat /\ top \in Int /\ left \in Int
        /\ MaxY \in Nat /\ MaxX \in Nat /\ RowsBelow \in Nat
    BY <2>1, PadSize, PagerAssumption, RowsBelowType DEF CursorInv, TextsInv, NoPad
  <2>3. Max({0, top}) = IF top < 0 THEN 0 ELSE top
    BY <2>2 DEF Max
  <2>4. left <= x /\ x <= LastColumn + 2
    BY <2>1, <2>2 DEF CursorInv, InPad, InColumns, LastColumn
  <2> QED
    BY <2>1, <2>2, <2>3, <2>4 DEF CursorInv, InPad, OnScreen, LastRow
<1> QED
  BY <1>1, AskAlways, PTL

(* The pager does not answer for the user, whatever is searched for and    *)
(* however often the texts change places, while they are alike and the     *)
(* screen is wide enough for the prompt and the debug line.                *)
THEOREM OnlyTheUserAnswers == Spec => []UserAnswers
<1>1. AskInv => UserAnswers
  BY DEF AskInv, UserAnswers
<1> QED
  BY <1>1, AskAlways, PTL

-----------------------------------------------------------------------------
(* Multiples.                                                              *)
LEMMA Quotient ==
    ASSUME NEW a \in Nat, NEW n \in Nat \ {0}
    PROVE  a \div n \in Nat /\ n * (a \div n) <= a
OBVIOUS

LEMMA Multiples ==
    ASSUME NEW h \in Nat, NEW a \in Nat, NEW b \in Nat, a < b
    PROVE  a * h + h <= b * h
OBVIOUS

(* Where a tile begins: below the heights of the tiles before it.          *)
LEMMA AboveIs ==
    ASSUME NEW n \in Nat, NEW height, NEW begin, NEW d \in 1 .. n,
           begin[1] = 0,
           \A e \in 2 .. n : begin[e] = begin[e - 1] + height[e - 1]
    PROVE  Above(height, d) = begin[d]
<1> DEFINE At(f)   == f = [e \in 1 .. d |-> IF e = 1 THEN 0 ELSE f[e - 1] + height[e - 1]]
           above   == CHOOSE f : At(f)
           differs == {e \in 1 .. d : above[e] # begin[e]}
<1>0. d \in Nat /\ d <= n /\ 1 \in 1 .. d /\ d \in 1 .. d
  OBVIOUS
<1>1. \E f : At(f)
  <2> DEFINE f == [e \in 1 .. d |-> begin[e]]
  <2>1. ASSUME NEW e \in 1 .. d PROVE f[e] = IF e = 1 THEN 0 ELSE f[e - 1] + height[e - 1]
    <3>1. CASE e = 1
      BY <3>1
    <3>2. CASE e # 1
      <4>1. e - 1 \in 1 .. d /\ e \in 2 .. n
        BY <1>0, <3>2
      <4>2. begin[e] = begin[e - 1] + height[e - 1]
        BY <4>1
      <4> QED
        BY <3>2, <4>1, <4>2
    <3> QED
      BY <3>1, <3>2
  <2>2. At(f)
    BY <2>1
  <2> QED
    BY <2>2
<1>2. At(above)
  BY <1>1
<1>3. Above(height, d) = above[d]
  BY DEF Above
<1> HIDE DEF above
<1>4. \A e \in 1 .. d : above[e] = IF e = 1 THEN 0 ELSE above[e - 1] + height[e - 1]
  BY <1>2
<1>5. \A e \in 1 .. d : e \notin differs
  <2> SUFFICES ASSUME differs # {} PROVE FALSE
    OBVIOUS
  <2>1. differs \in SUBSET Nat
    BY <1>0
  <2>2. PICK e \in differs : \A k \in differs : e <= k
    BY <2>1, LeastNatural
  <2>3. e \in 1 .. d /\ e # 1 /\ above[e] # begin[e]
    BY <1>4, <2>2
  <2>4. e - 1 \in 1 .. d /\ e \in 2 .. n /\ ~(e <= e - 1)
    BY <1>0, <2>3
  <2>5. e - 1 \notin differs
    BY <2>2, <2>4
  <2>6. above[e - 1] = begin[e - 1] /\ begin[e] = begin[e - 1] + height[e - 1]
    BY <2>4, <2>5
  <2> QED
    BY <1>4, <2>3, <2>6
<1>6. above[d] = begin[d]
  BY <1>0, <1>5
<1> QED
  BY <1>3, <1>6

-----------------------------------------------------------------------------
(* Windows that are on the screen, and apart.                              *)
OnLines(win)     == win.top \in Nat /\ win.height \in Nat /\ (win.height = 0 \/ win.top + win.height <= rows)
Beside(win, win2) == \/ win.height = 0 \/ win2.height = 0
                     \/ win.top + win.height <= win2.top \/ win2.top + win2.height <= win.top

(* The windows of a screen that can be turned: when a device has none,     *)
(* there are as many devices as lines, and only then is there a tile that  *)
(* says so.                                                                *)
Placed(win) ==
    /\ win[Status] = [top |-> rows - 1, height |-> 1]
    /\ \A t \in Tiles : OnLines(win[t])
    /\ \A t, u \in Tiles : t # u => Beside(win[t], win[u])
    /\ (\E d \in Devices : win[d] = NoWindow) => count >= rows - 1
    /\ win[Dumb] = NoWindow \/ \E d \in Devices : win[d] = NoWindow

(* While the bars are there.                                               *)
BarsInv ==
    /\ pc \in {"ask", "declined"} => state = "INIT" /\ refresher = "none"
    /\ pc = "deploy" => state = "OK"
    /\ pc = "wait" => state = "WAIT_INPUT"
    /\ pc \notin {"ask", "declined", "deploy", "wait"} => state = "CLOSED"
    /\ pc \in {"deploy", "wait"} =>
           /\ rows \in Nat \ {0} /\ count \in Nat \ {0} /\ active \in Devices
           /\ refresher \in {"runs", "failed"}
           /\ refresher = "runs" => Placed(window)
    /\ TabsAreHarmless

(* Tiles of one height.                                                    *)
LEMMA AboveAlike ==
    ASSUME NEW n \in Nat, NEW h \in Nat, NEW height, \A e \in 1 .. n : height[e] = h
    PROVE  \A d \in 1 .. n : Above(height, d) = (d - 1) * h
<1> DEFINE begin == [e \in 1 .. n |-> (e - 1) * h]
<1>1. \A e \in 2 .. n : (e - 1) * h = (e - 2) * h + h
  OBVIOUS
<1>2. \A e \in 2 .. n : begin[e] = begin[e - 1] + height[e - 1]
  <2> SUFFICES ASSUME NEW e \in 2 .. n PROVE begin[e] = begin[e - 1] + height[e - 1]
    OBVIOUS
  <2>1. e \in 1 .. n /\ e - 1 \in 1 .. n /\ (e - 1) - 1 = e - 2
    OBVIOUS
  <2>2. begin[e] = (e - 1) * h /\ begin[e - 1] = (e - 2) * h /\ height[e - 1] = h
    BY <2>1
  <2> QED
    BY <1>1, <2>2
<1>3. \A e \in 1 .. n : begin[e] = (e - 1) * h
  OBVIOUS
<1> SUFFICES ASSUME NEW d \in 1 .. n PROVE Above(height, d) = (d - 1) * h
  OBVIOUS
<1>4. 1 \in 1 .. n /\ begin[1] = 0
  BY <1>3
<1> HIDE DEF begin
<1>5. Above(height, d) = begin[d]
  BY <1>2, <1>4, AboveIs
<1> QED
  BY <1>3, <1>5

(* One tile with contents, the others have their titles.                   *)
OneTall(height, n, a, h) == \A e \in 1 .. n : height[e] = IF e = a THEN h ELSE 1
TopOf(e, a, h)           == IF e <= a THEN e - 1 ELSE e - 2 + h

LEMMA AboveActive ==
    ASSUME NEW n \in Nat, NEW a \in 1 .. n, NEW h \in Nat, NEW height, OneTall(height, n, a, h)
    PROVE  \A d \in 1 .. n : Above(height, d) = TopOf(d, a, h)
<1> USE DEF OneTall
<1> DEFINE at(e) == TopOf(e, a, h)
           begin == [e \in 1 .. n |-> at(e)]
<1>1. ASSUME NEW e \in 2 .. n PROVE begin[e] = begin[e - 1] + height[e - 1]
  <2>1. e \in 1 .. n /\ e - 1 \in 1 .. n
    OBVIOUS
  <2>2. begin[e] = at(e) /\ begin[e - 1] = at(e - 1) /\ height[e - 1] = IF e - 1 = a THEN h ELSE 1
    BY <2>1
  <2>3. at(e) = at(e - 1) + IF e - 1 = a THEN h ELSE 1
    BY DEF TopOf
  <2> QED
    BY <2>2, <2>3
<1>2. \A e \in 1 .. n : begin[e] = at(e)
  OBVIOUS
<1>3. 1 \in 1 .. n /\ begin[1] = 0
  BY DEF TopOf
<1> SUFFICES ASSUME NEW d \in 1 .. n PROVE Above(height, d) = at(d)
  OBVIOUS
<1> HIDE DEF begin
<1>4. Above(height, d) = begin[d]
  BY <1>1, <1>3, AboveIs
<1> QED
  BY <1>2, <1>4

(* What make_tiles does.                                                   *)
LEMMA MadeUniform ==
    ASSUME rows \in Nat \ {0}, count \in Nat \ {0}, Mode = "UNIFORM", window = MadeWindows
    PROVE  Placed(window)
<1> DEFINE h      == (rows - 1) \div count
           height == [d \in Devices |-> Height(d)]
<1>1. h \in Nat \ {0} /\ count * h <= rows - 1
  <2>1. h \in Nat /\ count * h <= rows - 1
    BY Quotient
  <2>2. h > MinContentHeight
    BY DEF Mode
  <2> QED
    BY <2>1, <2>2, BarsAssumption
<1>2. \A d \in Devices : height[d] = h
  BY DEF Height
<1> HIDE DEF h, height
<1>3. \A d \in Devices : Above(height, d) = (d - 1) * h
  <2>1. h \in Nat /\ count \in Nat /\ \A d \in 1 .. count : height[d] = h
    BY <1>1, <1>2 DEF Devices
  <2>2. \A d \in 1 .. count : Above(height, d) = (d - 1) * h
    BY <2>1, AboveAlike
  <2> QED
    BY <2>2 DEF Devices
<1>4. /\ window[Status] = [top |-> rows - 1, height |-> 1]
      /\ window[Dumb] = NoWindow
      /\ \A d \in Devices : window[d] = [top |-> Above(height, d), height |-> h]
  <2>1. /\ Tiles = {Status, Dumb} \cup Devices
        /\ Status \notin Devices /\ Dumb \notin Devices /\ Status # Dumb
    BY DEF Tiles, Status, Dumb, Devices
  <2> QED
    BY <1>2, <2>1 DEF MadeWindows, HasRoom, height
<1>5. ASSUME NEW d \in Devices PROVE window[d].top = (d - 1) * h /\ window[d].height = h
  <2>0. window[d] = [top |-> Above(height, d), height |-> h]
    BY <1>4
  <2>1. window[d].top = Above(height, d) /\ window[d].height = h
    BY <2>0
  <2> QED
    BY <1>3, <2>1
<1>6. ASSUME NEW d \in Devices PROVE window[d].top \in Nat /\ window[d].height = h /\ window[d].top + h <= rows - 1
  <2>1. d - 1 \in Nat /\ count \in Nat /\ d - 1 < count
    BY DEF Devices
  <2>2. (d - 1) * h + h <= count * h /\ (d - 1) * h \in Nat /\ count * h = h * count
    BY <1>1, <2>1, Multiples
  <2> DEFINE at == (d - 1) * h
  <2>3. at \in Nat /\ at + h <= rows - 1
    BY <1>1, <2>2
  <2> HIDE DEF at
  <2>4. window[d].top = at /\ window[d].height = h
    BY <1>5 DEF at
  <2> QED
    BY <2>3, <2>4
<1>7. ASSUME NEW d \in Devices, NEW e \in Devices, d < e
      PROVE  window[d].top + window[d].height <= window[e].top
  <2>1. d - 1 \in Nat /\ e - 1 \in Nat /\ d - 1 < e - 1
    BY <1>7 DEF Devices
  <2> DEFINE at(i) == (i - 1) * h
  <2>2. at(d) + h <= at(e)
    BY <1>1, <2>1, Multiples
  <2> HIDE DEF at
  <2>3. window[d].top = at(d) /\ window[d].height = h /\ window[e].top = at(e)
    BY <1>5 DEF at
  <2> QED
    BY <2>2, <2>3
<1>8. \A d \in Devices : window[d] # NoWindow
  <2>1. NoWindow.height = 0 /\ h # 0
    BY <1>1 DEF NoWindow
  <2> QED
    BY <1>6, <2>1
<1>9. \A t \in Tiles : t \in Devices \/ t = Status \/ t = Dumb
  BY DEF Tiles, Status, Dumb, Devices
<1>10. \A t \in Tiles : OnLines(window[t])
  BY <1>1, <1>4, <1>6, <1>9 DEF OnLines, NoWindow
<1>11. \A t, u \in Tiles : t # u => Beside(window[t], window[u])
  <2>1. \A d, e \in Devices : d # e => d < e \/ e < d
    BY DEF Devices
  <2>2. \A d \in Devices : Beside(window[d], window[Status]) /\ Beside(window[Status], window[d])
    BY <1>4, <1>6 DEF Beside
  <2>3. \A d, e \in Devices : d # e => Beside(window[d], window[e])
    BY <1>7, <2>1 DEF Beside
  <2>4. \A t \in Tiles : Beside(window[t], window[Dumb]) /\ Beside(window[Dumb], window[t])
    BY <1>4 DEF Beside, NoWindow
  <2> QED
    BY <1>9, <2>2, <2>3, <2>4
<1> QED
  BY <1>4, <1>8, <1>10, <1>11 DEF Placed

(* One tile has the lines that the titles of the others leave: so it is    *)
(* when it is made, and when the user turns to another.                    *)
LEMMA OneActive ==
    ASSUME rows \in Nat \ {0}, count \in Nat \ {0}, rows > count, NEW a \in Devices, NEW height, NEW win,
           \A d \in Devices : height[d] = IF d = a THEN rows - count ELSE 1,
           win[Status] = [top |-> rows - 1, height |-> 1], win[Dumb] = NoWindow,
           \A d \in Devices : win[d] = [top |-> Above(height, d), height |-> height[d]]
    PROVE  Placed(win)
<1> DEFINE h == rows - count
<1>1. h \in Nat \ {0} /\ h + count = rows
  OBVIOUS
<1>2. a \in 1 .. count /\ \A d \in 1 .. count : height[d] = IF d = a THEN h ELSE 1
  BY DEF Devices
<1> HIDE DEF h
<1>3. \A d \in 1 .. count : Above(height, d) = TopOf(d, a, h)
  <2>1. h \in Nat /\ count \in Nat
    BY <1>1
  <2>2. OneTall(height, count, a, h)
    BY <1>2 DEF OneTall
  <2> QED
    BY <1>2, <2>1, <2>2, AboveActive
<1>4. ASSUME NEW d \in Devices
      PROVE  /\ win[d].top = IF d <= a THEN d - 1 ELSE d - 2 + h
             /\ win[d].height = IF d = a THEN h ELSE 1
  <2>0. win[d] = [top |-> Above(height, d), height |-> height[d]]
    OBVIOUS
  <2>1. win[d].top = Above(height, d) /\ win[d].height = height[d]
    BY <2>0
  <2>2. d \in 1 .. count
    BY DEF Devices
  <2> QED
    BY <1>2, <1>3, <2>1, <2>2 DEF TopOf
<1>5. ASSUME NEW d \in Devices
      PROVE  win[d].top \in Nat /\ win[d].height \in Nat \ {0} /\ win[d].top + win[d].height <= rows - 1
  <2>1. d \in 1 .. count
    BY DEF Devices
  <2> QED
    BY <1>1, <1>2, <1>4, <2>1
<1>6. ASSUME NEW d \in Devices, NEW e \in Devices, d < e
      PROVE  win[d].top + win[d].height <= win[e].top
  <2>1. d \in 1 .. count /\ e \in 1 .. count
    BY DEF Devices
  <2> QED
    BY <1>1, <1>2, <1>4, <1>6, <2>1
<1>7. \A d \in Devices : win[d] # NoWindow
  <2>1. NoWindow.height = 0
    BY DEF NoWindow
  <2> QED
    BY <1>5, <2>1
<1>8. \A t \in Tiles : t \in Devices \/ t = Status \/ t = Dumb
  BY DEF Tiles, Status, Dumb, Devices
<1>9. \A t \in Tiles : OnLines(win[t])
  BY <1>5, <1>8 DEF OnLines, NoWindow
<1>10. \A t, u \in Tiles : t # u => Beside(win[t], win[u])
  <2>1. \A d, e \in Devices : d # e => d < e \/ e < d
    BY DEF Devices
  <2>2. \A d \in Devices : Beside(win[d], win[Status]) /\ Beside(win[Status], win[d])
    BY <1>5 DEF Beside
  <2>3. \A d, e \in Devices : d # e => Beside(win[d], win[e])
    BY <1>6, <2>1 DEF Beside
  <2>4. \A t \in Tiles : Beside(win[t], win[Dumb]) /\ Beside(win[Dumb], win[t])
    BY DEF Beside, NoWindow
  <2> QED
    BY <1>8, <2>2, <2>3, <2>4
<1> QED
  BY <1>7, <1>9, <1>10 DEF Placed

LEMMA MadeOneContent ==
    ASSUME rows \in Nat \ {0}, count \in Nat \ {0}, active \in Devices, Mode = "ONE_CONTENT", window = MadeWindows
    PROVE  Placed(window)
<1> DEFINE height == [d \in Devices |-> Height(d)]
<1>1. rows > count
  <2>1. rows - 1 - count > MinContentHeight
    BY DEF Mode
  <2> QED
    BY <2>1, BarsAssumption
<1>2. \A d \in Devices : height[d] = IF d = active THEN rows - count ELSE 1
  BY DEF Height
<1>3. /\ Tiles = {Status, Dumb} \cup Devices
      /\ Status \notin Devices /\ Dumb \notin Devices /\ Status # Dumb
  BY DEF Tiles, Status, Dumb, Devices
<1>4. /\ window[Status] = [top |-> rows - 1, height |-> 1]
      /\ window[Dumb] = NoWindow
      /\ \A d \in Devices : window[d] = [top |-> Above(height, d), height |-> height[d]]
  BY <1>3 DEF MadeWindows, HasRoom
<1> HIDE DEF height
<1> QED
  BY <1>1, <1>2, <1>4, OneActive

LEMMA MadeNoContent ==
    ASSUME rows \in Nat \ {0}, count \in Nat \ {0}, Mode = "NO_CONTENT", window = MadeWindows
    PROVE  Placed(window)
<1> DEFINE height == [d \in Devices |-> Height(d)]
           room   == {d \in Devices : d < rows - 1}
<1>1. \A d \in Devices : Above(height, d) = d - 1
  <2>1. count \in Nat /\ 1 \in Nat /\ \A d \in 1 .. count : height[d] = 1
    BY DEF Height, Devices
  <2>2. \A d \in 1 .. count : Above(height, d) = (d - 1) * 1
    BY <2>1, AboveAlike
  <2> QED
    BY <2>2 DEF Devices
<1>2. \A d \in Devices : height[d] = 1
  BY DEF Height
<1>3. /\ Tiles = {Status, Dumb} \cup Devices
      /\ Status \notin Devices /\ Dumb \notin Devices /\ Status # Dumb
  BY DEF Tiles, Status, Dumb, Devices
<1>4. /\ window[Status] = [top |-> rows - 1, height |-> 1]
      /\ window[Dumb] = IF count >= rows - 1 /\ rows > 1 THEN [top |-> rows - 2, height |-> 1] ELSE NoWindow
      /\ \A d \in room : window[d] = [top |-> Above(height, d), height |-> height[d]]
      /\ \A d \in Devices \ room : window[d] = NoWindow
  BY <1>3 DEF MadeWindows, HasRoom
<1> HIDE DEF height
<1>5. ASSUME NEW d \in room
      PROVE  window[d].top = d - 1 /\ window[d].height = 1 /\ d \in Nat \ {0} /\ d < rows - 1
  <2>0. window[d] = [top |-> Above(height, d), height |-> height[d]] /\ d \in Devices
    BY <1>4 DEF room
  <2>1. window[d].top = Above(height, d) /\ window[d].height = height[d] /\ d \in Devices
    BY <2>0
  <2> QED
    BY <1>1, <1>2, <2>1 DEF Devices
<1>6. NoWindow.top = 0 /\ NoWindow.height = 0
  BY DEF NoWindow
<1>7. \A t \in Tiles : t \in room \/ t = Status \/ t = Dumb \/ window[t] = NoWindow
  BY <1>3, <1>4
<1>8. /\ window[Status].top = rows - 1 /\ window[Status].height = 1
      /\ window[Dumb] = NoWindow \/ (window[Dumb].top = rows - 2 /\ window[Dumb].height = 1 /\ rows > 1)
  BY <1>4
<1> HIDE DEF room
<1>9. \A t \in Tiles : OnLines(window[t])
  <2>1. \A d \in room : OnLines(window[d])
    BY <1>5 DEF OnLines
  <2>2. OnLines(window[Status]) /\ OnLines(window[Dumb]) /\ OnLines(NoWindow)
    BY <1>6, <1>8 DEF OnLines
  <2> QED
    BY <1>7, <2>1, <2>2
<1>10. \A t, u \in Tiles : t # u => Beside(window[t], window[u])
  <2>1. \A d, e \in room : d # e => Beside(window[d], window[e])
    BY <1>5 DEF Beside
  <2>2. \A d \in room : /\ Beside(window[d], window[Status]) /\ Beside(window[Status], window[d])
                        /\ Beside(window[d], window[Dumb]) /\ Beside(window[Dumb], window[d])
    BY <1>5, <1>6, <1>8 DEF Beside
  <2>3. Beside(window[Dumb], window[Status]) /\ Beside(window[Status], window[Dumb])
    BY <1>6, <1>8 DEF Beside
  <2>4. \A t \in Tiles : Beside(NoWindow, window[t]) /\ Beside(window[t], NoWindow)
    BY <1>6 DEF Beside
  <2> QED
    BY <1>7, <2>1, <2>2, <2>3, <2>4
<1>11. ASSUME NEW d \in Devices, window[d] = NoWindow PROVE count >= rows - 1
  <2>1. d \notin room
    BY <1>5, <1>6, <1>11
  <2> QED
    BY <2>1 DEF room, Devices
<1>12. window[Dumb] = NoWindow \/ \E d \in Devices : window[d] = NoWindow
  <2> SUFFICES ASSUME count >= rows - 1, rows > 1 PROVE window[count] = NoWindow /\ count \in Devices
    BY <1>4
  <2>1. count \in Devices \ room
    BY DEF Devices, room
  <2> QED
    BY <1>4, <2>1
<1> QED
  BY <1>4, <1>9, <1>10, <1>11, <1>12 DEF Placed

LEMMA Made == rows \in Nat \ {0} /\ count \in Nat \ {0} /\ active \in Devices /\ window = MadeWindows => Placed(window)
<1>1. Mode \in {"UNIFORM", "ONE_CONTENT", "NO_CONTENT"}
  BY DEF Mode
<1> QED
  BY <1>1, MadeUniform, MadeOneContent, MadeNoContent

(* What turning to another tile does.                                      *)
LEMMA Relay ==
    ASSUME rows \in Nat \ {0}, count \in Nat \ {0}, Placed(window), ~TabRaises, NEW a \in Devices
    PROVE  Placed(Relaid(a))
<1> DEFINE height == [d \in Devices |-> ActiveHeight(d, a)]
<1>1. rows > count
  BY DEF TabRaises
<1>2. \A d \in Devices : height[d] = IF d = a THEN rows - count ELSE 1
  BY DEF ActiveHeight
<1>3. /\ Tiles = {Status, Dumb} \cup Devices
      /\ Status \notin Devices /\ Dumb \notin Devices /\ Status # Dumb
  BY DEF Tiles, Status, Dumb, Devices
<1>4. window[Status] = [top |-> rows - 1, height |-> 1] /\ window[Dumb] = NoWindow
  BY DEF Placed, TabRaises
<1>5. /\ Relaid(a)[Status] = [top |-> rows - 1, height |-> 1]
      /\ Relaid(a)[Dumb] = NoWindow
      /\ \A d \in Devices : Relaid(a)[d] = [top |-> Above(height, d), height |-> height[d]]
  BY <1>3, <1>4 DEF Relaid
<1> HIDE DEF height
<1> QED
  BY <1>1, <1>2, <1>5, OneActive

LEMMA TurnedTo == count \in Nat \ {0} /\ active \in Devices =>
    /\ \A read : Turned(read) \in Devices
    /\ (active % count) + 1 \in Devices /\ ((active - 2) % count) + 1 \in Devices
<1> SUFFICES ASSUME count \in Nat \ {0}, active \in Devices
             PROVE  /\ \A read : Turned(read) \in Devices
                    /\ (active % count) + 1 \in Devices /\ ((active - 2) % count) + 1 \in Devices
  OBVIOUS
<1>1. \A n \in Int : (n % count) + 1 \in Devices
  BY DEF Devices
<1>2. active \in Int /\ active - 2 \in Int /\ active - 1 \in Int
  BY DEF Devices
<1>3. ASSUME NEW read PROVE Turned(read) \in Devices
  <2> DEFINE turn == (IF "tab" \in read THEN 1 ELSE 0) - (IF "backtab" \in read THEN 1 ELSE 0)
  <2>1. active - 1 + turn \in Int
    BY <1>2
  <2>2. Turned(read) = ((active - 1 + turn) % count) + 1
    BY DEF Turned
  <2> HIDE DEF turn
  <2> QED
    BY <1>1, <2>1, <2>2
<1> QED
  BY <1>1, <1>2, <1>3

(* Turning keeps the tiles apart, or raises for want of lines.             *)
LEMMA TurnStep ==
    ASSUME rows \in Nat \ {0}, count \in Nat \ {0}, active \in Devices, UNCHANGED <<rows, count>>,
           NEW read, NEW again, Turn(read, again)
    PROVE  /\ active' \in Devices
           /\ ~TabRaises /\ Placed(window) => Placed(window)'
           /\ TabRaises /\ Placed(window) => count >= rows - 1
<1>1. active' \in Devices
  BY TurnedTo DEF Turn
<1>2. ASSUME ~TabRaises, Placed(window) PROVE Placed(window)'
  <2>1. window' = Relaid(active') /\ active' \in Devices
    BY <1>1, <1>2 DEF Turn
  <2>2. Placed(window')
    BY <1>2, <2>1, Relay
  <2>3. Placed(window)' <=> Placed(window')
    BY DEF Placed, OnLines, Beside, Status, Devices, Tiles, Dumb, NoWindow
  <2> QED
    BY <2>2, <2>3
<1>3. ASSUME TabRaises, Placed(window) PROVE count >= rows - 1
  BY <1>3 DEF TabRaises, Placed
<1> QED
  BY <1>1, <1>2, <1>3

-----------------------------------------------------------------------------
(* The invariant, step by step.                                            *)
LEMMA BarsStart == Init => BarsInv
BY DEF Init, BarsInit, BarsInv, TabsAreHarmless

LEMMA OpenStep == BarsInv /\ Open => BarsInv'
<1> SUFFICES ASSUME BarsInv, Open PROVE BarsInv'
  OBVIOUS
<1>1. /\ pc' = "deploy" /\ state' = "OK" /\ refresher' = "runs"
      /\ rows' \in Nat \ {0} /\ count' \in Nat \ {0} /\ active' = count' /\ window' = MadeWindows'
  BY BarsAssumption DEF Open, Start
<1>2. active' \in Devices'
  BY <1>1 DEF Devices
<1>3. (rows \in Nat \ {0} /\ count \in Nat \ {0} /\ active \in Devices /\ window = MadeWindows => Placed(window))'
  BY Made, PTL
<1> QED
  BY <1>1, <1>2, <1>3 DEF BarsInv, TabsAreHarmless

(* What moves nothing of the tiles.                                        *)
LEMMA BarsStill ==
    ASSUME BarsInv, UNCHANGED <<rows, count, state, refresher, active, window, pc>>
    PROVE  BarsInv'
BY DEF BarsInv, TabsAreHarmless, Placed, OnLines, Beside, Status, Devices, Tiles, Dumb, NoWindow

(* The bars end, the terminal is left.                                     *)
LEMMA BarsEnd ==
    ASSUME BarsInv, pc \in {"deploy", "wait"}, state' = "CLOSED", UNCHANGED <<rows, count>>,
           pc' \in {"goes on", "driver raised", "ui raised"},
           refresher' \in {refresher, "none"}, pc' = "ui raised" => count >= rows - 1
    PROVE  BarsInv'
BY DEF BarsInv, TabsAreHarmless

LEMMA BarsStep == BarsInv /\ [Next]_vars => BarsInv'
<1> SUFFICES ASSUME BarsInv, [Next]_vars PROVE BarsInv'
  OBVIOUS
<1>1. CASE Ask
  BY <1>1, BarsStill DEF Ask, barVars
<1>2. CASE Decline
  BY <1>2 DEF Decline, barVars, BarsInv, TabsAreHarmless
<1>3. CASE Open
  BY <1>3, OpenStep
<1>4. CASE Deploying
  BY <1>4, BarsStill DEF Deploying, SetProgress, SetException, AddContent, Say
<1>5. CASE DriverReturns
  BY <1>5 DEF DriverReturns, Wait, BarsInv, TabsAreHarmless, Placed, OnLines, Beside, Status, Devices, Tiles, Dumb, NoWindow
<1>6. CASE DriverRaises
  BY <1>6, BarsEnd DEF DriverRaises, CloseRaising
<1>7. CASE Waiting
  <2>1. /\ pc = "wait" /\ pc' = "wait" /\ ~TabRaises /\ Turn(keys, FALSE)
        /\ UNCHANGED <<rows, count, state, refresher>>
    BY <1>7 DEF Waiting, ReadOn
  <2>2. /\ rows \in Nat \ {0} /\ count \in Nat \ {0} /\ active \in Devices
        /\ state = "WAIT_INPUT" /\ refresher \in {"runs", "failed"} /\ (refresher = "runs" => Placed(window))
    BY <2>1 DEF BarsInv
  <2>3. active' \in Devices /\ (refresher = "runs" => Placed(window)')
    BY <2>1, <2>2, TurnStep
  <2> QED
    BY <2>1, <2>2, <2>3 DEF BarsInv, TabsAreHarmless, Devices
<1>8. CASE Leave
  BY <1>8, BarsEnd DEF Leave, Quit
<1>9. CASE WaitRaises
  <2>1. TabRaises /\ pc = "wait" /\ pc' = "ui raised" /\ state' = "CLOSED" /\ UNCHANGED <<rows, count, refresher>>
    BY <1>9 DEF WaitRaises, CloseRaising
  <2>2. /\ rows \in Nat \ {0} /\ count \in Nat \ {0}
        /\ refresher = "failed" => count >= rows - 1
        /\ refresher # "failed" => Placed(window)
    BY <2>1 DEF BarsInv, TabsAreHarmless
  <2>3. CASE refresher = "failed"
    BY <2>1, <2>2, <2>3, BarsEnd
  <2>4. CASE Placed(window)
    <3>1. rows <= count \/ \E d \in Devices : window[d] = NoWindow
      BY <2>1 DEF TabRaises
    <3>2. count >= rows - 1
      BY <2>2, <2>4, <3>1 DEF Placed
    <3> QED
      BY <2>1, <3>2, BarsEnd
  <2> QED
    BY <2>2, <2>3, <2>4
<1>10. CASE User
  BY <1>10, BarsStill DEF User, Type
<1>11. CASE Refresher
  <2>1. refresher = "runs" /\ state # "CLOSED" /\ UNCHANGED <<rows, count, state, pc>>
    BY <1>11 DEF Refresher, Refresh
  <2>2. /\ pc \in {"deploy", "wait"} /\ rows \in Nat \ {0} /\ count \in Nat \ {0} /\ active \in Devices
        /\ Placed(window)
    BY <2>1 DEF BarsInv
  <2>3. CASE UNCHANGED <<active, window, refresher>>
    BY <2>1, <2>3, BarsStill
  <2>4. CASE Turn(keys, TRUE) /\ refresher' = IF TabRaises THEN "failed" ELSE "runs"
    <3>1. /\ active' \in Devices /\ (~TabRaises => Placed(window)') /\ (TabRaises => count >= rows - 1)
      BY <2>1, <2>2, <2>4, TurnStep
    <3> QED
      BY <2>1, <2>2, <2>4, <3>1 DEF BarsInv, TabsAreHarmless, Devices
  <2> QED
    BY <1>11, <2>3, <2>4 DEF Refresher, Refresh
<1>12. CASE UNCHANGED vars
  BY <1>12, BarsStill DEF vars, barVars
<1> QED
  BY <1>1, <1>2, <1>3, <1>4, <1>5, <1>6, <1>7, <1>8, <1>9, <1>10, <1>11, <1>12 DEF Next, WaitForExit

(* Tiles apart are on different lines.                                     *)
LEMMA PlacedFits == BarsInv => TilesFit
<1> SUFFICES ASSUME BarsInv, state \in {"OK", "WAIT_INPUT"}, refresher = "runs"
             PROVE  /\ \A t \in Tiles : Lines(t) \subseteq 0 .. rows - 1
                    /\ \A t, u \in Tiles : t # u => Lines(t) \cap Lines(u) = {}
  BY DEF TilesFit
<1>1. rows \in Nat \ {0} /\ Placed(window)
  BY DEF BarsInv
<1>2. \A t \in Tiles : OnLines(window[t])
  BY <1>1 DEF Placed
<1>3. \A t, u \in Tiles : t # u => Beside(window[t], window[u])
  BY <1>1 DEF Placed
<1>4. \A t \in Tiles : Lines(t) \subseteq 0 .. rows - 1
  BY <1>1, <1>2 DEF OnLines, Lines
<1>5. ASSUME NEW t \in Tiles, NEW u \in Tiles, t # u, NEW l \in Lines(t), l \in Lines(u) PROVE FALSE
  <2>1. OnLines(window[t]) /\ OnLines(window[u]) /\ Beside(window[t], window[u])
    BY <1>2, <1>3, <1>5
  <2> QED
    BY <1>5, <2>1 DEF OnLines, Beside, Lines
<1> QED
  BY <1>4, <1>5

(* Tiles are on the screen and apart, on a screen of any height, with any  *)
(* number of devices, whichever tile was turned to; and turning to another *)
(* does not lose the results while there are fewer devices than lines.     *)
THEOREM TilesAlwaysStand == Spec => []TilesStand
<1>1. BarsInv => TilesStand
  BY PlacedFits DEF TilesStand, BarsInv
<1>2. Spec => []BarsInv
  BY BarsStart, BarsStep, PTL DEF Spec
<1> QED
  BY <1>1, <1>2, PTL
=============================================================================
