------------------------------ MODULE AskConfirm ------------------------------
(***************************************************************************)
(* The pager of annet/deploy_ui.py that shows a text on a curses pad and   *)
(* asks whether to execute it.  A text is a sequence of lines, a line      *)
(* [len, hits]: its length and the offsets at which the pattern searched   *)
(* for matches.  Lines, columns and offsets count from 0; lines end with   *)
(* "\n" only.                                                              *)
(*                                                                         *)
(* An exception in the loop is logged and the answer is "" (Died); curses  *)
(* raises when a pad is refreshed from beyond its end or written outside.  *)
(* The terminal is not resized.                                            *)
(***************************************************************************)
EXTENDS Integers, SequencesExt, FiniteSetsExt

CONSTANTS Texts,        \* the pairs of text and alternative text
          MaxY, MaxX,   \* max_y, the last line of the screen a text is on; columns
          PageKeys,     \* 10, lines KEY_PPAGE and KEY_NPAGE move by
          SearchMargin, \* 10, lines of margin around a hit
          PromptLen,    \* the length of the prompt
          DebugLen,     \* and of the debug line, whatever its numbers
          NcursesSize   \* NCURSES_SIZE_T

ASSUME PagerAssumption == /\ {MaxY, MaxX, PageKeys, SearchMargin, PromptLen, DebugLen} \subseteq Nat \ {0}
                          /\ NcursesSize \in Nat /\ NcursesSize > 3

AnyLine == [len : Nat, hits : SUBSET Nat]
ASSUME TextsAssumption == \A pair \in Texts : pair[1] \in Seq(AnyLine) /\ pair[2] \in Seq(AnyLine)

VARIABLES text, alternative,
          y, x,         \* the cursor, kept by the pad
          top, left,    \* what part of the pad is on the screen
          found,        \* found_pos: a set of <<line, offset>>
          debug,        \* the debug line is on
          answer

pagerVars == <<text, alternative, y, x, top, left, found, debug, answer>>

Died == ""

-----------------------------------------------------------------------------
(* _parse_text: a text that is too long for a pad loses its end and gets a *)
(* warning at both.                                                        *)
Warning == [len |-> 1, hits |-> {}]
TooLong(t) == Len(t) + 1 >= NcursesSize
Parsed(t)  == IF TooLong(t) THEN <<Warning>> \o SubSeq(t, 1, NcursesSize - 3) \o <<Warning>> ELSE t
Rows(t) == Len(Parsed(t))
Cols(t) == Max({line.len : line \in ToSet(Parsed(t))})

(* len(self.lines): the lexer of pygments drops empty lines at both ends,  *)
(* but for one when there is nothing else.                                 *)
Full(t)     == {i \in 1 .. Rows(t) : Parsed(t)[i].len > 0}
NumLines(t) == IF Full(t) = {} THEN 1 ELSE Max(Full(t)) - Min(Full(t)) + 1

(* Parsing or making the pad raises.                                       *)
NoPad(t) == t = <<>> \/ Cols(t) = 0
(* show: _add_prompt writes on the last line of the screen, and not in its *)
(* last column; the page position is shorter than the prompt.              *)
Unprompted == MaxX <= PromptLen \/ (debug' /\ MaxX <= DebugLen)
(* show: pad.refresh(top, left, ...)                                       *)
OffPad(t)  == top' > Rows(t) \/ left' >= Cols(t)
Unshown(t) == Unprompted \/ OffPad(t)

Clamp(lo, n, hi) == Min({hi, Max({lo, n})})

(* _store_xy around _init_pad: the new pad gets the cursor of the old one. *)
NewPad(t) == /\ y' = Min({Rows(t), y})
             /\ x' = Min({Cols(t) - 1, x})

Asked == answer = "none"

(* q, y, f, Ctrl+C.                                                        *)
Answer(key) == /\ Asked
               /\ answer' = key
               /\ UNCHANGED <<text, alternative, y, x, top, left, found, debug>>

-----------------------------------------------------------------------------
(* a: the texts change places.                                             *)
Toggle ==
    /\ Asked
    /\ text' = alternative /\ alternative' = text
    /\ UNCHANGED <<top, left, found, debug>>
    /\ IF NoPad(alternative) \/ Unshown(alternative) THEN answer' = Died /\ UNCHANGED <<y, x>>
       ELSE UNCHANGED answer /\ NewPad(alternative)

(* Mutants of Follow: the margin is left on the wrong side; the cursor's   *)
(* line becomes the first.                                                 *)
FollowBelow(margin, y1) ==
    LET below == y1 - (top + MaxY + margin)
    IN Min({NumLines(text) - MaxY, IF below > 0 THEN top + below ELSE IF y1 - margin < top THEN y1 ELSE top})
FollowTop(margin, y1) ==
    IF y1 > top + MaxY - margin \/ y1 - margin < top THEN y1 ELSE top

(* What is shown follows the cursor.                                       *)
Follow(margin, y1) ==
    LET below == y1 - (top + MaxY - margin)
    IN Min({NumLines(text) - MaxY, IF below > 0 THEN top + below ELSE IF y1 - margin < top THEN y1 ELSE top})
(* A mutant of FollowLeft: what is shown ends two columns further left.    *)
FollowLeftLate(x1) ==
    LET right == x1 - (left + MaxX + 2)
    IN IF right > 0 THEN left + right ELSE IF x1 < left THEN x1 ELSE left
FollowLeft(x1) ==
    LET right == x1 - (left + MaxX)
    IN IF right > 0 THEN left + right ELSE IF x1 < left THEN x1 ELSE left

(* The end of a round: the cursor moves, inside the pad, and show().       *)
Move(dy, dx, margin) ==
    LET y1 == Clamp(0, y + dy, Rows(text))
        x1 == Clamp(0, x + dx, Cols(text))
    IN /\ IF dy = 0 /\ dx = 0 THEN UNCHANGED <<y, x, top, left>>
          ELSE /\ top' = Follow(margin, y1) /\ left' = FollowLeft(x1)
               /\ y' = y1 /\ x' = Min({x1, Cols(text) - 1})
       /\ answer' = IF Unshown(text) THEN Died ELSE answer

Scroll(dy, dx) == /\ Asked
                  /\ UNCHANGED <<text, alternative, found, debug>>
                  /\ Move(dy, dx, 0)

(* d.                                                                      *)
Debug == /\ Asked
         /\ debug' = ~debug
         /\ Move(0, 0, 0)
         /\ UNCHANGED <<text, alternative, found>>

(* Arrows, pages, Home and End.                                            *)
Cursor == \/ \E dy \in {-1, 1, -PageKeys, PageKeys, -NumLines(text), NumLines(text)} : Scroll(dy, 0)
          \/ \E dx \in {-1, 1} : Scroll(0, dx)

Before(h, k) == h[1] < k[1] \/ (h[1] = k[1] /\ h[2] < k[2])

(* search_next: the first hit after the cursor; backwards, the first hit   *)
(* of the last line that has one before it.                                *)
SearchNext(hits) ==
    LET after == {h \in hits : Before(<<y, x>>, h)}
    IN IF after = {} THEN <<y, x>> ELSE CHOOSE h \in after : \A k \in after : h = k \/ Before(h, k)
SearchPrev(hits) ==
    LET before == {h \in hits : Before(h, <<y, x>>)}
        line   == Max({h[1] : h \in before})
    IN IF before = {} THEN <<y, x>> ELSE <<line, Min({h[2] : h \in {k \in before : k[1] = line}})>>

JumpTo(h) == Move(h[1] - y, h[2] - x, SearchMargin)

(* n and N, in whatever text the hits were found.                          *)
Jump == /\ Asked
        /\ UNCHANGED <<text, alternative, found, debug>>
        /\ JumpTo(SearchNext(found)) \/ JumpTo(SearchPrev(found))

(* /: all hits, in the text as it was given, then the first one after the  *)
(* cursor.  Some patterns match nowhere or are no patterns.                *)
HitsOf(t) == UNION {{i - 1} \X t[i].hits : i \in DOMAIN t}
Unrendered(hits) == \E h \in hits : h[1] > Rows(text) \/ h[2] >= Cols(text)
Search(hits) ==
    /\ Asked
    /\ found' = hits /\ UNCHANGED <<text, alternative, debug>>
    /\ IF Unrendered(hits) THEN answer' = Died /\ UNCHANGED <<y, x, top, left>>
       ELSE JumpTo(SearchNext(hits))

-----------------------------------------------------------------------------
PagerInit ==
    /\ \E pair \in Texts : text = pair[1] /\ alternative = pair[2]
    /\ y = 0 /\ x = 0 /\ top = 0 /\ left = 0
    /\ found = {} /\ debug = FALSE
    /\ answer = IF NoPad(text) \/ MaxX <= PromptLen THEN Died ELSE "none"

(* The pager is gone, but for its answer.                                  *)
Gone == /\ text' = <<>> /\ alternative' = <<>> /\ found' = {} /\ debug' = FALSE
        /\ y' = 0 /\ x' = 0 /\ top' = 0 /\ left' = 0
        /\ UNCHANGED answer

Pager ==
    \/ \E key \in {"y", "exit", "force-yes", "n"} : Answer(key)
    \/ Toggle \/ Debug \/ Cursor \/ Jump
    \/ \E hits \in {HitsOf(text), {}} : Search(hits)
=============================================================================
