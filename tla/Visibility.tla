------------------------------ MODULE Visibility ------------------------------
(***************************************************************************)
(* Which part of a window can be seen, and where bring_to_foreground clicks    *)
(* when the platform does not raise the window: observer/occlusion.py and      *)
(* observer/activation.py.  Rectangles are half open, as Bounds are; the       *)
(* margins and limits of the click are parameters.                            *)
(***************************************************************************)
EXTENDS Integers, Sequences, SequencesExt, FiniteSetsExt

CONSTANTS
    Screen,        \* get_screen_bounds: all monitors together
    LeftMargin, RightMargin, SafeWidth,   \* _LEFT_CONTROL_MARGIN and the others
    TitleOffset,   \* how far below the top edge a click goes at most
    Rects, Desks,  \* windows, and what lies above them
    Bars,          \* title bars found, as offsets from their window: none or one
    Attempts       \* what becomes of the platform's means: [means, outcome]

ASSUME ClickAssumption ==
    /\ LeftMargin \in Nat /\ RightMargin \in Nat
    /\ SafeWidth \in Nat /\ TitleOffset \in Nat

Rectangles == [x : Int, y : Int, w : Int, h : Int]

ASSUME DesktopAssumption ==
    /\ Screen \in Rectangles /\ Rects \subseteq Rectangles
    /\ \A above \in Desks : above \in Seq(Rectangles)
    /\ \A found \in Bars : found \subseteq Rectangles /\ \A b, c \in found : b = c

Rect(x, y, w, h) == [x |-> x, y |-> y, w |-> w, h |-> h]
Right(r) == r.x + r.w
Bottom(r) == r.y + r.h
Empty(r) == r.w <= 0 \/ r.h <= 0
Pixels(r) == (r.x .. Right(r) - 1) \X (r.y .. Bottom(r) - 1)
PixelsOf(rects) == UNION {Pixels(r) : r \in rects}

Least(a, b) == IF a < b THEN a ELSE b
Most(a, b) == IF a < b THEN b ELSE a
Clamped(low, v, high) == Most(low, Least(high, v))

(* _intersect_bounds; an empty rectangle stands for None. *)
Intersect(a, b) ==
    LET x == Most(a.x, b.x)  y == Most(a.y, b.y)
    IN  Rect(x, y, Least(Right(a), Right(b)) - x, Least(Bottom(a), Bottom(b)) - y)

(* A strip is kept unless it is empty. *)
Kept(r) == IF Empty(r) THEN <<>> ELSE <<r>>

(* Mutant of Strips: the strips at the sides are as high as the rectangle. *)
StripsOverlapping(r, o) ==
    LET i == Intersect(r, o)
    IN  Kept(Rect(r.x, r.y, r.w, i.y - r.y))
        \o Kept(Rect(r.x, Bottom(i), r.w, Bottom(r) - Bottom(i)))
        \o Kept(Rect(r.x, r.y, i.x - r.x, r.h))
        \o Kept(Rect(Right(i), r.y, Right(r) - Right(i), r.h))

(* What is left of r around its common part with o: above, below, and at the    *)
(* sides of it; any of them may be empty.                                      *)
Around(r, o) ==
    LET i == Intersect(r, o)
    IN  <<Rect(r.x, r.y, r.w, i.y - r.y),
          Rect(r.x, Bottom(i), r.w, Bottom(r) - Bottom(i)),
          Rect(r.x, i.y, i.x - r.x, i.h),
          Rect(Right(i), i.y, Right(r) - Right(i), i.h)>>
Strips(r, o) ==
    LET s == Around(r, o) IN Kept(s[1]) \o Kept(s[2]) \o Kept(s[3]) \o Kept(s[4])

(* _subtract_rect. *)
Subtract(rects, o) ==
    FlattenSeq([k \in DOMAIN rects |->
        IF Empty(Intersect(rects[k], o)) THEN <<rects[k]>> ELSE Strips(rects[k], o)])

(* get_visible_areas of a window with others above it: they are taken away one  *)
(* after the other.                                                          *)
VisibleAreas(window, above) ==
    LET clipped == Intersect(window, Screen)
        left[k \in 0 .. Len(above)] ==
            IF k = 0 THEN <<clipped>> ELSE Subtract(left[k - 1], above[k])
    IN  IF Empty(clipped) THEN <<>> ELSE left[Len(above)]

(* is_element_occluded: no pixel of the element is left. *)
IsOccluded(element, above) == VisibleAreas(element, above) = <<>>
-------------------------------------------------------------------------------
(* The attempts to raise the window by the platform's own means, and what       *)
(* became of each: done, failed, missing (no such program), broke (raised).     *)
Means ==
    [Windows |-> <<"foreground", "attach", "keybd", "top">>,
     Darwin  |-> <<"activate">>,
     Linux   |-> <<"wmctrl", "xdotool">>]
Outcomes == {"done", "failed", "missing", "broke"}

(* _activate_windows, _activate_macos, _activate_linux: one attempt after the   *)
(* other, until one works or raises; a program that is missing is passed over. *)
ActivatedViaApi(means, outcome) ==
    \E m \in DOMAIN means :
       /\ outcome[means[m]] = "done"
       /\ \A n \in 1 .. m - 1 : outcome[means[n]] # "broke"

(* The region to click in: the highest, the widest of those. *)
Best(regions) ==
    LET top == {r \in ToSet(regions) : \A s \in ToSet(regions) : r.y <= s.y}
        SameAsFirst(k) == /\ regions[k] \in top
                          /\ \A s \in top : regions[k].w >= s.w
    IN  regions[Min({k \in DOMAIN regions : SameAsFirst(k)})]

(* _title_bar_click_point: a quarter into what is visible of the title bar the   *)
(* tree tells of, clear of the controls at both ends ...                       *)
InTitleBar(bar, region) ==
    LET v == Intersect(bar, region)
        low  == v.x + Least(LeftMargin, v.w \div 4)
        high == Right(v) - Least(RightMargin, v.w \div 4)
    IN  <<IF high <= low THEN (v.x + Right(v)) \div 2
          ELSE Clamped(low, v.x + v.w \div 4, high),
          v.y + Most(1, v.h \div 2)>>

(* ... or near the top of the region. *)
InRegion(r) ==
    LET low  == r.x + LeftMargin
        high == Right(r) - RightMargin
        x == IF r.w < SafeWidth \/ high <= low THEN r.x + r.w \div 2
             ELSE Clamped(low, r.x + r.w \div 4, high)
        y == r.y + Least(TitleOffset, Most(1, (r.h - 1) \div 2))
    IN  <<Clamped(r.x, x, Right(r) - 1), Clamped(r.y, y, Bottom(r) - 1)>>

ClickPoint(bars, region) ==
    IF \E b \in bars : ~ Empty(Intersect(b, region))
    THEN InTitleBar(CHOOSE b \in bars : TRUE, region)
    ELSE InRegion(region)

(* bring_to_foreground, given the title bar found, if any: the platform's means  *)
(* first, a click on the title bar if something of the window can be seen.     *)
Raise(window, above, bars, means, outcome) ==
    LET regions == VisibleAreas(window, above)
    IN  IF ActivatedViaApi(means, outcome) THEN [how |-> "api", point |-> {}]
        ELSE IF regions = <<>> THEN [how |-> "error", point |-> {}]
        ELSE [how |-> "click", point |-> {ClickPoint(bars, Best(regions))}]
-------------------------------------------------------------------------------
VARIABLE desk    \* the desktop of the call: window, those above it, bar, attempt

NoDesk == <<>>
RaiseInit == desk = NoDesk
RaiseNext == desk = NoDesk /\ desk' \in Rects \X Desks \X Bars \X Attempts
RaiseSpec == RaiseInit /\ [][RaiseNext]_desk
-------------------------------------------------------------------------------
(* The pixels of the window a user sees. *)
Seen(window, above) == (Pixels(window) \cap Pixels(Screen)) \ PixelsOf(ToSet(above))

(* All that shows of the bar in the region is the last row of it. *)
LastRow(bar, region) ==
    LET v == Intersect(bar, region) IN v.h = 1 /\ Bottom(v) = Bottom(region)

(* The visible areas of a window are apart from one another and together the    *)
(* pixels of it that are on the screen and under no other window; an element is   *)
(* occluded just when it has none.  The click that raises a window lands on one  *)
(* of them, whatever the title bar is found to be, unless the bar shows only in  *)
(* the last row of its region (get_visible_areas, _title_bar_click_point).      *)
RaiseHitsTheWindow ==
    desk # NoDesk =>
        LET window == desk[1]
            above  == desk[2]
            areas  == VisibleAreas(window, above)
            bars   == {Rect(window.x + b.x, window.y + b.y, b.w, b.h) : b \in desk[3]}
            raised == Raise(window, above, bars, desk[4].means, desk[4].outcome)
        IN  /\ PixelsOf(ToSet(areas)) = Seen(window, above)
            /\ \A i, j \in DOMAIN areas : i # j => Empty(Intersect(areas[i], areas[j]))
            /\ IsOccluded(window, above) <=> Seen(window, above) = {}
            /\ raised.how = "click" =>
                  \/ raised.point \subseteq Seen(window, above)
                  \/ \E b \in bars : LastRow(b, Best(areas))
===============================================================================
