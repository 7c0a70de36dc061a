------------------------------- MODULE Popups -------------------------------
(***************************************************************************)
(* The widgets that appear as ImGui popups: Window in its modes Modal and  *)
(* Popup (and Normal, which is an ordinary window), and MessageBox.  Their *)
(* widget keeps an open flag and a request to open; ImGui keeps one popup  *)
(* open per level, and closes it on its own when another one is opened or  *)
(* the user clicks outside.  The two have to find each other again in the  *)
(* next frame, while the slots of closed and finished open and close       *)
(* dialogs.                                                                *)
(***************************************************************************)
CONSTANTS Windows, Boxes,   \* the Window and the MessageBox widgets
          None              \* no popup

Dialogs == Windows \cup Boxes

VARIABLES mode,      \* mode[w]: m_mode of a Window; a MessageBox is always "Modal"
          button,    \* button[w]: the window has a close button and is enabled
          open,      \* the dialogs whose m_open is set
          requested, \* the dialogs whose m_popupOpenRequested or m_openRequested is set
          due,       \* the dialogs whose listeners wait to hear that they closed
          popup,     \* ImGui: the popup that is open
          frame      \* the dialog that the last step drew, None: it drew none

popupVars == <<mode, button, open, requested, due, popup, frame>>

Init ==
    /\ mode = [w \in Windows |-> "Normal"]
    /\ button = [w \in Windows |-> FALSE]
    /\ open = Windows
    /\ requested = {}
    /\ due = Windows
    /\ popup = None
    /\ frame = None

\* The three flags of one dialog, as a handler passes them on.
Flags(d) == [open |-> d \in open, requested |-> d \in requested, due |-> d \in due, popup |-> popup]

Set(S, d, b) == IF b THEN S \cup {d} ELSE S \ {d}

Become(d, f) ==
    /\ open' = Set(open, d, f.open)
    /\ requested' = Set(requested, d, f.requested)
    /\ due' = Set(due, d, f.due)
    /\ popup' = f.popup
    /\ UNCHANGED <<mode, button>>

\* open() of a window and of a message box.
Opened(f, isPopup) ==
    [f EXCEPT !.open = TRUE, !.due = TRUE, !.requested = isPopup \/ f.requested]

\* setOpenInternal(false, true): one signal for a window that was open, whose
\* slot may open it again.
Closed(w, f, again) ==
    LET told == [f EXCEPT !.open = FALSE, !.due = FALSE]
    IN  IF ~f.open THEN f
        ELSE IF again THEN Opened(told, mode[w] # "Normal") ELSE told

\* Mutant: the early return for a result that was set before is all there is.
Finished_Silent(f, again) == [f EXCEPT !.open = FALSE, !.requested = FALSE]

\* finish(): finished is emitted for a box that was open.
Finished(f, again) ==
    LET told == [f EXCEPT !.open = FALSE, !.requested = FALSE, !.due = FALSE]
    IN  IF ~f.open THEN [f EXCEPT !.requested = FALSE]
        ELSE IF again THEN Opened(told, TRUE) ELSE told

OpenWindow(w) == frame' = None /\ Become(w, Opened(Flags(w), mode[w] # "Normal"))

OpenBox(b) == frame' = None /\ Become(b, Opened(Flags(b), TRUE))

CloseWindow(w) == frame' = None /\ Become(w, Closed(w, Flags(w), FALSE))

\* close(), accept(), reject(), cancel(), yes() and no().
FinishBox(b) == frame' = None /\ \E again \in BOOLEAN : Become(b, Finished(Flags(b), again))

SetMode(w, m) ==
    /\ m # mode[w]
    /\ mode' = [mode EXCEPT ![w] = m]
    /\ requested' = Set(requested, w, w \in requested \/ (w \in open /\ m # "Normal"))
    /\ frame' = None
    /\ UNCHANGED <<button, open, due, popup>>

SetCloseButtonVisible(w) ==
    /\ button' = [button EXCEPT ![w] = ~@]
    /\ frame' = None
    /\ UNCHANGED <<mode, open, requested, due, popup>>

\* OpenPopup(): it takes the place of the popup that was open.
Requested(d, f) == IF f.requested THEN [f EXCEPT !.popup = d, !.requested = FALSE] ELSE f

\* A frame of a Normal window: the user may press its close button.
RenderNormal(w, pressed) ==
    /\ w \in open /\ mode[w] = "Normal"
    /\ pressed => button[w]
    /\ frame' = w
    /\ Become(w, IF pressed THEN Closed(w, Flags(w), FALSE) ELSE Flags(w))

\* Mutant: a popup that ImGui closed leaves its window open.
ClosedByImGui_Ignored(w, f, again) == f

\* BeginPopup() or BeginPopupModal() returned false: the popup is not open.
ClosedByImGui(w, f, again) == IF f.popup = w THEN f ELSE Closed(w, f, again)

\* A frame of a Modal or Popup window.  BeginPopupModal() clears the flag of
\* the close button when the button is pressed and also when the popup is not
\* open any more, so that both ifs at the end can apply in one frame: a window
\* that the slot of the first opened again is closed by the second.
RenderPopup(w, does) ==
    \E again \in BOOLEAN :
        LET asked == Requested(w, Flags(w))
            modal == mode[w] = "Modal"
            ends  == asked.popup = w /\ does
            after == IF ends THEN [asked EXCEPT !.popup = None] ELSE asked
            first == IF after.popup = w THEN after ELSE ClosedByImGui(w, after, again)
            last  == IF modal /\ button[w] /\ after.popup # w THEN Closed(w, first, FALSE) ELSE first
        IN  /\ w \in open /\ mode[w] # "Normal"
            /\ does => (modal => button[w])
            /\ frame' = w
            /\ Become(w, last)

\* A frame of a message box: one of its buttons, its close button, or nothing.
RenderBox(b, does) ==
    \E again \in BOOLEAN :
        LET asked == Requested(b, Flags(b))
            after == IF asked.popup = b /\ does # "none" THEN [asked EXCEPT !.popup = None] ELSE asked
        IN  /\ b \in open
            /\ frame' = b
            /\ Become(b, IF after.popup = b THEN after ELSE Finished(after, again))

\* Another popup of the program, or a click outside of a regular popup.
ImGuiCloses ==
    /\ popup # None
    /\ popup' = None
    /\ frame' = None
    /\ UNCHANGED <<mode, button, open, requested, due>>

Next ==
    \/ \E w \in Windows : OpenWindow(w)
    \/ \E w \in Windows : CloseWindow(w)
    \/ \E w \in Windows, m \in {"Normal", "Popup", "Modal"} : SetMode(w, m)
    \/ \E w \in Windows : SetCloseButtonVisible(w)
    \/ \E w \in Windows, pressed \in BOOLEAN : RenderNormal(w, pressed)
    \/ \E w \in Windows, does \in BOOLEAN : RenderPopup(w, does)
    \/ \E b \in Boxes : OpenBox(b)
    \/ \E b \in Boxes : FinishBox(b)
    \/ \E b \in Boxes, does \in {"none", "close", "button"} : RenderBox(b, does)
    \/ ImGuiCloses

Spec == Init /\ [][Next]_popupVars

-----------------------------------------------------------------------------
\* Every dialog that closes tells its listeners, once per opening, and one
\* that is closed is not waiting to hear anything.
ClosingIsReported == due = open

\* A frame leaves no dialog open that ImGui does not show: a popup that was
\* closed, or displaced by another one, is noticed when it is drawn next.  A
\* dialog that is waiting to be shown is an open one.
OpenIsShown ==
    /\ \A d \in Dialogs :
        (frame = d /\ d \in open \ requested /\ (d \in Windows => mode[d] # "Normal")) => popup = d
    /\ \A w \in Boxes : w \in requested => w \in open

\* Window and MessageBox agree with ImGui about what is open, and say so.
DialogsConsistent == ClosingIsReported /\ OpenIsShown

-----------------------------------------------------------------------------
(* What DialogsConsistent rests on.                                        *)

Modes == {"Normal", "Popup", "Modal"}

TypeOK ==
    /\ mode \in [Windows -> Modes]
    /\ open \subseteq Dialogs /\ requested \subseteq Dialogs /\ due \subseteq Dialogs
    /\ popup \in Dialogs \union {None}

Inv == TypeOK /\ DialogsConsistent
=============================================================================
