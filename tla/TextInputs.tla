----------------------------- MODULE TextInputs -----------------------------
(***************************************************************************)
(* The widgets in which the user types.  SpinBox keeps an int, LineEdit    *)
(* and TextEdit a string, next to the character buffer that ImGui edits in *)
(* place: while the field is active ImGui writes its own text into the     *)
(* buffer in every frame, and the widget has to bring value and buffer     *)
(* together again.  A text is abstracted to its length, a number to what   *)
(* strtol() makes of it.                                                   *)
(***************************************************************************)
EXTENDS Integers, FiniteSetsExt

CONSTANTS IntSize,         \* int reaches from -IntSize to IntSize - 1
          Idle,            \* no text: the field is not active
          NaN,             \* a text that is not a number: empty, or "-"
          InitialCapacity, \* k_initialCapacity
          Margin,          \* the room below which a frame grows the buffer: 64 or 128
          MaxText          \* bound: the length of a text

IntMin == -IntSize
IntMax == IntSize - 1
Ints == IntMin..IntMax

\* What the user types into the spin box; the last is not an int.
Typed == {NaN, -2, 2, IntSize}

VARIABLES spin,      \* SpinBox: [value, min, max, step, buffer]
          field,     \* ImGui: the text of the active spin box, Idle: it is not active
          heard,     \* the last value of valueChanged, Idle: there is none, or a
                     \* setter, which emits nothing, has changed the value since
          text,      \* LineEdit, TextEdit: the length of m_text
          size,      \* m_buffer.size()
          lost       \* characters typed in the last frame that did not fit

inputVars == <<spin, field, heard, text, size, lost>>

Init ==
    /\ spin = [value |-> 0, min |-> 0, max |-> IntMax, step |-> 1, buffer |-> 0]
    /\ field = Idle
    /\ heard = Idle
    /\ text = 0
    /\ size = InitialCapacity
    /\ lost = 0

Clamp(v, s) == Min({Max({v, s.min}), s.max})

\* m_value = ..., syncBuffer().
Holding(s, v) == [s EXCEPT !.value = v, !.buffer = v]

\* A setter tells nobody; commitBufferValue() and applyStep() emit what is new.
Quietly(s) ==
    /\ spin' = s
    /\ heard' = IF s.value # spin.value THEN Idle ELSE heard
    /\ UNCHANGED <<text, size, lost>>

Becomes(s) ==
    /\ spin' = s
    /\ heard' = IF s.value # spin.value THEN s.value ELSE heard
    /\ UNCHANGED <<text, size, lost>>

SetValue(v) == Quietly(Holding(spin, Clamp(v, spin))) /\ UNCHANGED field

\* setRange(): normalizeRange() swaps the ends.
SetRange(a, b) ==
    LET s == [spin EXCEPT !.min = Min({a, b}), !.max = Max({a, b})]
    IN  Quietly(Holding(s, Clamp(spin.value, s))) /\ UNCHANGED field

\* setStep(): nothing for a step that is not positive.
SetStep(n) ==
    /\ spin' = IF n > 0 THEN [spin EXCEPT !.step = n] ELSE spin
    /\ UNCHANGED <<field, heard, text, size, lost>>

\* Mutant: the sum is an int, and wraps around.
Stepped_Wraps(s, direction) ==
    LET span == IntMax - IntMin + 1
    IN  Clamp(((s.value + direction * s.step - IntMin) % span) + IntMin, s)

\* applyStep(): the sum is a long long, so that it does not overflow.
Stepped(s, direction) == Clamp(s.value + direction * s.step, s)

PressButton(direction) ==
    /\ field = Idle
    /\ Becomes(Holding(spin, Stepped(spin, direction)))
    /\ UNCHANGED field

\* sanitizeBuffer() and decimalInputFilter(): no minus below a minimum of 0.
Sanitized(s, t) ==
    IF t = NaN \/ s.min < 0 THEN t ELSE IF t < 0 THEN -t ELSE t

\* commitBufferValue(): what is not an int does not change the value, and is
\* replaced in the buffer only when the editing is over.
Commit(s, t, normalizeInvalid) ==
    LET n == Sanitized(s, t)
    IN  IF n = NaN \/ n \notin Ints
        THEN [s EXCEPT !.buffer = IF normalizeInvalid THEN s.value ELSE n]
        ELSE Holding(s, Clamp(n, s))

\* The user clicks into the field.
Activate == field = Idle /\ field' = spin.buffer /\ UNCHANGED <<spin, heard, text, size, lost>>

\* A frame in which the user types: IsItemEdited().
Type(t) ==
    /\ field # Idle /\ t # field
    /\ field' = t
    /\ Becomes(Commit(spin, t, FALSE))

\* A frame in which the field is active: ImGui puts its own text back over
\* what the widget or the program wrote into the buffer.
ActiveFrame ==
    /\ field # Idle /\ field # spin.buffer
    /\ field' = field
    /\ Becomes(Commit(spin, field, FALSE))

\* Enter ends the editing and returns true: this is the branch of an edit, so
\* that a text that is no int stays in the buffer.
PressEnter ==
    /\ field # Idle
    /\ field' = Idle
    /\ Becomes(Commit(spin, field, FALSE))

\* IsItemDeactivatedAfterEdit(): the focus leaves the field.
Deactivate ==
    /\ field # Idle
    /\ field' = Idle
    /\ Becomes(Commit(spin, spin.buffer, TRUE))

\* setText(), clear() of LineEdit and TextEdit, and syncBuffer(): the buffer
\* only grows.
SetText(n) ==
    /\ text' = n
    /\ size' = Max({size, n + InitialCapacity})
    /\ UNCHANGED <<spin, field, heard, lost>>

\* The buffer is grown before ImGui gets it if the text has come near its end.
Grown(n, s) == IF n + Margin >= s THEN s + InitialCapacity ELSE s

\* renderInputText(), renderInput(): a frame in which the user has made the
\* text n characters long; what does not fit is not taken.
RenderText(n) ==
    /\ size' = Grown(text, size)
    /\ text' = Min({n, size' - 1})
    /\ lost' = IF n <= text + Margin THEN n - text' ELSE 0
    /\ UNCHANGED <<spin, field, heard>>

Next ==
    \/ \E v \in Ints : SetValue(v)
    \/ \E a, b \in {IntMin, -1, 0, IntMax} : SetRange(a, b)
    \/ \E n \in {-1, 1, IntMax} : SetStep(n)
    \/ \E direction \in {-1, 1} : PressButton(direction)
    \/ Activate
    \/ \E t \in Typed : Type(t)
    \/ ActiveFrame
    \/ PressEnter
    \/ Deactivate
    \/ \E n \in 0..MaxText : SetText(n)
    \/ \E n \in 0..MaxText : RenderText(n)

Spec == Init /\ [][Next]_inputVars

-----------------------------------------------------------------------------
\* The value stays in its range at the ends of int, and every change that the
\* user makes reaches the listeners: what they heard last is the value, unless
\* a setter has changed it since.  A field that nobody edits shows the value, or
\* the text that is no int on which Enter was pressed: never another int.
SpinBoxConsistent ==
    /\ spin.min <= spin.value /\ spin.value <= spin.max
    /\ heard \in {Idle, spin.value}
    /\ field = Idle => spin.buffer \in {spin.value, NaN} \/ spin.buffer \notin Ints

\* The buffer has room for the text and its end, and for what a user types in
\* one frame (Margin characters, at most).
TextFits == text < size /\ lost = 0

\* The step buttons move the value by the step, or to the end of the range.
StepsAreExact ==
    \A direction \in {-1, 1} :
        LET sum == spin.value + direction * spin.step
        IN  Stepped(spin, direction) =
                IF sum > spin.max THEN spin.max ELSE IF sum < spin.min THEN spin.min ELSE sum

\* What the user typed and what the program holds come together again.
InputsConsistent == SpinBoxConsistent /\ StepsAreExact /\ TextFits

-----------------------------------------------------------------------------
(* What InputsConsistent rests on.                                         *)

TypeOK ==
    /\ spin \in [value : Int, min : Int, max : Int, step : Int, buffer : Int \union {NaN}]
    /\ field \in Int \union {NaN, Idle}
    /\ text \in Nat /\ size \in Nat

Inv ==
    /\ TypeOK /\ SpinBoxConsistent
    /\ spin.step > 0
    /\ TextFits
=============================================================================
