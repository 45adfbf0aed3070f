----------------------------- MODULE LineEditor -----------------------------
(***************************************************************************)
(* What the shell's line promises: a text with a cursor in it, the lines   *)
(* run before, and a draft kept while one of those is looked at.  A key    *)
(* moves the cursor, inserts or takes out one character where it is, cuts  *)
(* the text there, brings another text, or runs the line.  The line of a   *)
(* program that takes the screen is kept aside until it ends.              *)
(***************************************************************************)
EXTENDS Integers, Sequences, FiniteSetsExt

CONSTANTS
    Chars,      \* characters of a text
    Blank,      \* the one a remembered line does not start with
    End,        \* the one that ends what is remembered of a text
    MaxLength,  \* of a text
    MaxPast     \* lines remembered

VARIABLES
    text, cursor,
    past,   \* the lines run, the newest first, no two neighbours equal
    at,     \* which of them is looked at, 0 for none
    draft,  \* the text that was there when the first was
    aside   \* the line kept aside, none when empty

vars == <<text, cursor, past, at, draft, aside>>

Before == SubSeq(text, 1, cursor)
Behind == SubSeq(text, cursor + 1, Len(text))

Init == text = << >> /\ cursor = 0 /\ past = << >> /\ at = 0 /\ draft = << >> /\ aside = << >>

Move ==
    /\ cursor' \in 0 .. Len(text)
    /\ UNCHANGED <<text, past, at, draft, aside>>

Insert(c) ==
    /\ Len(text) < MaxLength
    /\ text' = Append(Before, c) \o Behind
    /\ cursor' = cursor + 1
    /\ at' = 0 /\ draft' = << >>
    /\ UNCHANGED <<past, aside>>

Delete ==
    /\ cursor < Len(text)
    /\ text' = Before \o Tail(Behind)
    /\ UNCHANGED <<cursor, past, at, draft, aside>>

Backspace ==
    /\ cursor > 0
    /\ text' = SubSeq(text, 1, cursor - 1) \o Behind
    /\ cursor' = cursor - 1
    /\ UNCHANGED <<past, at, draft, aside>>

Cut ==
    /\ text' = Before
    /\ UNCHANGED <<cursor, past, at, draft, aside>>

Clear ==
    /\ text' = << >> /\ cursor' = 0
    /\ UNCHANGED <<past, at, draft, aside>>

Cancel ==
    /\ text' = << >> /\ cursor' = 0 /\ at' = 0 /\ draft' = << >>
    /\ UNCHANGED <<past, aside>>

\* What is remembered of a text: up to its first End.
Kept == SubSeq(text, 1, Min({i \in DOMAIN text : text[i] = End} \cup {Len(text) + 1}) - 1)

Older ==
    /\ at < Len(past)
    /\ at' = at + 1
    /\ text' = past[at + 1] /\ cursor' = Len(text')
    /\ draft' = IF at = 0 THEN Kept ELSE draft
    /\ UNCHANGED <<past, aside>>

Newer ==
    /\ at > 0
    /\ at' = at - 1
    /\ text' = IF at = 1 THEN draft ELSE past[at - 1]
    /\ cursor' = Len(text')
    /\ draft' = IF at = 1 THEN << >> ELSE draft
    /\ UNCHANGED <<past, aside>>

\* A completion may bring any text, with the cursor at its end.
Complete ==
    /\ text' \in Seq(Chars) /\ Len(text') <= MaxLength /\ cursor' = Len(text')
    /\ UNCHANGED <<past, at, draft, aside>>

\* The line is remembered without the blanks before it, if it is not the
\* newest already.  A program may put it aside, with one End written in it.
Trimmed ==
    SubSeq(Kept, Min({i \in DOMAIN Kept : Kept[i] # Blank} \cup {Len(Kept) + 1}), Len(Kept))
Remembered ==
    IF Trimmed = << >> \/ (past # << >> /\ Trimmed = Head(past)) THEN past
    ELSE SubSeq(<<Trimmed>> \o past, 1, Min({MaxPast, Len(past) + 1}))
Run ==
    /\ past' = Remembered
    /\ text' = << >> /\ cursor' = 0 /\ at' = 0 /\ draft' = << >>
    /\ aside = << >>
    /\ \/ aside' = << >>
       \/ \E t \in {text} \cup {[text EXCEPT ![i] = End] : i \in DOMAIN text} : aside' = <<t, cursor>>

Return ==
    /\ aside # << >>
    /\ text' = aside[1] /\ cursor' = aside[2] /\ aside' = << >>
    /\ UNCHANGED <<past, at, draft>>

Edit == Move \/ (\E c \in Chars : Insert(c)) \/ Delete \/ Backspace \/ Cut \/ Clear
Next == Edit \/ Cancel \/ Older \/ Newer \/ Complete \/ Run \/ Return

Spec == Init /\ [][Next]_vars
=============================================================================
