-------------------------------- MODULE Shell --------------------------------
(***************************************************************************)
(* The command line of the shell (shell.c): the line buffer and the cursor *)
(* of command_read_line(), the ring of the last commands and the           *)
(* completion of names, with the terminal on which the line is shown.  One *)
(* action is one key with the escape sequence it sends.                    *)
(***************************************************************************)
EXTENDS Integers, Sequences, FiniteSets

CONSTANTS
    MAX_ARG_LEN,     \* size of the line buffer
    APP_HIST_DEPTH,  \* size of the ring
    Letters,         \* letters that are typed
    BuiltIn, Exe,    \* names of commands, in and outside shell.c: sequences of letters
    MaxLines,        \* bound: lines executed
    MaxKeys          \* bound: keys pressed

VARIABLES
    buf,      \* the line buffer
    cur_pos, cur_max,
    stack,    \* g_cmd_stack.stack, NULL or a string
    hist,     \* g_cmd_stack.hist
    hst_pos,  \* the entry of the ring that is shown
    screen,   \* the terminal behind the prompt: its text, and where the cursor is
    flaw,     \* history: "none"; "full" after a letter too many was accepted, "cut"
              \* after cmd_up_key() has put a 0 into the line, "overrun" after an
              \* access outside of a buffer
    log,      \* history: the lines executed
    keys      \* how much of MaxKeys is used up

shvars == <<buf, cur_pos, cur_max, stack, hist, hst_pos, screen, flaw, log, keys>>

NUL == 0
SPACE == 1
NULL == <<NUL>>   \* no string has a NUL in it

Cells == 0 .. MAX_ARG_LEN - 1
Slots == 0 .. APP_HIST_DEPTH - 1
APP_ADJUST_INDEX(i) == i % APP_HIST_DEPTH

\* The n first characters of a buffer, and the string it holds.
Chars(b, n) == [i \in 1 .. n |-> b[i - 1]]
StrLen(b) ==
    LET ends == {i \in Cells : b[i] = NUL}
    IN  IF ends = {} THEN MAX_ARG_LEN ELSE CHOOSE i \in ends : \A j \in ends : i <= j
Str(b) == Chars(b, StrLen(b))

StrCpy(b, s) ==
    [i \in Cells |-> IF i < Len(s) THEN s[i + 1] ELSE IF i = Len(s) THEN NUL ELSE b[i]]

-----------------------------------------------------------------------------
(* The terminal, in insert mode *)

Blank == [text |-> <<>>, at |-> 0]

\* Printing a string.
Put(scr, s) ==
    [text |-> SubSeq(scr.text, 1, scr.at) \o s \o SubSeq(scr.text, scr.at + 1, Len(scr.text)),
     at |-> scr.at + Len(s)]

\* "\033[1P": the character at the cursor.
Eat(scr) ==
    [scr EXCEPT !.text = SubSeq(@, 1, scr.at) \o SubSeq(@, scr.at + 2, Len(@))]

\* cmd_backspace(), n times.
cmd_backspace(scr, n) ==
    [text |-> SubSeq(scr.text, 1, scr.at - n) \o SubSeq(scr.text, scr.at + 1, Len(scr.text)),
     at |-> scr.at - n]

\* "\033[0K"
EraseRest(scr) == [scr EXCEPT !.text = SubSeq(@, 1, scr.at)]

\* Once the line is not what is shown, the terminal is not followed any more.
Show(scr) == screen' = IF flaw = "none" THEN scr ELSE screen

-----------------------------------------------------------------------------
(* Editing *)

Init ==
    /\ buf = [i \in Cells |-> NUL] /\ cur_pos = 0 /\ cur_max = 0
    /\ stack = [i \in Slots |-> NULL] /\ hist = 0 /\ hst_pos = 0
    /\ screen = Blank /\ flaw = "none" /\ log = <<>> /\ keys = 0

\* A key is pressed while a line is read.
Key == flaw # "overrun" /\ keys < MaxKeys /\ keys' = keys + 1

\* insert_one_key() for each of the letters of a string that fits.
Inserted(b, pos, max, s) ==
    [i \in Cells |-> IF i < pos \/ i >= max + Len(s) THEN b[i]
                     ELSE IF i < pos + Len(s) THEN s[i - pos + 1] ELSE b[i - Len(s)]]

insert_one_key(s) ==
    /\ buf' = Inserted(buf, cur_pos, cur_max, s)
    /\ cur_pos' = cur_pos + Len(s) /\ cur_max' = cur_max + Len(s)
    /\ Show(Put(screen, s))

\* An access outside of a buffer: nothing is known after it.
Overrun == flaw' = "overrun" /\ UNCHANGED <<buf, cur_pos, cur_max, stack, hist, hst_pos, screen, log>>

\* print_input() looks at the cursor, not at the length of the line.
TooLong == cur_pos >= MAX_ARG_LEN - 1

\* print_input(), when the letter is taken.  A line whose cursor is not at its
\* end grows past the limit.
print_input(c) ==
    /\ Key /\ ~TooLong
    /\ \/ /\ cur_max < MAX_ARG_LEN
          /\ insert_one_key(<<c>>)
          /\ flaw' = IF cur_max' = MAX_ARG_LEN THEN "full" ELSE flaw
          /\ UNCHANGED <<stack, hist, hst_pos, log>>
       \/ cur_max >= MAX_ARG_LEN /\ Overrun

\* The letter is refused, and the line is shown again after the message.
Refuse ==
    /\ Key /\ TooLong
    /\ \/ /\ cur_max < MAX_ARG_LEN
          /\ Show(Put(Blank, Str(buf)))
          /\ UNCHANGED <<buf, cur_pos, cur_max, stack, hist, hst_pos, flaw, log>>
       \/ cur_max >= MAX_ARG_LEN /\ Overrun

backspace_one_key ==
    /\ Key /\ cur_pos > 0
    /\ buf' = [i \in Cells |-> IF i < cur_pos - 1 \/ i >= cur_max THEN buf[i]
                               ELSE IF i = cur_max - 1 THEN NUL ELSE buf[i + 1]]
    /\ cur_pos' = cur_pos - 1 /\ cur_max' = cur_max - 1
    /\ Show(cmd_backspace(screen, 1))
    /\ UNCHANGED <<stack, hist, hst_pos, flaw, log>>

\* The NUL goes behind the old end of the line, not the new one.
delete_one_key ==
    /\ Key /\ cur_pos < cur_max
    /\ \/ /\ cur_max < MAX_ARG_LEN
          /\ buf' = [i \in Cells |-> IF i = cur_max THEN NUL
                                     ELSE IF i >= cur_pos /\ i < cur_max - 1 THEN buf[i + 1]
                                     ELSE buf[i]]
          /\ cur_max' = cur_max - 1 /\ Show(Eat(screen))
          /\ UNCHANGED <<cur_pos, stack, hist, hst_pos, flaw, log>>
       \/ cur_max >= MAX_ARG_LEN /\ Overrun

\* cmd_right_key(), cmd_left_key(), Home and End.
MoveTo(pos) ==
    /\ Key /\ cur_pos' = pos
    /\ Show([screen EXCEPT !.at = @ + pos - cur_pos])
    /\ UNCHANGED <<buf, cur_max, stack, hist, hst_pos, flaw, log>>

cmd_right_key == cur_pos < cur_max /\ MoveTo(cur_pos + 1)
cmd_left_key == cur_pos > 0 /\ MoveTo(cur_pos - 1)
Home == cur_pos > 0 /\ MoveTo(0)
End == cur_pos < cur_max /\ MoveTo(cur_max)

-----------------------------------------------------------------------------
(* History *)

\* Mutant of ShowEntry: what is right of the cursor stays on the screen.
MutantShowEntry(b, ring, index) ==
    /\ buf' = StrCpy(b, ring[index])
    /\ Show(Put(cmd_backspace(screen, cur_pos), ring[index]))
    /\ cur_pos' = Len(ring[index]) /\ cur_max' = Len(ring[index])
    /\ hst_pos' = index

\* The line is erased up to the cursor, the entry is printed and the rest erased.
ShowEntry(b, ring, index) ==
    /\ buf' = StrCpy([i \in Cells |-> IF i < cur_pos THEN NUL ELSE b[i]], ring[index])
    /\ Show(EraseRest(Put(cmd_backspace(screen, cur_pos), ring[index])))
    /\ cur_pos' = Len(ring[index]) /\ cur_max' = Len(ring[index])
    /\ hst_pos' = index

\* The line, up to the cursor, is saved in the slot of the next command first,
\* whether there is an older command to be shown or not.
cmd_up_key ==
    /\ Key /\ UNCHANGED <<hist, log>>
    /\ LET saving == hst_pos = hist
           b == IF saving THEN [i \in Cells |-> IF i = cur_pos THEN NUL ELSE buf[i]] ELSE buf
           ring == IF saving THEN [stack EXCEPT ![hist] = Str(b)] ELSE stack
           index == APP_ADJUST_INDEX(hst_pos - 1)
           older == index # hist /\ ring[index] # NULL
       IN  \/ saving /\ cur_pos >= MAX_ARG_LEN /\ Overrun
           \/ /\ ~(saving /\ cur_pos >= MAX_ARG_LEN)
              /\ stack' = ring
              /\ \/ older /\ ShowEntry(b, ring, index) /\ UNCHANGED flaw
                 \/ /\ ~older /\ buf' = b
                    /\ flaw' = IF saving /\ cur_pos < cur_max /\ flaw = "none" THEN "cut" ELSE flaw
                    /\ UNCHANGED <<cur_pos, cur_max, screen, hst_pos>>

cmd_down_key ==
    /\ Key /\ hst_pos # hist
    /\ ShowEntry(buf, stack, APP_ADJUST_INDEX(hst_pos + 1))
    /\ UNCHANGED <<stack, hist, flaw, log>>

-----------------------------------------------------------------------------
(* Completion *)

Commands == BuiltIn \cup Exe

pre_space_count == LET word == {i \in Cells : buf[i] # SPACE}
                   IN  IF word = {} THEN MAX_ARG_LEN ELSE CHOOSE i \in word : \A j \in word : i <= j

\* strncmp(n, s, k) = 0: a NUL ends the comparison, and the count is only
\* looked at behind a character, so that 0 or less means no limit.
strncmp(n, s, k) ==
    n = s \/ (k > 0 /\ k <= Len(n) /\ k <= Len(s) /\ SubSeq(n, 1, k) = SubSeq(s, 1, k))

\* The names that begin with what is left of the cursor; with the cursor at or
\* within the leading spaces, those that are all of the line.
Matches ==
    {n \in Commands :
        \/ cur_pos = 0
        \/ strncmp(n, SubSeq(Str(buf), pre_space_count + 1, StrLen(buf)), cur_pos - pre_space_count)}

\* What all the matches have in common behind the cursor.
Common(names) ==
    LET n == CHOOSE n \in names : TRUE
        same == {k \in 0 .. Len(n) : \A x \in names : Len(x) >= k /\ SubSeq(x, 1, k) = SubSeq(n, 1, k)}
        len == CHOOSE k \in same : \A j \in same : j <= k
    IN  SubSeq(n, cur_pos - pre_space_count + 1, len)

\* A single match is completed, of several the common part; then these are
\* listed, and the line is shown again below.
Complete(s, redraw) ==
    /\ buf' = Inserted(buf, cur_pos, cur_max, s)
    /\ cur_pos' = cur_pos + Len(s) /\ cur_max' = cur_max + Len(s)
    /\ Show(IF redraw THEN [text |-> Chars(buf', cur_max'), at |-> cur_pos']
             ELSE Put(screen, s))
    /\ flaw' = IF cur_max' = MAX_ARG_LEN THEN "full" ELSE flaw
    /\ UNCHANGED <<stack, hist, hst_pos, log>>

\* The array of the matches has as many entries as there are commands outside
\* of shell.c, a name is read from before its beginning if the cursor is within
\* the leading spaces, and the completed line is not compared with the limit.
\* (Nothing happens if malloc() has no memory for the array.)
cmd_match ==
    LET m == Matches
        one == Cardinality(m) = 1
        s == Common(m) \o IF one /\ cur_pos = cur_max THEN <<SPACE>> ELSE <<>>
        outside == \/ Cardinality(m) > Cardinality(Exe)
                   \/ cur_pos < pre_space_count
                   \/ cur_max + Len(s) > MAX_ARG_LEN
    IN  /\ Key /\ m # {}
        /\ IF outside THEN Overrun ELSE Complete(s, ~one)

-----------------------------------------------------------------------------
(* Lines *)

\* Ctrl-C, and Enter on an empty line: a new prompt.  The buffer and the place
\* in the ring stay; the letter in the last cell stays there too.
NewPrompt ==
    /\ Key
    /\ cur_pos' = 0 /\ cur_max' = 0 /\ screen' = Blank
    /\ flaw' = IF flaw = "cut" THEN "none" ELSE flaw
    /\ UNCHANGED <<buf, stack, hist, hst_pos, log>>

\* Mutant of cmd_update_history(): the line goes to the slot behind.
MutantUpdate(line) ==
    /\ stack' = [stack EXCEPT ![APP_ADJUST_INDEX(hist + 1)] = line]
    /\ hist' = APP_ADJUST_INDEX(hist + 1)

cmd_update_history(line) ==
    /\ stack' = [stack EXCEPT ![hist] = line]
    /\ hist' = APP_ADJUST_INDEX(hist + 1)

\* Enter: the line is ended and entered into the ring; shell() executes it and
\* reads the next one.
Enter ==
    /\ Key /\ cur_max > 0 /\ Len(log) < MaxLines
    /\ \/ /\ cur_max < MAX_ARG_LEN
          /\ LET line == Str([buf EXCEPT ![cur_max] = NUL])
             IN  cmd_update_history(line) /\ log' = Append(log, line)
          /\ hst_pos' = hist'
          /\ buf' = [i \in Cells |-> NUL] /\ cur_pos' = 0 /\ cur_max' = 0
          /\ screen' = Blank /\ flaw' = "none"
       \/ cur_max >= MAX_ARG_LEN /\ Overrun

Next ==
    \/ \E c \in Letters : print_input(c)
    \/ Refuse \/ backspace_one_key \/ delete_one_key
    \/ cmd_right_key \/ cmd_left_key \/ Home \/ End
    \/ cmd_up_key \/ cmd_down_key \/ cmd_match \/ NewPrompt \/ Enter

Spec == Init /\ [][Next]_shvars

-----------------------------------------------------------------------------
(* Properties *)

\* What the terminal shows is the line that Enter would execute, with the
\* cursor where the next letter goes, unless a letter too many was accepted
\* or a 0 was put into the line.
ScreenShowsLine ==
    flaw = "none" => screen = [text |-> Chars(buf, cur_max), at |-> cur_pos]

\* The Up key finds the last lines that were executed, newest first: the one
\* slot for the line being edited never is one of theirs.
HistoryKept ==
    \A k \in 1 .. APP_HIST_DEPTH - 1 :
      k <= Len(log) => stack[APP_ADJUST_INDEX(hist - k)] = log[Len(log) + 1 - k]
=============================================================================
