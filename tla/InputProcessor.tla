--------------------------- MODULE InputProcessor ---------------------------
(***************************************************************************)
(* The interactive side of the shell: InputProcessor::process_char() with  *)
(* the line it edits, the history it browses and the screen it keeps in    *)
(* step, driven by Shell::service() one byte at a time.  The line and the  *)
(* history are the ones TextLine and HistoryList promise (LineBuffer and   *)
(* History implement them); a submitted line goes to Shell::on_submit(),   *)
(* of which this module keeps what returns to the editor: a cleared line,  *)
(* a fresh prompt and possibly another mode.                               *)
(***************************************************************************)
EXTENDS Naturals, Sequences

CONSTANTS
    MaxLineLength, HistoryLength, TypicalLineLength,
    Char,           \* the printable bytes, 0x20 to 0x7E
    Fold,           \* Fold[c], the lower case of c
    Commands,       \* the registered commands: [name, modes] records
    Modes,          \* the permission modes, the initial one InitialMode
    InitialMode,
    Arriving,       \* Arriving[a]: bytes the keyboard may send in ANSI state a
    MaxNewlines     \* bound: consecutive CR and LF bytes the keyboard sends

CR == "CR"
LF == "LF"
ESC == "ESC"
BS == "BS"          \* both '\b' and 0x7F
TAB == "TAB"
Newline == {CR, LF}
Digit == {"0", "1", "2", "3", "4", "5", "6", "7", "8", "9"}
Other == "other"    \* '\0', and any last_char_ that is not a line ending

AnsiStates == {"Idle", "Escape", "Csi", "Ss3"}

VARIABLES
    line,           \* line_buf_
    history,        \* history_
    ansi_state, ansi_param, last_char,
    current_mode,
    screen,         \* the terminal, see Terminal
    submitted,      \* the line this byte handed to on_submit(), if it did
    endings         \* the newline bytes since the last other byte, and how
                    \* many lines they submitted

vars == <<line, history, ansi_state, ansi_param, last_char, current_mode,
          screen, submitted, endings>>

L == INSTANCE TextLine WITH Space <- " ", Entry <- {}, Command <- {}
H == INSTANCE HistoryList WITH Line <- {}
T == INSTANCE TabComplete
Term == INSTANCE Terminal WITH Blank <- " "

ASSUME SizeAssumption ==
    /\ MaxLineLength \in 1..255
    /\ HistoryLength \in 1..255
ASSUME CharAssumption ==
    /\ " " \in Char /\ Char \cap ({ESC, BS, TAB} \cup Newline) = {}
    /\ T!HelpName \in Seq(Char)
    /\ \A k \in 1..Len(Commands) : Commands[k].name \in Seq(Char)
ASSUME ModeAssumption == InitialMode \in Modes

-----------------------------------------------------------------------------
(* The handlers.  Each begins by leaving history browsing, which copies    *)
(* the browsed entry over the line; the line it then works on is Live.     *)

Live == IF H!IsBrowsing(history) THEN L!Loaded(H!Current(history)) ELSE line

Quiet == H!Cancelled(history)

(* The screen after partial_redraw_from(start) for the line l.             *)
Repainted(scr, l, start) ==
    LET drawn == Term!ErasedToEnd(Term!Written(scr, SubSeq(l.text, start + 1, Len(l.text))))
    IN  Term!MovedBack(drawn, Len(l.text) - l.cursor)

(* Leave browsing, change the line to l and the screen to scr.             *)
Edit(l, scr) ==
    /\ line' = l
    /\ history' = Quiet
    /\ screen' = scr
    /\ UNCHANGED current_mode

(* Faulty: redraws from the cursor's new place.                            *)
insert_redraws_late(c) ==
    LET l == L!Inserted(Live, c) IN
    Edit(l, IF l = Live THEN screen ELSE Repainted(screen, l, l.cursor))

handle_insert(c) ==
    LET l == L!Inserted(Live, c) IN
    Edit(l, IF l = Live THEN screen ELSE Repainted(screen, l, Live.cursor))

handle_backspace ==
    LET l == L!Backspaced(Live) IN
    Edit(l, IF l = Live THEN screen
            ELSE Repainted(Term!MovedBack(screen, 1), l, l.cursor))

handle_delete ==
    LET l == L!Deleted(Live) IN
    Edit(l, IF l = Live THEN screen ELSE Repainted(screen, l, l.cursor))

handle_left ==
    LET l == L!MovedLeft(Live) IN
    Edit(l, IF l = Live THEN screen ELSE Term!MovedBack(screen, 1))

handle_right ==
    LET l == L!MovedRight(Live) IN
    Edit(l, IF l = Live THEN screen ELSE Term!MovedForward(screen))

handle_home ==
    Edit(L!MovedHome(Live), Term!MovedBack(screen, Live.cursor))

handle_end ==
    Edit(L!MovedEnd(Live),
         Term!Written(screen, SubSeq(Live.text, Live.cursor + 1, Len(Live.text))))

handle_tab_complete ==
    LET text == Live.text IN
    IF T!Completes(text, current_mode)
      THEN LET l == L!AtEnd(T!CompletedText(text, current_mode))
           IN  Edit(l, Term!Redrawn(l.text))
      ELSE Edit(Live, IF T!Lists(text, current_mode) THEN Term!Redrawn(text) ELSE screen)

(* Faulty: browsing loads the entry.                                       *)
BrowseInPlace(h) ==
    /\ history' = h
    /\ line' = L!Loaded(H!Current(h))
    /\ screen' = Term!Redrawn(H!Current(h))
    /\ UNCHANGED current_mode

(* Browsing shows an entry without touching the line.                      *)
Browse(h) ==
    /\ history' = h
    /\ screen' = Term!Redrawn(H!Current(h))
    /\ UNCHANGED <<line, current_mode>>

Ignore == UNCHANGED <<line, history, screen, current_mode>>

handle_history_prev ==
    IF H!PrevMoves(history) THEN Browse(H!Older(history)) ELSE Ignore

handle_history_next ==
    IF H!NextMoves(history)
      THEN Browse(H!Newer(history))
      ELSE /\ history' = H!Newer(history)
           /\ line' = L!EmptyLine
           /\ screen' = Term!Redrawn(<<>>)
           /\ UNCHANGED current_mode

(* The handler of a decoded key.                                           *)
Press(key) ==
    CASE key = "up" -> handle_history_prev
      [] key = "down" -> handle_history_next
      [] key = "right" -> handle_right
      [] key = "left" -> handle_left
      [] key = "home" -> handle_home
      [] key = "end" -> handle_end
      [] key = "delete" -> handle_delete
      [] key = "none" -> Ignore

-----------------------------------------------------------------------------
(* process_char(), a disjunct for each way through it.                     *)

(* A byte that is not a line ending; process_char() returns false.         *)
NotNewline ==
    /\ last_char' = Other
    /\ endings' = [run |-> <<>>, lines |-> 0]
    /\ submitted' = <<>>

(* Faulty: the same byte twice is a pair.                                  *)
IsSecondOfAny(c) == last_char \in Newline /\ c \in Newline

IsSecondOfPair(c) == last_char \in Newline /\ c \in Newline /\ c # last_char

SwallowNewline(c) ==
    /\ IsSecondOfPair(c)
    /\ last_char' = Other
    /\ endings' = [endings EXCEPT !.run = Append(@, c)]
    /\ submitted' = <<>>
    /\ Ignore
    /\ UNCHANGED <<ansi_state, ansi_param>>

IsBlank(text) == \A i \in 1..Len(text) : text[i] = " "

(* Faulty: submits the line without leaving browsing first.                *)
SubmissionInPlace == line.text

Submission == Live.text

(* Faulty: pushes the line before the browsed entry is copied to it.       *)
RecordsTooEarly(text) ==
    H!Cancelled(IF IsBlank(line.text) THEN Quiet ELSE H!Pushed(Quiet, line.text))

Recorded(text) ==
    H!Cancelled(IF IsBlank(text) THEN Quiet ELSE H!Pushed(Quiet, text))

(* The line is pushed to history and executed; executing it may change the *)
(* mode.  on_submit() then clears the line and prints the prompt.          *)
Enter(c) ==
    /\ c \in Newline /\ ~IsSecondOfPair(c)
    /\ last_char' = c
    /\ endings' = [run |-> Append(endings.run, c), lines |-> endings.lines + 1]
    /\ submitted' = Submission
    /\ history' = Recorded(Submission)
    /\ IF IsBlank(Submission) THEN UNCHANGED current_mode ELSE current_mode' \in Modes
    /\ line' = L!EmptyLine
    /\ screen' = Term!FreshPrompt
    /\ UNCHANGED <<ansi_state, ansi_param>>

BeginEscape(c) ==
    /\ c = ESC
    /\ ansi_state' = "Escape"
    /\ Ignore /\ NotNewline
    /\ UNCHANGED ansi_param

Introduce(c) ==
    /\ ansi_state = "Escape" /\ c \in {"[", "O"}
    /\ ansi_state' = IF c = "[" THEN "Csi" ELSE "Ss3"
    /\ Ignore /\ NotNewline
    /\ UNCHANGED ansi_param

(* Any other byte after ESC goes on to the test for printable bytes, past  *)
(* the handling of backspace and tab.                                      *)
AbandonEscape(c) ==
    /\ ansi_state = "Escape" /\ c \notin {ESC, "[", "O"} \cup Newline
    /\ ansi_state' = "Idle"
    /\ IF c \in Char THEN handle_insert(c) ELSE Ignore
    /\ NotNewline
    /\ UNCHANGED ansi_param

CsiDigit(c) ==
    /\ ansi_state = "Csi" /\ c \in Digit
    /\ ansi_param' = c
    /\ Ignore /\ NotNewline
    /\ UNCHANGED ansi_state

TildeKey ==
    CASE ansi_param \in {"1", "7"} -> "home"
      [] ansi_param \in {"4", "8"} -> "end"
      [] ansi_param = "3" -> "delete"
      [] OTHER -> "none"

CsiTilde(c) ==
    /\ ansi_state = "Csi" /\ c = "~"
    /\ Press(TildeKey)
    /\ ansi_state' = "Idle"
    /\ ansi_param' = Other
    /\ NotNewline

ArrowKey == [A |-> "up", B |-> "down", C |-> "right", D |-> "left"]

(* An arrow ends the sequence but leaves the parameter as it is.           *)
CsiArrow(c) ==
    /\ ansi_state = "Csi" /\ c \in DOMAIN ArrowKey
    /\ Press(ArrowKey[c])
    /\ ansi_state' = "Idle"
    /\ NotNewline
    /\ UNCHANGED ansi_param

CsiUnknown(c) ==
    /\ ansi_state = "Csi"
    /\ c \notin Digit \cup {"~", ESC} \cup DOMAIN ArrowKey \cup Newline
    /\ ansi_state' = "Idle"
    /\ ansi_param' = Other
    /\ Ignore /\ NotNewline

Ss3Key ==
    [A |-> "up", B |-> "down", C |-> "right", D |-> "left", F |-> "end", H |-> "home"]

Ss3Final(c) ==
    /\ ansi_state = "Ss3" /\ c \notin {ESC} \cup Newline
    /\ Press(IF c \in DOMAIN Ss3Key THEN Ss3Key[c] ELSE "none")
    /\ ansi_state' = "Idle"
    /\ NotNewline
    /\ UNCHANGED ansi_param

(* Backspace, tab, printable bytes, and the rest.                          *)
ProcessNormally(c) ==
    CASE c = BS -> handle_backspace
      [] c = TAB -> handle_tab_complete
      [] c \in Char -> handle_insert(c)
      [] OTHER -> Ignore

(* A byte outside any sequence.                                            *)
IdleByte(c) ==
    /\ ansi_state = "Idle" /\ c \notin {ESC} \cup Newline
    /\ ProcessNormally(c)
    /\ NotNewline
    /\ UNCHANGED <<ansi_state, ansi_param>>

ProcessChar(c) ==
    \/ SwallowNewline(c)
    \/ Enter(c)
    \/ BeginEscape(c)
    \/ Introduce(c)
    \/ AbandonEscape(c)
    \/ CsiDigit(c)
    \/ CsiTilde(c)
    \/ CsiArrow(c)
    \/ CsiUnknown(c)
    \/ Ss3Final(c)
    \/ IdleByte(c)

Init ==
    /\ line = L!EmptyLine
    /\ history = H!EmptyHistory
    /\ ansi_state = "Idle"
    /\ ansi_param = Other
    /\ last_char = Other
    /\ current_mode = InitialMode
    /\ screen = Term!FreshPrompt
    /\ submitted = <<>>
    /\ endings = [run |-> <<>>, lines |-> 0]

Next ==
    \E c \in Arriving[ansi_state] :
        /\ c \in Newline => Len(endings.run) < MaxNewlines
        /\ ProcessChar(c)

Spec == Init /\ [][Next]_vars

-----------------------------------------------------------------------------

TypeOK ==
    /\ line \in L!Lines /\ line.cursor <= Len(line.text) /\ Len(line.text) < MaxLineLength
    /\ history.cursor \in 0..HistoryLength
    /\ ansi_state \in AnsiStates
    /\ ansi_param \in Digit \cup {Other}
    /\ last_char \in Newline \cup {Other}
    /\ current_mode \in Modes
    /\ screen \in Term!Screens(Char)

(* What the user sees is what the next key acts on: outside browsing the   *)
(* row is the line and the terminal's cursor is the line's; while browsing *)
(* it is the browsed entry with the cursor at its end.  The targeted       *)
(* redraws of lishInputProcessor.ipp:120-258 rely on it at every key.      *)
DisplayInSync ==
    screen = IF H!IsBrowsing(history)
               THEN Term!Redrawn(H!Current(history))
               ELSE [row |-> line.text, col |-> line.cursor]

(* Enter executes the text on the screen (lishInputProcessor.h:57-60: the  *)
(* browsed entry is copied to the line when Enter is pressed).             *)
SubmitsWhatIsShown ==
    [][\A c \in Newline : Enter(c) => submitted' = screen.row]_vars

(* The lines that a run of CR and LF bytes ends, read from the left: two   *)
(* different ones in a row are one line ending (the CR/LF rule of          *)
(* lishInputProcessor.h:117-123).                                          *)
LinesEnded(run) ==
    LET n == Len(run)
        from[i \in 1..(n + 2)] ==
            IF i > n THEN 0
            ELSE IF i < n /\ run[i] # run[i + 1] THEN 1 + from[i + 2]
            ELSE 1 + from[i + 1]
    IN  from[1]

(* However CR, LF, CR LF and LF CR follow one another, each line ending    *)
(* submits once, neither twice nor not at all.                             *)
OneSubmitPerLineEnding == endings.lines = LinesEnded(endings.run)

(* Browsing is non-destructive: as long as it lasts the line being typed   *)
(* keeps its text and cursor (lishInputProcessor.h:57-60).  It is lost     *)
(* when browsing ends, docs/ARCHITECTURE.md:205-208 notwithstanding.       *)
BrowsingKeepsLine == [][H!IsBrowsing(history') => line' = line]_vars

(* History holds nothing but lines that were on the screen, as they were,  *)
(* when enter was pressed: an entry that was not there before is the row   *)
(* that this byte submitted, and not blank.  The entry being browsed has   *)
(* been copied to the line by then (lishInputProcessor.h:136-140).         *)
RecordsTheRow ==
    [][\A j \in 1..Len(history'.entries) :
          \/ \E k \in 1..Len(history.entries) : history'.entries[j] = history.entries[k]
          \/ history'.entries[j] = screen.row /\ submitted' = screen.row /\ ~IsBlank(screen.row)]_vars

=============================================================================
