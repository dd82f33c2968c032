----------------------------- MODULE CommandLine -----------------------------
(***************************************************************************)
(* cli/cli_exec.cpp, cli/cli.cpp, cli/cli_cmd.cpp: the command line        *)
(* interface reads lines from the user, key by key, or from a dofile, and  *)
(* runs the commands of a line one after the other, each in a thread of    *)
(* its own that it waits for.  The command `source` reads a dofile in its  *)
(* thread, so lines and threads nest; `alias`, `set` and `history` change  *)
(* what later lines mean.  A SIGINT asks the innermost thread to stop; it  *)
(* can come at any time, and its handler runs on the main thread while     *)
(* command threads go on.                                                  *)
(***************************************************************************)
EXTENDS LineEditor, TLC

CONSTANTS Files,       \* dofiles: name |-> [names: of the //!ARGS line, lines]
          Sessions,    \* bounds what a user does: [keys: sequence of sets of keys, signals]
          Subsystems,  \* the names of commands that work on data
          MainFiles,   \* the dofiles qsyn may be started with
          StackLimit   \* dofile_stack_limit

\* No //!ARGS line, which could not give an empty name
NoNames == << <<>> >>

\* What a key press is: a text is typed, or a key of listen_to_input is pressed.
KeyPresses ==
    [key : {"enter", "tab", "type", "home", "end", "left", "right", "back_space", "delete",
            "prev_word", "next_word", "up", "down", "pg_up", "pg_down"},
     text : Seq(STRING)]

\* A file of nothing but empty lines is left out: add_variables_from_dofiles looks for a
\* line in it for ever.
ASSUME CommandLineAssumption ==
    /\ Files \in [DOMAIN Files -> [names : Seq(Seq(STRING)), lines : Seq(Seq(STRING))]]
    /\ \A f \in DOMAIN Files : \E i \in DOMAIN Files[f].lines : Files[f].lines[i] # <<>>
    /\ MainFiles \subseteq DOMAIN Files /\ <<>> \notin DOMAIN Files
    /\ Sessions \subseteq [keys : Seq(SUBSET KeyPresses), signals : Nat]
    /\ Subsystems \subseteq Seq(STRING) /\ IsFiniteSet(Subsystems)
    /\ StackLimit \in Nat

\* The commands every session has
CommonNames == {"alias", "set", "echo", "quit", "history", "help", "source", "usage", "clear",
                "logger"}

\* A TLA+ string is a sequence of characters.
ASSUME StringsAreTexts ==
    \A name \in CommonNames \cup {"unalias", "unset", "alias -d", "set -d"} : Text(name) \in Seq(STRING)

Results == {"done", "error", "cmd_not_found", "interrupted", "quit"}

VARIABLES
    frames,         \* the nested readers of lines, outermost first
    commandThreads, \* _command_threads, the top one last
    cliLevel,       \* _cli_level
    editor,         \* the read buffer, the cursor and the history
    registry,       \* _commands, _identifiers, _aliases and _variables
    handler,        \* has sigint_handler found a thread that it will stop?
    outcome,        \* how the program ended, "none" before
    session,        \* what the user will still do
    signals,        \* how many signals were sent
    seen            \* history of what happened: the record below

inputVars == <<session, signals>>
cliVars == <<frames, commandThreads, cliLevel, editor, registry, handler, outcome, inputVars, seen>>

\* seen: the lines that ran with their results since the history was cleared, the line the
\* user left to browse, the file the last key completed, how many commands were reported as
\* interrupted, whether somebody quit, and the names of commands that alias -d or alias took
Seen0 == [ran |-> <<>>, draft |-> <<>>, file |-> <<>>, interrupted |-> 0, quitting |-> FALSE,
          shadowed |-> {}]

\* A frame runs start_interactive or source_dofile: state is where it is with its current
\* line, input the line, text what is left of it, more whether a command is, result the
\* exec_result so far, rounds how many commands were cut off it, aliased whether an alias was
\* put in; lines is what is left of the file, cut whether the read buffer was cleared.
Frame(user, lines) ==
    [user |-> user, lines |-> lines, state |-> "next", input |-> <<>>, text |-> <<>>,
     more |-> TRUE, result |-> "done", rounds |-> 0, aliased |-> FALSE, cut |-> FALSE]

\* insert_or_assign: a map with other entries put in
Assigned(map, entries) ==
    [key \in DOMAIN map \cup DOMAIN entries |->
        IF key \in DOMAIN entries THEN entries[key] ELSE map[key]]

\* add_cli_common_cmds, and a command of every subsystem
Registered ==
    LET commands == {Text(name) : name \in CommonNames} \cup Subsystems
        aliases  == [alias \in {Text("unalias"), Text("unset")} |->
                        IF alias = Text("unalias") THEN Text("alias -d") ELSE Text("set -d")]
    IN [commands    |-> commands, aliases |-> aliases, variables |-> <<>>,
        identifiers |-> TrieOf(commands \cup DOMAIN aliases)]

\* main: interactive, or with a dofile that it sources itself
CliInit ==
    /\ \/ frames = <<Frame(TRUE, <<>>)>> /\ cliLevel = 0 /\ session \in Sessions
       \/ /\ \E f \in MainFiles : frames = <<Frame(FALSE, Files[f].lines)>>
          /\ cliLevel = 1 /\ session \in {s \in Sessions : s.keys = <<>>}
    /\ commandThreads = <<>>
    /\ editor = NewEditor
    /\ registry = Registered
    /\ handler = FALSE
    /\ outcome = "none"
    /\ signals = 0
    /\ seen = Seen0

-----------------------------------------------------------------------------
Top == Last(frames)
TopThread == Last(commandThreads)

\* The thread of the last frame is not the one that sigint_handler suspends.
Runs == outcome = "none" /\ ~(handler /\ Len(frames) = 1)

InState(state) == Runs /\ Top.state = state

SetTop(frame) == frames' = Append(Front(frames), frame)
SetThread(thread) == commandThreads' = Append(Front(commandThreads), thread)

\* get_last_return_status
LastReturnStatus(history) ==
    LET counts == {i \in DOMAIN history : history[i].status # "quit"}
    IN IF counts = {} THEN "done" ELSE history[Max(counts)].status

\* execute_one_line, or source_dofile above it, returns to whom waits for it: the command
\* thread of `source`, or main, which ends with the last status in the history.
ReturnFrom(result, history) ==
    /\ frames' = Front(frames)
    /\ IF Len(frames) = 1
       THEN outcome' = LastReturnStatus(history) /\ UNCHANGED commandThreads
       ELSE SetThread([TopThread EXCEPT !.result = result]) /\ UNCHANGED outcome

-----------------------------------------------------------------------------
(* listen_to_input                                                         *)

Listen ==
    /\ InState("next")
    /\ ~Top.user => Top.lines # <<>>
    /\ SetTop([Top EXCEPT !.state = "listening", !.cut = FALSE])
    /\ editor' = ClearReadBuffer(editor)
    /\ UNCHANGED <<commandThreads, cliLevel, registry, handler, outcome, inputVars, seen>>

\* An identifier is looked up in a trie that has a dead end: undefined, the program crashes.
Crash == outcome' = "crash" /\ UNCHANGED <<frames, editor, seen>>

\* listen_to_input returns with the buffer, and what was stored to browse goes; the line
\* loses its comment and its quotes, and its first token the alias it may be.  When the
\* comment has cut a quote open the line is given up, and is not remembered.
TakeLine(ed, lines) ==
    LET input    == TrimSpaces(TrimComments(ed.buffer))
        stripped == Dequote(input).text
        token    == GetFirstToken(stripped)
        alias    == FindWithPrefix(registry.identifiers, token)
        aliased  == alias \in DOMAIN registry.aliases
        text     == IF aliased THEN registry.aliases[alias] \o From(stripped, Len(token) + 1)
                    ELSE stripped
    IN /\ UNCHANGED <<commandThreads, cliLevel, registry, handler, signals>>
       /\ IF IsClosed(input) /\ ReadsNoChild(registry.identifiers, token) THEN Crash
          ELSE /\ editor' = DropStored(ed)
               /\ SetTop([Top EXCEPT !.lines   = lines,
                                     !.state   = IF IsClosed(input) THEN "line" ELSE "next",
                                     !.input   = input,
                                     !.text    = TrimLeadingSpaces(text),
                                     !.result  = "done",
                                     !.rounds  = 0,
                                     !.aliased = aliased])
               /\ seen' = [seen EXCEPT !.file = <<>>]
               /\ UNCHANGED outcome

\* The input_end_key: the line ends, and so does who reads it.
InputEnds ==
    /\ InState("listening")
    /\ Top.user
    /\ session.keys = <<>>
    /\ seen' = [seen EXCEPT !.quitting = TRUE, !.file = <<>>]
    /\ editor' = DropStored(editor)
    /\ ReturnFrom("quit", editor'.history)
    /\ UNCHANGED <<cliLevel, registry, handler, inputVars>>

\* The keys that only change the line
Edited(key) ==
    CASE key.key = "type"       -> InsertText(editor, key.text)
      [] key.key = "home"       -> MoveCursorTo(editor, 0)
      [] key.key = "end"        -> MoveCursorTo(editor, Len(editor.buffer))
      [] key.key = "left"       -> MoveCursorTo(editor, editor.cursor - 1)
      [] key.key = "right"      -> MoveCursorTo(editor, editor.cursor + 1)
      [] key.key = "back_space" -> BackSpace(editor)
      [] key.key = "delete"     -> DeleteChar(editor)
      [] key.key = "prev_word"  -> ToPrevWord(editor)
      [] key.key = "next_word"  -> ToNextWord(editor)
      [] key.key = "up"         -> ArrowUp(editor, 1)
      [] key.key = "down"       -> ArrowDown(editor, 1)
      [] key.key = "pg_up"      -> ArrowUp(editor, PageOffset)
      [] key.key = "pg_down"    -> ArrowDown(editor, PageOffset)

\* A key on which the line is stored leaves it as a draft.
EditLine(key) ==
    /\ editor' = Edited(key)
    /\ seen' = [seen EXCEPT !.file  = <<>>,
                            !.draft = IF editor'.stored /\ ~editor.stored THEN editor.buffer ELSE @]
    /\ UNCHANGED <<frames, outcome>>

\* Enter, while quotes are open, does nothing.
Enter ==
    \/ IsClosed(editor.buffer) /\ TakeLine(editor, <<>>)
    \/ ~IsClosed(editor.buffer) /\ UNCHANGED <<frames, editor, outcome, seen>>

PressTab ==
    /\ \E tab \in {OnTabPressed(editor, registry)} :
           /\ editor' = tab.ed
           /\ outcome' = IF tab.throws THEN "crash" ELSE outcome
           /\ seen' = [seen EXCEPT !.file = tab.file]
    /\ UNCHANGED frames

KeyPressed ==
    /\ InState("listening")
    /\ Top.user
    /\ session.keys # <<>>
    /\ session' = [session EXCEPT !.keys = Tail(@)]
    /\ \E key \in Head(session.keys) :
           \/ key.key = "enter" /\ Enter
           \/ key.key = "tab" /\ PressTab
           \/ key.key \notin {"enter", "tab"} /\ EditLine(key)
    /\ UNCHANGED <<commandThreads, cliLevel, registry, handler, signals>>

\* What is heard of a line of a file, after a SIGINT in between has cleared the buffer: the
\* end of it.
Heard(line) ==
    IF ~Top.cut THEN {editor.buffer \o line}
    ELSE {From(line, i) : i \in 1 .. Len(line) + 1}

\* A line of the file, which goes on in the next one while quotes are open
LineRead ==
    /\ InState("listening")
    /\ ~Top.user
    /\ \E heard \in Heard(Head(Top.lines)) :
           LET ed == [editor EXCEPT !.buffer = heard, !.cursor = Len(heard)]
           IN IF IsClosed(heard) \/ Len(Top.lines) = 1 THEN TakeLine(ed, Tail(Top.lines))
              ELSE /\ editor' = ed
                   /\ SetTop([Top EXCEPT !.lines = Tail(@), !.cut = FALSE])
                   /\ UNCHANGED <<commandThreads, cliLevel, registry, handler, outcome, signals,
                                  seen>>
    /\ UNCHANGED session

-----------------------------------------------------------------------------
(* execute_one_line: the loop over the commands of the line                *)

\* _parse_one_command: an alias and the variables are put in; no command is <<>>.
Parsed(text) ==
    LET token      == GetFirstToken(text)
        identifier == FindWithPrefix(registry.identifiers, token)
        unaliased  == IF identifier \in DOMAIN registry.aliases
                      THEN registry.aliases[identifier] \o From(text, Len(token) + 1) ELSE text
        buffer     == ReplaceVariables(unaliased, registry.variables)
        name       == GetFirstToken(buffer)
        ambiguous  == identifier = <<>> /\ TrieFrequency(registry.identifiers, token) > 0
        unknown    == [command |-> <<>>, arguments |-> <<>>, crashes |-> FALSE]
        crashes    == [unknown EXCEPT !.crashes = TRUE]
    IN IF ReadsNoChild(registry.identifiers, token) THEN crashes
       ELSE IF ambiguous THEN unknown
       ELSE IF ReadsNoChild(registry.identifiers, name) THEN crashes
       ELSE [unknown EXCEPT !.command   = GetCommand(registry, name),
                            !.arguments = Tokens(From(buffer, Len(name) + 1))]

\* The command that is next, <<>> when two separators meet
ThisCommand == LET end == CommandEnd(Top.text)
               IN IF end = 0 THEN Top.text ELSE SubSeq(Top.text, 1, end - 1)

\* The frame when this command was cut off (mutant: the line is not shortened)
DropNothing(frame) == [frame EXCEPT !.state = "line"]
AfterCommand(frame) ==
    LET end == CommandEnd(frame.text)
    IN [frame EXCEPT !.rounds = @ + 1,
                     !.more   = end # 0,
                     !.state  = IF end = 0 THEN "ended" ELSE "line",
                     !.text   = IF end = 0 THEN <<>> ELSE TrimLeadingSpaces(From(@, end + 1))]

\* Nothing between two separators, or no such command
UnknownCommand ==
    /\ InState("line")
    /\ \/ /\ ThisCommand = <<>>
          /\ SetTop(AfterCommand(Top))
          /\ UNCHANGED outcome
       \/ /\ ThisCommand # <<>>
          /\ LET parsed == Parsed(ThisCommand)
             IN /\ parsed.command = <<>>
                /\ SetTop([AfterCommand(Top) EXCEPT !.result = "cmd_not_found"])
                /\ outcome' = IF parsed.crashes THEN "crash" ELSE outcome
    /\ UNCHANGED <<commandThreads, cliLevel, editor, registry, handler, inputVars, seen>>

\* _dispatch_command: a thread is pushed; its stop token is new ...
Dispatch ==
    /\ InState("line")
    /\ ThisCommand # <<>>
    /\ LET parsed == Parsed(ThisCommand)
       IN /\ parsed.command # <<>>
          /\ commandThreads' = Append(commandThreads,
                 [command |-> parsed.command, arguments |-> parsed.arguments, stop |-> FALSE,
                  result |-> "running"])
    /\ SetTop([AfterCommand(Top) EXCEPT !.state = "waiting"])
    /\ UNCHANGED <<cliLevel, editor, registry, handler, outcome, inputVars, seen>>

\* Is a stop that was asked for looked for in the right thread?
\* (mutant: the thread is popped before)
StopRequestedAfterPop == Len(commandThreads) > 1
                         /\ commandThreads[Len(commandThreads) - 1].stop
StopRequested == TopThread.stop

\* ... and when the thread was joined, its result is taken and it is popped.
Join ==
    /\ InState("waiting")
    /\ TopThread.result # "running"
    /\ SetTop([Top EXCEPT !.state  = IF Top.more THEN "line" ELSE "ended",
                          !.result = IF StopRequested THEN "interrupted" ELSE TopThread.result])
    /\ commandThreads' = Front(commandThreads)
    /\ seen' = [seen EXCEPT !.interrupted = IF StopRequested THEN @ + 1 ELSE @]
    /\ UNCHANGED <<cliLevel, editor, registry, handler, outcome, inputVars>>

\* The history_guard: the line is remembered with its result.
Remembered(frame) ==
    LET entry == [input |-> frame.input, status |-> frame.result]
        after == IF frame.input = <<>> THEN editor.history ELSE Append(editor.history, entry)
    IN [editor EXCEPT !.history = after, !.idx = Len(after)]

\* The line is done: source_dofile returns at once when the result is quit, without counting
\* _cli_level back, and so does start_interactive.
LineEnds ==
    /\ InState("ended")
    /\ editor' = Remembered(Top)
    /\ seen' = [seen EXCEPT !.ran = IF Top.input = <<>> THEN @
                                    ELSE Append(@, [input |-> Top.input, status |-> Top.result])]
    /\ \/ /\ Top.result = "quit"
          /\ ReturnFrom("quit", editor'.history)
       \/ /\ Top.result # "quit"
          /\ SetTop([Top EXCEPT !.state = "next"])
          /\ UNCHANGED <<commandThreads, outcome>>
    /\ UNCHANGED <<cliLevel, registry, handler, inputVars>>

\* The end of the file
FileEnds ==
    /\ InState("next")
    /\ ~Top.user
    /\ Top.lines = <<>>
    /\ cliLevel' = cliLevel - 1
    /\ ReturnFrom("done", editor.history)
    /\ UNCHANGED <<editor, registry, handler, inputVars, seen>>

-----------------------------------------------------------------------------
(* The commands, each in the innermost thread.  Options are given by their *)
(* short names.                                                            *)

InnermostRuns(command) ==
    /\ outcome = "none"
    /\ Top.state = "waiting"
    /\ TopThread.command = Text(command)
    /\ TopThread.result = "running"

EndCommand(result) == SetThread([TopThread EXCEPT !.result = result])

Option(name) == Text(name) \in ToSet(TopThread.arguments)

\* A command of a subsystem; whether its result is complete when a stop was requested is up
\* to the command.
Work ==
    /\ outcome = "none"
    /\ Top.state = "waiting"
    /\ TopThread.result = "running"
    /\ TopThread.command \in Subsystems \cup {Text("echo"), Text("help"), Text("usage"),
                                              Text("clear"), Text("logger")}
    /\ \E result \in IF TopThread.command \in Subsystems THEN {"done", "error"} ELSE {"done"} :
           EndCommand(result)
    /\ UNCHANGED <<frames, cliLevel, editor, registry, handler, outcome, inputVars, seen>>

\* quit, with --force or after a question that the user may answer with no
Quit ==
    /\ InnermostRuns("quit")
    /\ \E result \in IF Option("-f") THEN {"quit"} ELSE {"quit", "done"} :
           /\ EndCommand(result)
           /\ seen' = [seen EXCEPT !.quitting = @ \/ result = "quit"]
    /\ editor' = IF Option("-f") THEN editor ELSE ClearReadBuffer(editor)
    /\ UNCHANGED <<frames, cliLevel, registry, handler, outcome, inputVars>>

\* clear_history, or the history is printed
History ==
    /\ InnermostRuns("history")
    /\ EndCommand("done")
    /\ editor' = IF Option("-c") THEN [editor EXCEPT !.history = <<>>, !.idx = 0] ELSE editor
    /\ seen' = IF Option("-c") THEN [seen EXCEPT !.ran = <<>>] ELSE seen
    /\ UNCHANGED <<frames, cliLevel, registry, handler, outcome, inputVars>>

\* What alias and set are asked for: -l, -d name, or a name and a value; a token too many or
\* too few is an error of the parser or of the command.
Deletes   == Len(TopThread.arguments) = 2 /\ TopThread.arguments[1] = Text("-d")
Defines   == Len(TopThread.arguments) = 2 /\ ~Option("-d") /\ ~Option("-l")
Lists     == TopThread.arguments = <<Text("-l")>>
Argument  == TopThread.arguments[IF Deletes THEN 2 ELSE 1]

\* add_alias: an identifier that is new is inserted, also beside a command of its name.
\* add_alias is true, which alias_cmd takes for a failure.
AddAlias(alias, value) ==
    /\ registry' = [registry EXCEPT
           !.identifiers = IF alias \in DOMAIN registry.aliases THEN @ ELSE TrieInsert(@, alias),
           !.aliases     = Assigned(@, [a \in {alias} |-> value])]
    /\ EndCommand("error")

\* remove_alias: whatever identifier has the name goes.
RemoveAlias(alias) ==
    IF TrieContains(registry.identifiers, alias)
    THEN /\ registry' = [registry EXCEPT
                !.identifiers = TrieErase(@, alias),
                !.aliases     = [a \in DOMAIN @ \ {alias} |-> @[a]]]
         /\ EndCommand("done")
    ELSE UNCHANGED registry /\ EndCommand("error")

Alias ==
    /\ InnermostRuns("alias")
    /\ \/ Deletes /\ RemoveAlias(Argument)
       \/ Defines /\ AddAlias(Argument, TopThread.arguments[2])
       \/ Lists /\ EndCommand("done") /\ UNCHANGED registry
       \/ ~Deletes /\ ~Defines /\ ~Lists /\ EndCommand("error") /\ UNCHANGED registry
    /\ seen' = IF (Deletes \/ Defines) /\ Argument \in registry.commands
               THEN [seen EXCEPT !.shadowed = @ \cup {Argument}] ELSE seen
    /\ UNCHANGED <<frames, cliLevel, editor, handler, outcome, inputVars>>

\* set_variable_cmd: add_variable refuses a name that is defined, remove_variable one that
\* is not.
SetVariable ==
    LET variables == registry.variables
        known     == Argument \in DOMAIN variables
    IN /\ InnermostRuns("set")
       /\ \/ /\ Deletes
             /\ registry' = [registry EXCEPT
                    !.variables = [v \in DOMAIN @ \ {Argument} |-> @[v]]]
             /\ EndCommand(IF known THEN "done" ELSE "error")
          \/ /\ Defines /\ (known \/ " " \in ToSet(Argument))
             /\ EndCommand("error") /\ UNCHANGED registry
          \/ /\ Defines /\ ~known /\ " " \notin ToSet(Argument)
             /\ registry' = [registry EXCEPT
                    !.variables = Assigned(@, [v \in {Argument} |-> TopThread.arguments[2]])]
             /\ EndCommand("done")
          \/ Lists /\ EndCommand("done") /\ UNCHANGED registry
          \/ ~Deletes /\ ~Defines /\ ~Lists /\ EndCommand("error") /\ UNCHANGED registry
       /\ UNCHANGED <<frames, cliLevel, editor, handler, outcome, inputVars, seen>>

\* add_variables_from_dofiles: the names of the //!ARGS line, when it has one, and numbers;
\* a value that a file around this one has given is overwritten.
VariablesFor(file, arguments) ==
    LET named == file.names # NoNames
        Name(i)  == IF named THEN file.names[i] ELSE <<ToString(i)>>
        names == {i \in DOMAIN arguments : named}
    IN [accepted |-> ~named \/ Len(arguments) = Len(file.names),
        values   |-> [k \in {<<ToString(i)>> : i \in DOMAIN arguments}
                            \cup {file.names[i] : i \in names} |->
                        arguments[CHOOSE i \in DOMAIN arguments : k \in {<<ToString(i)>>, Name(i)}]]]

\* The check of _cli_level
TooDeep == cliLevel >= StackLimit

\* source_dofile: a file that is there and takes these arguments is opened unless too many
\* are; its variables are set before that is looked at.
SourceDofile ==
    /\ InnermostRuns("source")
    /\ LET name      == Head(TopThread.arguments \o << <<>> >>)
           given     == Tail(TopThread.arguments)
           variables == VariablesFor(Files[name], given)
           accepted  == name \in DOMAIN Files /\ variables.accepted
       IN \/ /\ ~accepted
             /\ EndCommand("error")
             /\ UNCHANGED <<frames, cliLevel, registry>>
          \/ /\ accepted
             /\ registry' = [registry EXCEPT !.variables = Assigned(@, variables.values)]
             /\ \/ /\ TooDeep
                   /\ EndCommand("error")
                   /\ UNCHANGED <<frames, cliLevel>>
                \/ /\ ~TooDeep
                   /\ cliLevel' = cliLevel + 1
                   /\ frames' = Append(frames, Frame(FALSE, Files[name].lines))
                   /\ UNCHANGED commandThreads
    /\ UNCHANGED <<editor, handler, outcome, inputVars, seen>>

-----------------------------------------------------------------------------
(* sigint_handler                                                          *)

\* While a line is read the buffer is cleared; with no command the program
\* exits; otherwise the handler will ask the top thread to stop, ...
Sigint ==
    /\ outcome = "none"
    /\ ~handler
    /\ signals < session.signals
    /\ signals' = signals + 1
    /\ \/ /\ Top.state = "listening"
          /\ editor' = ClearReadBuffer(editor)
          /\ SetTop([Top EXCEPT !.cut = ~Top.user])
          /\ UNCHANGED <<handler, outcome>>
       \/ /\ Top.state # "listening"
          /\ commandThreads # <<>>
          /\ handler' = TRUE
          /\ UNCHANGED <<frames, editor, outcome>>
       \/ /\ Top.state # "listening"
          /\ commandThreads = <<>>
          /\ outcome' = "exit"
          /\ UNCHANGED <<frames, editor, handler>>
    /\ seen' = [seen EXCEPT !.file = <<>>]
    /\ UNCHANGED <<commandThreads, cliLevel, registry, session>>

\* ... which may no longer be the one that ran when the signal came.
RequestStop ==
    /\ handler
    /\ handler' = FALSE
    /\ SetThread([TopThread EXCEPT !.stop = TRUE])
    /\ UNCHANGED <<frames, cliLevel, editor, registry, outcome, inputVars, seen>>

Command == Work \/ Quit \/ History \/ Alias \/ SetVariable \/ SourceDofile

CliStep == \/ Listen \/ LineRead \/ UnknownCommand \/ Dispatch \/ Join \/ Command
           \/ LineEnds \/ FileEnds

\* The user may type, and a program that has ended stays so.
Waits == outcome # "none" \/ (InState("listening") /\ Top.user)
Rest == Waits /\ UNCHANGED cliVars

CliNext == CliStep \/ KeyPressed \/ InputEnds \/ Sigint \/ RequestStop \/ Rest

\* Threads are scheduled, files are read and handlers return.  This is
\* WF_cliVars(CliStep \/ RequestStop): one of them is enabled unless the program waits, and
\* only finitely many other steps are taken while it does not.
GoesOn == []<>Waits \/ []<><<TRUE>>_cliVars

CliSpec == CliInit /\ [][CliNext]_cliVars /\ GoesOn

-----------------------------------------------------------------------------
\* The history is what ran, in this order and with its results, and behind it, while the
\* user browses, the line that was being typed: neither a SIGINT, nor a nested dofile, nor a
\* line that was cut short leaves anything else in it, and coming back gives the line again.
HistoryKept ==
    /\ editor.history = seen.ran
         \o (IF editor.stored THEN << [input |-> seen.draft, status |-> "done"] >> ELSE <<>>)
    /\ editor.idx \in 0 .. Len(editor.history)
    /\ editor.cursor \in 0 .. Len(editor.buffer)

\* Whatever aliases come and go, a command that none of them named is found by its name, an
\* alias by its own, and what a tab would complete is what the word would run.
NamesFound ==
    /\ \A name \in (registry.commands \ seen.shadowed) \cup DOMAIN registry.aliases :
           FindWithPrefix(registry.identifiers, name) = name
    /\ seen.shadowed = {} =>
           \A prefix \in DOMAIN registry.identifiers :
               LET words == FindAllWithPrefix(registry.identifiers, prefix)
               IN words # {} /\ (Cardinality(words) = 1 =>
                                    FindWithPrefix(registry.identifiers, prefix) \in words)

\* A line without backslashes, whose commands begin with a letter
IsPlain(line) ==
    /\ Backslash \notin ToSet(line)
    /\ \A i \in DOMAIN line : line[i] \in {"'", "\""} =>
           \E j \in 1 .. i - 1 : IsWordChar(line[j]) /\ \A k \in j .. i : line[k] # ";"

\* The commands of a line are cut where the quotes say: a semicolon within quotes is part of
\* a command, one outside ends it.
CutWhereUnquoted ==
    \A f \in ToSet(frames) :
        f.state = "ended" /\ ~f.aliased /\ IsPlain(f.input) =>
            f.rounds = CommandsQuoted(f.input)

\* The last argument a command would get from the line up to the cursor
ArgumentTyped == Last(Tokens(Dequote(TrimSpaces(SubSeq(editor.buffer, 1, editor.cursor))).text))

\* The file a tab has completed is the file the command will get: what completion escapes and
\* closes is what the quotes and the escapes of a line are read back to.  A name with the
\* quote that it is typed in is left out: completion lets it close the quotes.
CompletionReads ==
    seen.file # <<>> /\ editor.buffer[editor.cursor - 1] \notin {"'", "\""} \cap ToSet(seen.file)
        => ArgumentTyped = seen.file

\* One SIGINT interrupts at most one command: a stop that was meant for one
\* command does not stay on for the next one or for the enclosing `source`.
InterruptStopsOne == seen.interrupted <= signals

\* A line that was begun ends, dofiles that source themselves included: the
\* program comes back to the user, or ends.
Working == outcome = "none" /\ (Len(frames) > 1 \/ Top.state \in {"line", "waiting", "ended"})
LinesEnd == Working ~> ~Working
=============================================================================
