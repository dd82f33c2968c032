----------------------------- MODULE LineEditor -----------------------------
(***************************************************************************)
(* cli/cli_listen.cpp and cli/cli_tab.cpp: what the keys do to the line    *)
(* that is typed, how the history is browsed, and what a tab completes.    *)
(* An editor is a record: the read buffer, the cursor (how many characters *)
(* stand before it), the history of inputs with their results, the place   *)
(* in it, whether the line that was being typed is stored behind it, and   *)
(* how many tabs were pressed.                                             *)
(***************************************************************************)
EXTENDS Naturals, Sequences, SequencesExt, FiniteSetsExt

(***************************************************************************)
(* The texts of the command line: util/trie.cpp finds an identifier by a   *)
(* prefix of it; cli/cli.cpp and cli/cli_exec.cpp take the quotes off a    *)
(* line, cut it into commands and a command into tokens, and put the       *)
(* values of variables in.  A text is a sequence of characters; a position *)
(* counts from 1, and 0 is std::string::npos.                              *)
(***************************************************************************)

\* The characters of a TLA+ string
Text(string) == [i \in 1 .. Len(string) |-> SubSeq(string, i, i)]

\* The least and the greatest position of a set, or 0
First(positions) == IF positions = {} THEN 0 ELSE Min(positions)
Final(positions) == Max(positions \cup {0})

Backslash == "\\"
special_chars == {Backslash, "$", "\"", "'", " ", ";"}
double_quote_special_chars == {Backslash, "$"}

\* The letters the runs use; digits and the underscore are among them.
IsWordChar(ch) == ch \notin special_chars \cup {"/", "{", "}", "!", "-", "."}

-----------------------------------------------------------------------------
(* Trie: a node is the prefix that leads to it.                            *)

TrieNodes(word) == {SubSeq(word, 1, n) : n \in 1 .. Len(word)}

\* The trie when every word was inserted once
TrieOf(words) ==
    [node \in UNION {TrieNodes(word) : word \in words} |->
        [isWord    |-> node \in words,
         frequency |-> Cardinality({word \in words : IsPrefix(node, word)})]]

\* insert: the frequency of every node on the way rises, for a word that is there too.
TrieInsert(trie, word) ==
    [node \in DOMAIN trie \cup TrieNodes(word) |->
        LET old == IF node \in DOMAIN trie THEN trie[node] ELSE [isWord |-> FALSE, frequency |-> 0]
        IN [isWord    |-> old.isWord \/ node = word,
            frequency |-> old.frequency + (IF node \in TrieNodes(word) THEN 1 ELSE 0)]]

TrieContains(trie, word) == word \in DOMAIN trie /\ trie[word].isWord

\* (mutant: the frequencies stay)
TrieEraseUncounted(trie, word) ==
    [trie EXCEPT ![word].isWord = FALSE]

\* erase, of a word that is contained: the first node of frequency 0 goes, with all below it.
TrieErase(trie, word) ==
    LET left == [node \in DOMAIN trie |->
                    [isWord    |-> trie[node].isWord /\ node # word,
                     frequency |-> trie[node].frequency
                                   - (IF node \in TrieNodes(word) THEN 1 ELSE 0)]]
        dead == {node \in TrieNodes(word) : left[node].frequency = 0}
    IN [node \in {n \in DOMAIN trie : \A d \in dead : ~IsPrefix(d, n)} |-> left[node]]

TrieFrequency(trie, prefix) == IF prefix \in DOMAIN trie THEN trie[prefix].frequency ELSE 0

WordsBelow(trie, prefix) == {w \in DOMAIN trie : trie[w].isWord /\ IsPrefix(prefix, w)}

\* find_with_prefix: <<>> is nullopt.  Below a node of frequency 1 the first child is
\* followed down to a word; when there is none, children.begin() of no children is read.
ReadsNoChild(trie, prefix) ==
    /\ prefix \in DOMAIN trie
    /\ trie[prefix].frequency <= 1
    /\ WordsBelow(trie, prefix) = {}

FindWithPrefix(trie, prefix) ==
    IF prefix = <<>> \/ prefix \notin DOMAIN trie THEN <<>>
    ELSE IF trie[prefix].frequency > 1
         THEN IF trie[prefix].isWord THEN prefix ELSE <<>>
         ELSE CHOOSE w \in WordsBelow(trie, prefix) :
                 \A v \in WordsBelow(trie, prefix) : Len(w) <= Len(v)

FindAllWithPrefix(trie, prefix) == WordsBelow(trie, prefix)

-----------------------------------------------------------------------------
(* Escapes and quotes                                                      *)

\* _is_escaped: how many backslashes precede the position?  When nothing else does, the
\* first of them is taken for the last character that is none.
IsEscaped(str, pos) ==
    /\ pos > 1
    /\ (pos - Max({j \in 1 .. pos - 1 : str[j] # Backslash} \cup {1})) % 2 = 0

\* The first one of a character from a position on that is not escaped
Unescaped(str, ch, from) == First({i \in from .. Len(str) : str[i] = ch /\ ~IsEscaped(str, i)})

ShouldBeEscaped(ch, state) ==
    CASE state = "normal"       -> FALSE
      [] state = "single_quote" -> ch \in special_chars
      [] state = "double_quote" -> ch \in special_chars \ double_quote_special_chars

\* The state after a character, which is left out when it changes the state
ParseState(str, i, state) ==
    CASE state = "normal" /\ str[i] = "'" /\ ~IsEscaped(str, i)        -> "single_quote"
      [] state = "normal" /\ str[i] = "\"" /\ ~IsEscaped(str, i)       -> "double_quote"
      [] state = "single_quote" /\ str[i] = "'"                        -> "normal"
      [] state = "double_quote" /\ str[i] = "\"" /\ ~IsEscaped(str, i) -> "normal"
      [] OTHER                                                         -> state

\* _dequote: what the quotes protect is escaped instead.
Escape(ch, state) == IF ShouldBeEscaped(ch, state) THEN <<Backslash, ch>> ELSE <<ch>>

DequoteChar(str, read, i) ==
    LET next == ParseState(str, i, read.state)
    IN [state |-> next,
        text  |-> IF next # read.state THEN read.text ELSE read.text \o Escape(str[i], next)]

Dequote(str) ==
    LET read[i \in 0 .. Len(str)] ==
            IF i = 0 THEN [state |-> "normal", text |-> <<>>] ELSE DequoteChar(str, read[i - 1], i)
    IN read[Len(str)]

IsClosed(str) == Dequote(str).state = "normal"

\* The escapes of _decode that stand for a character of their own
Decoded(ch) ==
    CASE ch = "a" -> "BEL" [] ch = "b" -> "BS" [] ch = "e" -> "ESC" [] ch = "f" -> "FF"
      [] ch = "n" -> "LF" [] ch = "r" -> "CR" [] ch = "t" -> "TAB" [] ch = "v" -> "VT"
      [] OTHER -> ch

\* _decode: a backslash, but not the last character, goes with what follows; \c ends it.
DecodeChar(str, read, i) ==
    IF read.ended \/ read.skip THEN [read EXCEPT !.skip = FALSE]
    ELSE IF str[i] # Backslash \/ i = Len(str) THEN [read EXCEPT !.text = Append(@, str[i])]
    ELSE IF str[i + 1] = "c" THEN [read EXCEPT !.ended = TRUE]
    ELSE [read EXCEPT !.text = Append(@, Decoded(str[i + 1])), !.skip = TRUE]

Decode(str) ==
    LET read[i \in 0 .. Len(str)] ==
            IF i = 0 THEN [text |-> <<>>, skip |-> FALSE, ended |-> FALSE]
            ELSE DecodeChar(str, read[i - 1], i)
    IN read[Len(str)].text

-----------------------------------------------------------------------------
(* Lines, commands and tokens                                              *)

From(str, i) == SubSeq(str, i, Len(str))

TrimLeadingSpaces(str) ==
    LET start == First({i \in DOMAIN str : str[i] # " "})
    IN IF start = 0 THEN <<>> ELSE From(str, start)

TrimSpaces(str) ==
    TrimLeadingSpaces(SubSeq(str, 1, Final({i \in DOMAIN str : str[i] # " "})))

\* trim_comments: quotes are not looked at.
TrimComments(str) ==
    LET comment == First({i \in 1 .. Len(str) - 1 : str[i] = "/" /\ str[i + 1] = "/"})
    IN IF comment = 0 THEN str ELSE SubSeq(str, 1, comment - 1)

GetFirstToken(str) ==
    LET space == Unescaped(str, " ", 1)
    IN IF space = 0 THEN str ELSE SubSeq(str, 1, space - 1)

\* _get_last_token_pos: where the token after the last separator begins
GetLastTokenPos(str, token) ==
    IF \A i \in DOMAIN str : str[i] = token THEN 0
    ELSE Final({i \in DOMAIN str : str[i] = token /\ ~IsEscaped(str, i)}) + 1

\* The end of the first command of a line (mutant: an escaped one ends it too)
CommandEndAnywhere(line) == First({i \in DOMAIN line : line[i] = ";"})
CommandEnd(line) == Unescaped(line, ";", 1)

\* The end of the first token: when the first space is escaped, a semicolon is looked for.
TokenEnd(buffer) ==
    LET space == First({i \in DOMAIN buffer : buffer[i] = " "})
    IN IF space = 0 THEN 0
       ELSE IF IsEscaped(buffer, space) THEN Unescaped(buffer, ";", space + 1) ELSE space

\* The loop over the tokens behind the name of a command: one is cut off, and decoded.
CutToken(read) ==
    LET end   == TokenEnd(read.rest)
        token == SubSeq(read.rest, 1, IF end = 0 THEN Len(read.rest) ELSE end - 1)
    IN [tokens |-> IF token = <<>> THEN read.tokens ELSE Append(read.tokens, Decode(token)),
        rest   |-> IF end = 0 THEN <<>> ELSE From(read.rest, end + 1)]

Tokens(buffer) ==
    LET read[i \in 0 .. Len(buffer)] ==
            IF i = 0 THEN [tokens |-> <<>>, rest |-> buffer] ELSE CutToken(read[i - 1])
    IN read[Len(buffer)].tokens

\* The names after the dollar signs of a text, as [from, to, key]: bare ones reach as far
\* as they can, those in braces to the first closing brace.
VariablesIn(str) ==
    LET EndOfWord(i) == First({j \in i .. Len(str) : ~IsWordChar(str[j])} \cup {Len(str) + 1}) - 1
        Closing(i)   == First({j \in i + 3 .. Len(str) : str[j] = "}"})
        dollars      == {i \in 1 .. Len(str) - 1 : str[i] = "$" /\ ~IsEscaped(str, i)}
    IN {[from |-> i, to |-> EndOfWord(i + 1), key |-> SubSeq(str, i + 1, EndOfWord(i + 1))] :
           i \in {d \in dollars : IsWordChar(str[d + 1])}}
       \cup {[from |-> i, to |-> Closing(i), key |-> SubSeq(str, i + 2, Closing(i) - 1)] :
           i \in {d \in dollars : str[d + 1] = "{" /\ Closing(d) # 0
                                  /\ \A j \in d .. Closing(d) : str[j] # " "}}

\* _replace_variable_keys_with_values: a variable that is not defined is empty.
Value(variables, key) == IF key \in DOMAIN variables THEN variables[key] ELSE <<>>

ReplaceVariable(str, variables, out, i) ==
    LET at     == {v \in VariablesIn(str) : v.from = i}
        inside == \E v \in VariablesIn(str) : v.from < i /\ i <= v.to
    IN IF at # {} THEN out \o Value(variables, (CHOOSE v \in at : TRUE).key)
       ELSE IF inside THEN out ELSE Append(out, str[i])

ReplaceVariables(str, variables) ==
    LET out[i \in 0 .. Len(str)] ==
            IF i = 0 THEN <<>> ELSE ReplaceVariable(str, variables, out[i - 1], i)
    IN out[Len(str)]

-----------------------------------------------------------------------------
(* What the quotes of a line mean: a semicolon ends a command unless it    *)
(* stands in quotes or a backslash precedes it that is not itself escaped. *)

CommandsQuoted(line) ==
    LET from[i \in 1 .. Len(line) + 1, quote \in {"", "'", "\""}] ==
            IF i > Len(line) THEN 1
            ELSE LET ch == line[i]
                 IN IF ch = Backslash /\ i < Len(line) /\ quote # "'" THEN from[i + 2, quote]
                    ELSE IF quote # "" THEN from[i + 1, IF ch = quote THEN "" ELSE quote]
                    ELSE IF ch \in {"'", "\""} THEN from[i + 1, ch]
                    ELSE from[i + 1, quote] + (IF ch = ";" THEN 1 ELSE 0)
    IN from[1, ""]

-----------------------------------------------------------------------------
CONSTANTS FileNames,  \* the names in the working directory, none of them a directory's
          PageOffset  \* how many entries pgUp and pgDown move

ASSUME LineEditorAssumption ==
    /\ FileNames \subseteq Seq(STRING) \ {<<>>}
    /\ PageOffset \in Nat \ {0}

NewEditor == [buffer |-> <<>>, cursor |-> 0, history |-> <<>>, idx |-> 0, stored |-> FALSE,
              tabs |-> 0]

ClearReadBuffer(ed) == [ed EXCEPT !.buffer = <<>>, !.cursor = 0, !.tabs = 0]

\* _move_cursor_to: a place outside the line only beeps.
MoveCursorTo(ed, pos) ==
    IF pos \in 0 .. Len(ed.buffer) THEN [ed EXCEPT !.cursor = pos] ELSE ed

DeleteChar(ed) ==
    IF ed.cursor = Len(ed.buffer) THEN ed ELSE [ed EXCEPT !.buffer = RemoveAt(@, ed.cursor + 1)]

BackSpace(ed) == IF ed.cursor = 0 THEN ed ELSE DeleteChar(MoveCursorTo(ed, ed.cursor - 1))

InsertText(ed, text) ==
    [ed EXCEPT !.buffer = SubSeq(@, 1, ed.cursor) \o text \o From(@, ed.cursor + 1),
               !.cursor = @ + Len(text)]

ToPrevWord(ed) ==
    LET IsWord(i)    == IsWordChar(ed.buffer[i])
        prevWordEnd  == Final({i \in 1 .. ed.cursor : IsWord(i)})
    IN MoveCursorTo(ed, Final({i \in 1 .. prevWordEnd : ~IsWord(i)}))

ToNextWord(ed) ==
    LET IsWord(i)     == IsWordChar(ed.buffer[i])
        nextSpace     == First({i \in ed.cursor + 1 .. Len(ed.buffer) : ~IsWord(i)})
        nextWordBegin == First({i \in nextSpace .. Len(ed.buffer) : IsWord(i)})
    IN IF nextSpace = 0 THEN MoveCursorTo(ed, Len(ed.buffer))
       ELSE IF nextWordBegin = 0 THEN MoveCursorTo(ed, nextSpace - 1)
       ELSE MoveCursorTo(ed, nextWordBegin - 1)

\* _replace_at_cursor, of a text that ends at the cursor
ReplaceAtCursor(ed, old, new) ==
    InsertText([ed EXCEPT !.buffer = SubSeq(@, 1, ed.cursor - Len(old)) \o From(@, ed.cursor + 1),
                          !.cursor = @ - Len(old)], new)

-----------------------------------------------------------------------------
(* The history                                                             *)

\* (mutant: it stays)
LeaveStored(ed) == [ed EXCEPT !.stored = FALSE]

\* What is stored behind the history goes.
DropStored(ed) ==
    IF ed.stored THEN [ed EXCEPT !.history = Front(@), !.stored = FALSE] ELSE ed

PrefixTyped(ed) == IF ed.stored THEN Last(ed.history).input ELSE ed.buffer

\* _prev_matching_history: the count-th entry before with the prefix, or the first one
PrevMatching(ed, count) ==
    LET matching == {i \in 0 .. ed.idx - 1 : IsPrefix(PrefixTyped(ed), ed.history[i + 1].input)}
        nth      == {i \in matching : Cardinality({j \in matching : j >= i}) = count}
    IN IF matching = {} THEN ed.idx ELSE IF nth # {} THEN Min(nth) ELSE Min(matching)

\* _next_matching_history: the count-th one behind, or the last one
NextMatching(ed, count) ==
    LET matching == {i \in ed.idx + 1 .. Len(ed.history) - 1 :
                        IsPrefix(PrefixTyped(ed), ed.history[i + 1].input)}
        nth      == {i \in matching : Cardinality({j \in matching : j <= i}) = count}
    IN IF matching = {} THEN ed.idx ELSE IF nth # {} THEN Max(nth) ELSE Max(matching)

\* _replace_read_buffer_with_history: the line that was stored goes back into the buffer.
ReplaceWithHistory(ed) ==
    IF ed.idx = Len(ed.history) THEN ed
    ELSE LET input == ed.history[ed.idx + 1].input
             shown == [ed EXCEPT !.buffer = input, !.cursor = Len(input)]
         IN IF ed.idx = Len(ed.history) - 1 THEN DropStored(shown) ELSE shown

\* _retrieve_history: up from the new input stores it; down stops at the end.
RetrieveHistory(ed, index) ==
    LET stored == [ed EXCEPT !.history = Append(@, [input |-> ed.buffer, status |-> "done"]),
                             !.stored  = TRUE]
        edited == IF ed.stored /\ ed.idx = Len(ed.history) - 1
                  THEN [ed EXCEPT !.history[Len(ed.history)].input = ed.buffer] ELSE ed
        end    == Len(ed.history) - (IF ed.stored THEN 1 ELSE 0)
        To(e, i) == ReplaceWithHistory([e EXCEPT !.idx = i])
    IN IF index = ed.idx \/ (index > ed.idx /\ ed.idx = end) THEN ed
       ELSE IF index > ed.idx THEN To(ed, Min({index, Len(ed.history) - 1}))
       ELSE To(IF ed.idx = Len(ed.history) THEN stored ELSE edited, index)

ArrowUp(ed, count) == RetrieveHistory(ed, PrevMatching(ed, count))
ArrowDown(ed, count) == RetrieveHistory(ed, NextMatching(ed, count))

-----------------------------------------------------------------------------
(* Tab: a result is the editor, whether the key has done something, and    *)
(* whether a position behind the end of a text is asked for, which throws  *)
(* std::out_of_range out of the program.                                   *)

NoOp(ed)    == [ed |-> ed, done |-> FALSE, throws |-> FALSE, file |-> <<>>]
Did(ed)     == [NoOp(ed) EXCEPT !.done = TRUE]
Throws(ed)  == [NoOp(ed) EXCEPT !.throws = TRUE]

\* (mutant: the backslashes are left out)
CompletionAsItIs(typed, common, state) == From(common, Len(typed) + 1)

\* _autocomplete: what all candidates have in common behind the text typed, with a backslash
\* before special characters unless the quotes protect them, ...
Completion(typed, common, state) ==
    FlattenSeq([i \in 1 .. Len(common) - Len(typed) |->
        LET ch == common[Len(typed) + i]
        IN IF ch \in special_chars /\ ~ShouldBeEscaped(ch, state) THEN <<Backslash, ch>> ELSE <<ch>>])

\* ... which is not repeated when it is typed already.
Behind(trailing, text) == IF trailing /\ text # <<>> /\ Head(text) = Backslash THEN Tail(text) ELSE text
EndsInBackslash(text) == text # <<>> /\ Last(text) = Backslash
Begun(text) == IF EndsInBackslash(text) THEN Front(text) ELSE text

\* The line with the completion, and with what closes it when there is one candidate: a list
\* is shown when nothing can be added.
Autocomplete(ed, prefix, names, state, closing) ==
    LET Insert(text) == IF text = <<>> /\ names # {prefix} THEN Did(ed)
                        ELSE Did(InsertText(ed, text \o (IF Cardinality(names) = 1 THEN closing
                                                         ELSE <<>>)))
    IN Insert(IF names = {prefix} THEN <<>>
              ELSE Behind(EndsInBackslash(prefix),
                          Completion(Begun(prefix), LongestCommonPrefix(names), state)))

\* _match_identifiers
MatchIdentifiers(editor, reg, str) ==
    LET Alias(name) == name \in DOMAIN reg.aliases
        Only(ed, name) ==
            IF name = str /\ Alias(str) THEN ReplaceAtCursor(ed, str, reg.aliases[str])
            ELSE InsertText(ed, From(name, Len(str) + 1)
                                \o (IF ~Alias(name) \/ reg.aliases[name] = name THEN <<" ">>
                                    ELSE <<>>))
        Among(ed, matches) == IF matches = {} THEN NoOp(ed)
                              ELSE IF Cardinality(matches) > 1 THEN Did(ed)
                              ELSE Did(Only(ed, CHOOSE m \in matches : TRUE))
    IN Among([editor EXCEPT !.tabs = 0], FindAllWithPrefix(reg.identifiers, str))

\* The $name or ${name} that ends a text, begun or complete: where it starts, or 0
VariableStart(str) ==
    Final({i \in 1 .. Len(str) : str[i] = "$" /\
              \A j \in i + 1 .. Len(str) :
                 IsWordChar(str[j]) \/ (j = i + 1 /\ str[j] = "{")
                 \/ (j = Len(str) /\ str[j] = "}" /\ str[i + 1] = "{")})

\* The name in a reference to a variable
KeyOf(var) ==
    IF Len(var) > 1 /\ var[2] = "{"
    THEN SubSeq(var, 3, Len(var) - (IF Last(var) = "}" THEN 1 ELSE 0))
    ELSE From(var, 2)

\* A reference that is complete is replaced by the value; one that is begun is completed.
CompleteVariable(ed, reg, var, key, names) ==
    IF key \in DOMAIN reg.variables /\ (Last(var) = "}" \/ var[2] # "{")
    THEN Did(ReplaceAtCursor(ed, var, reg.variables[key]))
    ELSE IF Last(var) = "}" \/ names = {} THEN NoOp(ed)
    ELSE Autocomplete(ed, key, names, "normal", IF "{" \in ToSet(var) THEN <<"}">> ELSE <<>>)

\* _match_variables.  Back() of an empty prefix reads no backslash: the string lies in its
\* buffer.
MatchVariables(ed, reg, str) ==
    LET Named(var, key) == CompleteVariable(ed, reg, var, key,
                                            {k \in DOMAIN reg.variables : IsPrefix(key, k)})
        Starting(start) == IF start = 0 \/ (start > 1 /\ str[start - 1] = Backslash) THEN NoOp(ed)
                           ELSE Named(From(str, start), KeyOf(From(str, start)))
    IN Starting(VariableStart(str))

\* The quotes that are open at the cursor: the closing one that would end them
OpenQuote(str) == CASE IsClosed(str) -> "normal"
                    [] IsClosed(Append(str, "\"")) -> "double_quote"
                    [] OTHER -> "single_quote"

Quotes(state) == CASE state = "normal" -> <<>> [] state = "double_quote" -> <<"\"">>
                   [] state = "single_quote" -> <<"'">>

\* The text without the backslashes before special characters
PlainChar(escaped, text, i) ==
    IF escaped[i] = Backslash /\ i < Len(escaped) /\ escaped[i + 1] \in special_chars
    THEN text ELSE Append(text, escaped[i])

Plain(escaped) ==
    LET text[i \in 0 .. Len(escaped)] ==
            IF i = 0 THEN <<>> ELSE PlainChar(escaped, text[i - 1], i)
    IN text[Len(escaped)]

\* _get_file_matches: files that are not hidden
FilesFrom(prefix) == {f \in FileNames : IsPrefix(Begun(prefix), f) /\ f[1] # "."}

CompleteFile(ed, state, prefix, files) ==
    IF files = {} THEN NoOp(ed)
    ELSE [Autocomplete(ed, prefix, files, state, Quotes(state) \o <<" ">>) EXCEPT
             !.file = IF Cardinality(files) = 1 THEN CHOOSE f \in files : TRUE ELSE <<>>]

\* _match_files: the last token without its quotes and backslashes is the start of names.
MatchFiles(ed, str) ==
    LET Prefixed(state, prefix) == CompleteFile(ed, state, prefix, FilesFrom(prefix))
        InText(state, text, last) == IF last = 0 THEN Throws(ed)
                                      ELSE Prefixed(state, Plain(From(text, last)))
        Dequoted(state, text) == InText(state, text, GetLastTokenPos(text, " "))
        Quoted(state) == Dequoted(state, Dequote(str \o Quotes(state)).text)
    IN Quoted(OpenQuote(str))

\* get_command
GetCommand(reg, name) ==
    LET match == FindWithPrefix(reg.identifiers, name)
    IN IF match \in reg.commands THEN match ELSE <<>>

\* _on_tab_pressed: identifiers for the first token of a command, the usage of the command
\* on the first tab, then variables, then files.
OnTabPressed(editor, reg) ==
    LET str   == SubSeq(editor.buffer, 1, editor.cursor)
        OrFiles(variables) == IF variables.done THEN variables ELSE MatchFiles(variables.ed, str)
        InCommand(ed, start, word) ==
            IF start > Len(str) + 1 \/ ReadsNoChild(reg.identifiers, word) THEN Throws(ed)
            ELSE IF ed.tabs = 1 /\ GetCommand(reg, word) # <<>> THEN Did(ed)
            ELSE OrFiles(MatchVariables(ed, reg, str))
        WordAt(start, space) ==
            SubSeq(str, start, IF space = 0 THEN Len(str) ELSE Min({space - 1, Len(str)}))
        OrCommand(identifiers, start) ==
            IF identifiers.done THEN identifiers
            ELSE InCommand(identifiers.ed, start, WordAt(start, Unescaped(editor.buffer, " ", start)))
        At(ed, token, command) ==
            OrCommand(IF token = command
                      THEN MatchIdentifiers(ed, reg, IF token = 0 THEN <<>> ELSE From(str, token))
                      ELSE NoOp(ed),
                      Max({command, 1}))
        BehindSpaces(from) ==
            IF from = 0 THEN 0 ELSE First({i \in from .. Len(editor.buffer) : editor.buffer[i] # " "})
    IN At([editor EXCEPT !.tabs = @ + 1], GetLastTokenPos(str, " "),
          BehindSpaces(GetLastTokenPos(str, ";")))
=============================================================================
