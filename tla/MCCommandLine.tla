--------------------------- MODULE MCCommandLine ---------------------------
(* What the users of the runs type, and the dofiles that are there: one     *)
(* that takes an argument, sources itself with it and goes on, one that     *)
(* quits and has a comment within quotes.                                   *)
EXTENDS CommandLine

T(string) == {[key |-> "type", text |-> Text(string)]}
K(key) == {[key |-> key, text |-> <<>>]}
Keys(keys) == UNION {K(key) : key \in keys}
Types(strings) == UNION {T(string) : string \in strings}
Times(keys, n) == [i \in 1 .. n |-> keys]
Line(strings) == <<Types(strings), K("enter")>>

MCFiles ==
    Text("again") :> [names |-> <<Text("x")>>,
                      lines |-> <<Text("source again $x;zx"), <<>>, Text("qcir $x;")>>]
    @@ Text("leave") :> [names |-> NoNames,
                         lines |-> <<Text("quit -f"), Text("echo '//'"), Text("echo a")>>]
MCMainFiles == {Text("leave")}
MCSubsystems == {Text("qcir"), Text("zx")}

MCFileNames == {Text(f) : f \in {"a b", "a;c", "a;cd", "d$e", "f'g", ".h", "k"}}

MCSessions == {
    \* nothing, or a dofile that qsyn was started with
    [signals |-> 3, keys |-> <<>>],
    \* dofiles, and a history that is cleared
    [signals |-> 1, keys |-> Line({"source again 1"})],
    [signals |-> 2, keys |-> Line({"zx;source leave"})],
    [signals |-> 0, keys |-> Line({"source again 1", "source again", "quit"})
        \o Line({"hist -c", "qcir;;zx", "source leave"}) \o <<K("up")>>],
    \* browsing
    [signals |-> 0, keys |-> Line({"echo a"}) \o Line({"zx"}) \o <<Types({"e", "x"})>>
        \o Times(Keys({"up", "down", "pg_up", "pg_down", "back_space"}) \cup T("z"), 5)
        \o <<K("enter")>> \o <<K("up")>>],
    [signals |-> 1, keys |-> Line({"zx"}) \o <<T("z")>> \o Times(Keys({"up", "down"}), 4)
        \o Line({"", "a"})],
    \* quotes
    [signals |-> 0, keys |-> <<T("echo a")>> \o Times(Types({"a", ";", "'", "\"", " "}), 4)
        \o <<K("enter")>>],
    \* identifiers
    [signals |-> 0, keys |-> Line({"alias e quit", "alias quit zx", "alias -d quit", "alias q zx"})
        \o Line({"unalias e", "unalias quit", "alias -l", "alias quit"})
        \o <<Types({"quit -f", "qu", "e", "q"}), Keys({"enter", "tab"}), K("tab")>>],
    \* variables
    [signals |-> 0, keys |-> Line({"set x e", "set x 'a b'"})
        \o Line({"unset x", "set x b", "set -l", "set y", "set 'x y' b"})
        \o <<Types({"$xcho a", "${x}cho", "zx $x", "zx ${"}), Keys({"enter", "tab"}),
             Keys({"enter", "tab"})>>],
    \* completion
    [signals |-> 0, keys |-> <<T("zx "), Types({"", "'", "\"", "d\\", "b "}),
        Types({"", "a", "d", "f", "k", "a;c"}), K("tab"), K("tab"), Keys({"enter", "tab"})>>],
    [signals |-> 0, keys |-> <<Types({"al", "s", "unset", " ", "zx;unal"}), K("tab"), K("tab")>>],
    \* the cursor
    [signals |-> 0, keys |-> <<T("ab cd")>>
        \o Times(Keys({"left", "right", "home", "end", "prev_word", "next_word", "back_space",
                       "delete"}) \cup T("x"), 5)] }
=============================================================================
