------------------------------ MODULE RemotePath ------------------------------
(***************************************************************************)
(* Remote directories: what the window, the configuration and the          *)
(* transport make of what is typed, and what the receiver's shell makes of *)
(* that.  A path is the sequence of its components between slashes, so "/" *)
(* is <<"", "">> and "~/a" is <<"~", "a">>.                                *)
(***************************************************************************)
EXTENDS Sequences, Integers

CONSTANTS
    Controls,     \* components with a control character in them
    Breaks,       \* those with a line break or a NUL in them
    TrimmedEnd,   \* a function: a component without the blanks at its end
    Home          \* the directory $HOME of the receiver, without its first slash

ASSUME HomeIsAPath == Home \in Seq(STRING)
ASSUME EmptyIsText == "" \in STRING   \* which the provers do not know

\* No path: std::nullopt, or a ConfigError.
Invalid == <<>>

IsRelative(path) == Len(path) < 2 \/ path[1] \notin {"", "~"}

\* components, after the turns of the loop: those that say where to go.
Kept(parts) ==
    LET kept[n \in 0..Len(parts)] ==
            IF n = 0 THEN <<>>
            ELSE IF parts[n] \in {"", "."} THEN kept[n - 1]
            ELSE Append(kept[n - 1], parts[n])
    IN  kept

Significant(parts) == Kept(parts)[Len(parts)]

Among(parts, path) == \E i \in DOMAIN path : path[i] \in parts

\* Mutant: every path is made absolute.
AbsoluteDirectory(path) ==
    IF Among(Controls, path) \/ IsRelative(path) \/ Among({".."}, Tail(path)) THEN Invalid
    ELSE <<"">> \o Significant(Tail(path))

\* normalize_remote_directory()
NormalizeRemoteDirectory(path) ==
    LET parts == Significant(Tail(path))
    IN  IF Among(Controls, path) THEN Invalid
        ELSE IF path = <<"~">> THEN path
        ELSE IF IsRelative(path) \/ Among({".."}, Tail(path)) THEN Invalid
        ELSE IF parts # <<>> THEN <<path[1]>> \o parts
        ELSE IF path[1] = "~" THEN <<"~">> ELSE <<"", "">>

\* normalize_remote_path(), for the defaults: "~" alone is refused, and "~/" kept.
NormalizeRemotePath(path) ==
    LET parts == Significant(Tail(path))
    IN  IF Among(Breaks, path) \/ IsRelative(path) \/ Among({".."}, Tail(path))
          THEN Invalid
        ELSE <<path[1]>> \o IF parts # <<>> THEN parts ELSE <<"">>

\* trim() of a path that begins with a slash or a tilde.
TrimPath(path) == [path EXCEPT ![Len(path)] = TrimmedEnd[@]]

\* join_remote()
JoinRemote(directory, file) ==
    IF directory[Len(directory)] = "" /\ Len(directory) > 1
      THEN [directory EXCEPT ![Len(directory)] = file]
      ELSE Append(directory, file)

\* remote_shell_path(), evaluated by the receiver's shell: the path without the
\* first slash.  The rest of it is quoted.
RemoteShellPath(path) ==
    IF path[1] = "~" THEN Home \o Tail(path) ELSE Tail(path)

\* What the receiver would take a path for that somebody types.
Meaning(path) == Significant(RemoteShellPath(path))
=============================================================================
