------------------------------- MODULE Parsers -------------------------------
(***************************************************************************)
(* What the adapters make of a line of JSON: how many events it holds and   *)
(* whether it names the session (claude_parser.py, codex_parser.py).  A     *)
(* line is the type of its object and the types of what the object holds:   *)
(* the blocks of a message of claude, the one item of a line of codex.      *)
(***************************************************************************)
EXTENDS Naturals, Sequences, FiniteSets

Line(type, parts) == [type |-> type, parts |-> parts]

\* A line that is no JSON object, and one beyond the reader's limit.
Noise    == Line("noise", <<>>)
Overlong == Line("overlong", <<>>)

\* How many parts are of one of these types?
Count(parts, types) == Cardinality({i \in 1..Len(parts) : parts[i] \in types})

-----------------------------------------------------------------------------
\* Of a message each block that is known becomes an event, of a result its usage.
ClaudeEvents(line) ==
    CASE line.type = "assistant" -> Count(line.parts, {"text", "thinking", "tool_use"})
      [] line.type = "user"      -> Count(line.parts, {"tool_result"})
      [] line.type = "result"    -> 1
      [] OTHER                   -> 0

\* Every object of claude's carries the session_id.
ClaudeNames(line) == line.type \in {"system", "assistant", "user", "result"}

ClaudeLines == {Line("system", <<>>), Line("assistant", <<"text", "tool_use", "image">>),
                Line("user", <<"tool_result">>), Line("result", <<>>)}

-----------------------------------------------------------------------------
\* A completed item: what codex ran is a use and a result.  (Reasoning without text
\* would be nothing.)
CodexItemEvents(item) ==
    CASE item \in {"command_execution", "mcp_tool_call"}    -> 2
      [] item \in {"agent_message", "reasoning", "error"}   -> 1
      [] OTHER                                              -> 0

CodexEvents(line) ==
    CASE line.type = "item.completed"                    -> CodexItemEvents(Head(line.parts))
      [] line.type \in {"turn.completed", "turn.failed"} -> 1
      [] OTHER                                           -> 0

\* The thread is named once.
CodexNames(line) == line.type = "thread.started"

CodexLines == {Line("thread.started", <<>>), Line("turn.failed", <<>>),
               Line("item.completed", <<"command_execution">>),
               Line("item.completed", <<"file_change">>)}

-----------------------------------------------------------------------------
(* parse_line and session_id_of, the callbacks an adapter gives run_process. *)

Lines(provider) == {Noise, Overlong} \cup
                   IF provider = "claude" THEN ClaudeLines ELSE CodexLines
Events(provider, line) ==
    IF provider = "claude" THEN ClaudeEvents(line) ELSE CodexEvents(line)
Names(provider, line) ==
    IF provider = "claude" THEN ClaudeNames(line) ELSE CodexNames(line)
==============================================================================
