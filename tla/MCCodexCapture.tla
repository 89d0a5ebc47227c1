---------------------------- MODULE MCCodexCapture ----------------------------
(* A subagent's rollout in a small vocabulary: its header, the copied       *)
(* headers of its ancestors, two turn ids, one of them inherited, a trigger *)
(* with its input, prompts, replies and what ends or interrupts a turn.     *)
EXTENDS CodexCapture

Header(id, root, parents, cwd) ==
  [line |-> "header", id |-> id, root |-> root, parents |-> parents, fork |-> None,
   source |-> IF parents = {} THEN None ELSE "subagent", malformed |-> FALSE,
   path |-> IF parents = {} THEN None ELSE id, cwd |-> cwd]

Child  == Header("child", "root", {"parent"}, "w1")
Parent == Header("parent", "root", {"root"}, "w2")
Root   == Header("root", "root", {}, "w3")
Torn   == Header("child", "root", {"parent", "root"}, None)

Context(turn, cwd) == [line |-> "context", turn |-> turn, bad |-> FALSE, cwd |-> cwd]
Message(line, turn, text, to) ==
  [line |-> line, turn |-> turn, bad |-> FALSE, text |-> text, to |-> to]
Marker == [line |-> "marker", on |-> TRUE]
Plain(line) == [line |-> line]

MCHeaders == {Child}

MCLines ==
  { Parent, Context("t2", "w4"), Context("t1", None), Marker,
    Message("agent", None, "plain", "child"), Message("agent", None, "plain", "root"),
    Message("user", "t1", "plain", None), Message("user", None, "system", None),
    Message("assistant", "t1", "plain", None),
    Plain("complete") }
================================================================================
