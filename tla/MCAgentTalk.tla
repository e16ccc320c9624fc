---------------------------- MODULE MCAgentTalk ----------------------------
(* Two agents on different executors, and two commands at a time, of those  *)
(* that share a file or a session: one may act between the steps of the     *)
(* other, or after it.                                                     *)
EXTENDS AgentTalk

Call(cmd, by, respond, timeout, running) ==
    [cmd |-> cmd, by |-> by, knows |-> TRUE, role |-> "reviewer",
     respond |-> respond, timeout |-> timeout, running |-> running]

Guess(c) == [c EXCEPT !.knows = FALSE]

Start(executors, calls) ==
    [executors |-> executors, status |-> <<"running", "ended">>, calls |-> calls]

Ask      == Call("send", 1, TRUE, FALSE, FALSE)
Send     == Call("send", 2, FALSE, FALSE, FALSE)
Review   == Call("review", 1, TRUE, FALSE, FALSE)
Register == Call("register", 2, FALSE, FALSE, FALSE)
Timed    == Call("callback", 1, FALSE, TRUE, FALSE)
Untimed  == Call("callback", 1, FALSE, FALSE, FALSE)
Exclude  == Call("exclude", 2, FALSE, FALSE, FALSE)
Page     == Call("summary", 1, FALSE, FALSE, FALSE)
PageAll  == Call("summary", 2, FALSE, FALSE, TRUE)

Calls ==
    {<<Ask, Send>>, <<Ask, Register>>, <<Send, Register>>, <<Ask, Guess(Ask)>>,
     <<Review, Register>>, <<Guess(Review), Timed>>, <<Ask, Timed>>,
     <<Timed, Guess(Untimed)>>, <<Timed, Page>>, <<Page, Page>>, <<Page, PageAll>>,
     <<PageAll, Guess(Page)>>, <<Exclude, Page>>, <<Guess(Exclude), PageAll>>,
     <<Send, PageAll>>}

MCStarts ==
    {Start(<<"CODEX", "CLAUDE_CODE">>, calls) : calls \in Calls}
        \cup {Start(<<"CLAUDE_CODE", "CODEX">>, <<Ask, Register>>)}

=============================================================================
