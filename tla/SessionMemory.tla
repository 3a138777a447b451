---------------------------- MODULE SessionMemory ----------------------------
(***************************************************************************)
(* The arithmetic of the rolling summary (app/memory/summarizer.py) and of *)
(* the message window the two generating nodes cut from the history        *)
(* (tool_planner.py, response_generator.py): operators only.  A message    *)
(* list is a sequence whose elements have a field "kind"; the cursor       *)
(* (summarized_message_count) counts the messages already summarised, so   *)
(* messages[cursor + 1] is the first one that is not.                      *)
(***************************************************************************)
EXTENDS Integers, Sequences

\* What maybe_summarize leaves in context_summary: nothing yet, a text, or the
\* empty string the summarizer's LLM may return, which Python takes for false.
Summary == {"none", "empty", "text"}

IsTool(messages, i) == messages[i].kind = "tool"

\* Mutant: the horizon is the last message, whatever it is.
LastMessageHorizon(messages, cursor) == Len(messages) - 1

\* The walk back from the last message over ToolMessages, stopped at the
\* cursor: the largest index that is the cursor or is not a ToolMessage.
\* (An index h counts the messages before it, as in Python.)
SafeHorizon(messages, cursor) ==
    LET last == Len(messages) - 1
    IN  IF last <= cursor
          THEN last
          ELSE CHOOSE h \in cursor .. last :
                 /\ h = cursor \/ ~IsTool(messages, h + 1)
                 /\ \A k \in (h + 1) .. last : IsTool(messages, k + 1)

\* Mutant: > instead of >=.
FiresLate(messages, cursor, n) ==
    SafeHorizon(messages, cursor) > cursor + n

Fires(messages, cursor, n) ==
    SafeHorizon(messages, cursor) >= cursor + n

\* How many leading messages the window skips: the cursor once there is a
\* summary to stand for them, none otherwise.
WindowStart(summary, cursor) ==
    IF summary = "text" /\ cursor > 0 THEN cursor ELSE 0

==============================================================================
