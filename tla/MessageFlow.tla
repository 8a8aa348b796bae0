---------------------------- MODULE MessageFlow ----------------------------
(* A message through the plugin's three hooks (main.py,                       *)
(* processing/message_processor.py): every message is heard, some ask the     *)
(* model and are then prepared and answered; what is to be remembered is      *)
(* captured by a background task of the first hook or by the last one. The    *)
(* hooks of one event follow each other; those of different events, the       *)
(* background tasks, the start and the stop interleave at every await. What   *)
(* sessions, follow-ups, retrieval and queues make of it is in their modules. *)
EXTENDS Naturals, Sequences

CONSTANTS
    Events,     \* the messages, and the events a proactive reply makes up
    Kinds       \* [group, proactive, asks : BOOLEAN, text : "plain", "command" or "rich"]

VARIABLES
    kind,       \* an event's kind
    service,    \* "starting", "up", "stopped": is_initialized in between
    cfg,        \* [inject, memory, batch : BOOLEAN]; batch: there is a batch processor
    ready,      \* is_embedding_ready
    at,         \* "new", "hearing", "heard", "asked", "capturing", "over"
    recorded,   \* CHAT_RECORDED_KEY, an extra of the event
    task,       \* the background task: "none", "begun", "immediate", "queued", "over"
    history,    \* the chat history: [event, by : "user" or "bot"]
    captured,   \* how often an event was captured
    counted,    \* how often the member's messages were counted for it
    marked      \* groups' marks of a normal reply, by the event that set them

vars == <<kind, service, cfg, ready, at, recorded, task, history, captured, counted, marked>>

Up == service = "up"

Init ==
    /\ kind \in [Events -> Kinds] /\ service = "starting"
    /\ cfg \in [inject : BOOLEAN, memory : BOOLEAN, batch : BOOLEAN]
    /\ ready = FALSE /\ at = [e \in Events |-> "new"] /\ recorded = {}
    /\ task = [e \in Events |-> "none"] /\ history = <<>>
    /\ captured = [e \in Events |-> 0] /\ counted = [e \in Events |-> 0] /\ marked = {}

Goes(e, place) == at' = [at EXCEPT ![e] = place]
Does(e, what) == task' = [task EXCEPT ![e] = what]
Notes(e, by) == history' = IF Up THEN Append(history, [event |-> e, by |-> by]) ELSE history
Counts(e) == counted' = [counted EXCEPT ![e] = @ + 1]

\* capture_and_store_memory: it may find nothing to keep.
Captures(e) == captured' \in {captured, [captured EXCEPT ![e] = @ + 1]}

-----------------------------------------------------------------------------
(* on_all_messages, process_normal_message.                                  *)

Ordinary(e) == kind[e].group /\ ~kind[e].proactive /\ kind[e].text = "plain"

Ignore(e) ==
    /\ at[e] = "new" /\ (~Up \/ ~Ordinary(e))
    /\ Goes(e, "heard")
    /\ UNCHANGED <<kind, service, cfg, ready, recorded, task, history, captured, counted, marked>>

\* Mutant: the event is not marked as recorded.
Hear_Unmarked(e) ==
    /\ at[e] = "new" /\ Up /\ Ordinary(e)
    /\ Counts(e) /\ Notes(e, "user")
    /\ Goes(e, IF cfg.batch THEN "hearing" ELSE "heard")
    /\ UNCHANGED <<kind, service, cfg, ready, recorded, task, captured, marked>>

Hear(e) ==
    /\ at[e] = "new" /\ Up /\ Ordinary(e)
    /\ Counts(e) /\ Notes(e, "user")
    /\ recorded' = recorded \cup {e}
    /\ Goes(e, IF cfg.batch THEN "hearing" ELSE "heard")
    /\ UNCHANGED <<kind, service, cfg, ready, task, captured, marked>>

\* With the persona known, the background task is created.
Spawn(e) ==
    /\ at[e] = "hearing"
    /\ Goes(e, "heard") /\ Does(e, "begun")
    /\ UNCHANGED <<kind, service, cfg, ready, recorded, history, captured, counted, marked>>

\* process_message_batch, by the message's layer; or the classification raises.
Classify(e) ==
    /\ task[e] = "begun"
    /\ \E layer \in IF Up THEN {"over", "immediate", "queued"} ELSE {"over"} : Does(e, layer)
    /\ UNCHANGED <<kind, service, cfg, ready, at, recorded, history, captured, counted, marked>>

\* _handle_immediate_memory, or the batch's processing (see BatchProcessor).
Remember(e) ==
    /\ task[e] \in {"immediate", "queued"}
    /\ Does(e, "over") /\ Captures(e)
    /\ UNCHANGED <<kind, service, cfg, ready, at, recorded, history, counted, marked>>

-----------------------------------------------------------------------------
(* on_llm_request, prepare_llm_context.                                      *)

Asks(e) == at[e] = "heard" /\ kind[e].asks
Prepares == Up /\ cfg.inject /\ ready

Unprepared(e) ==
    /\ Asks(e) /\ ~Prepares
    /\ Goes(e, "asked")
    /\ UNCHANGED <<kind, service, cfg, ready, recorded, task, history, captured, counted, marked>>

\* A group's mark, the member's count and, in a private chat, the message itself.
Prepare(e) ==
    /\ Asks(e) /\ Prepares
    /\ Goes(e, "asked")
    /\ IF kind[e].proactive THEN UNCHANGED <<marked, counted, history>>
       ELSE /\ marked' = IF kind[e].group THEN marked \cup {e} ELSE marked
            /\ Counts(e)
            /\ IF ~kind[e].group /\ kind[e].text # "command" THEN Notes(e, "user") ELSE UNCHANGED history
    /\ UNCHANGED <<kind, service, cfg, ready, recorded, task, captured>>

-----------------------------------------------------------------------------
(* on_llm_response, handle_llm_response.                                     *)

\* The model fails, or nobody was asked.
NoAnswer(e) ==
    /\ at[e] = "asked" \/ (at[e] = "heard" /\ ~kind[e].asks)
    /\ Goes(e, "over")
    /\ UNCHANGED <<kind, service, cfg, ready, recorded, task, history, captured, counted, marked>>

Unheeded(e) ==
    /\ at[e] = "asked" /\ ~(Up /\ cfg.memory)
    /\ Goes(e, "over")
    /\ UNCHANGED <<kind, service, cfg, ready, recorded, task, history, captured, counted, marked>>

\* An answer that is not empty is noted, unless it is rich text, and ends the marks
\* of the group; the message is captured if no task of the first hook sees to it.
Answer(e, reply) ==
    /\ at[e] = "asked" /\ Up /\ cfg.memory
    /\ IF reply = "plain" THEN Notes(e, "bot") ELSE UNCHANGED history
    /\ marked' = IF reply # "empty" /\ kind[e].group /\ ~kind[e].proactive THEN {} ELSE marked
    /\ Goes(e, IF kind[e].proactive \/ e \in recorded \/ kind[e].text = "command"
               THEN "over" ELSE "capturing")
    /\ UNCHANGED <<kind, service, cfg, ready, recorded, task, captured, counted>>

\* With the persona known.
Capture(e) ==
    /\ at[e] = "capturing"
    /\ Goes(e, "over")
    /\ IF Up THEN Captures(e) ELSE UNCHANGED captured
    /\ UNCHANGED <<kind, service, cfg, ready, recorded, task, history, counted, marked>>

-----------------------------------------------------------------------------
Started ==
    /\ service = "starting" /\ service' = "up"
    /\ UNCHANGED <<kind, cfg, ready, at, recorded, task, history, captured, counted, marked>>

\* terminate: _is_initialized first.
Stop ==
    /\ Up /\ service' = "stopped"
    /\ UNCHANGED <<kind, cfg, ready, at, recorded, task, history, captured, counted, marked>>

\* The embedding model is loaded in the background.
Embeds ==
    /\ ~ready /\ ready' = TRUE
    /\ UNCHANGED <<kind, service, cfg, at, recorded, task, history, captured, counted, marked>>

Next ==
    \/ Started \/ Stop \/ Embeds
    \/ \E e \in Events :
         \/ Ignore(e) \/ Hear(e) \/ Spawn(e) \/ Classify(e) \/ Remember(e)
         \/ Unprepared(e) \/ Prepare(e) \/ NoAnswer(e) \/ Unheeded(e) \/ Capture(e)
         \/ \E reply \in {"empty", "plain", "rich"} : Answer(e, reply)

Spec == Init /\ [][Next]_vars

-----------------------------------------------------------------------------
Entry(e, by) == [event |-> e, by |-> by]
Places(e, by) == {i \in DOMAIN history : history[i] = Entry(e, by)}

\* The background task and the last hook never both capture a message.
CapturedOnce == \A e \in Events : captured[e] <= 1

\* The history has a message and its answer once, in this order; what the bot made
\* up and what is a command is neither noted as a user's nor captured.
HistoryTrue ==
    \A e \in Events :
        /\ \A by \in {"user", "bot"} : \A i, j \in Places(e, by) : i = j
        /\ \A i \in Places(e, "user"), j \in Places(e, "bot") : i < j
        /\ kind[e].proactive \/ kind[e].text = "command" =>
             captured[e] = 0 /\ Places(e, "user") = {}

\* The two of them.
FlowSound == CapturedOnce /\ HistoryTrue

\* A plugin that stopped notes nothing any more, whatever hook was under way.
StopSeals == [][service = "stopped" => history' = history /\ counted' = counted]_vars

\* Do not hold: a message that asks the model never enters the layered processing
\* (main.py:279; every ordinary message of a group does); an answer is noted with its
\* question (in a private chat without injection or a ready embedding it is not,
\* message_processor.py:75); what is answered by a plugin with memory enabled is left
\* to somebody to capture (without a batch processor a group's message is not, :365);
\* a message counts once for its member (:99 and :342); a mark ends with its event
\* (:202, :222).
AskersNotLayered == \A e \in Events : kind[e].asks => task[e] = "none"
AnswerHasQuestion == \A e \in Events : ~kind[e].proactive /\ Places(e, "bot") # {} => Places(e, "user") # {}
LeftToSomebody == \A e \in recorded : at[e] = "over" /\ Up => task[e] # "none"
CountsOnce == \A e \in Events : counted[e] <= 1
MarkEnds == \A e \in marked : at[e] # "over"
=============================================================================
