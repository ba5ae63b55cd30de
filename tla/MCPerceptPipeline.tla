------------------------- MODULE MCPerceptPipeline -------------------------
(* Three of the seven stages: PRECOGNITIVE, whose notes are working_self and *)
(* the attention packet; RESPOND; and PERSIST_RESULT, whose note is the      *)
(* response event with its number in the conversation.                      *)
EXTENDS PerceptPipeline

CONSTANTS plain, padded

MCNeeds == <<{}, {1}, {2}>>
MCStripped == [text \in {plain, padded} |-> plain]
=============================================================================
