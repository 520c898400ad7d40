------------------------------- MODULE Episode -------------------------------
(***************************************************************************)
(* What the rollout promises of each sample: an episode played alone.  The *)
(* model speaks for as long as the sample's own budgets allow; when it     *)
(* calls the environment it hears the next reply of its own prompt; other  *)
(* samples, rounds, sorting and ranks do not exist.                        *)
(***************************************************************************)
EXTENDS SampleState, FiniteSets

CONSTANTS
    Ids,        \* the episodes
    PromptLens, \* lengths a prompt may have
    Queues      \* sequences of replies a prompt may come with

VARIABLE episodes   \* episodes[id]: the sample that episode id is at

Init ==
    /\ DOMAIN episodes = Ids
    /\ \A id \in Ids : \E len \in PromptLens, queue \in Queues :
          episodes[id] = NewSample(id, len, queue)

\* One turn of one episode.
Turn(id) ==
    LET s     == episodes[id]
        own   == MaxModelTokens - s.n_model_tokens
        room  == MaxCtx - s.ctx
        limit == IF own < room THEN own ELSE room
    IN /\ Active(s)
       /\ \E out \in Outputs(limit) :
             episodes' = [episodes EXCEPT ![id] = TakeTurn(s, out)]

Next == \E id \in Ids : Turn(id)

Spec == Init /\ [][Next]_episodes /\ \A id \in Ids : WF_episodes(Turn(id))
=============================================================================
