---------------------------- MODULE InsightsRecap ----------------------------
(* The optional recap of an insights page: the cards are read, redacted and   *)
(* sent to an external model, whose answer is validated against what was      *)
(* sent, shown, and kept for a while under a hash of it.  Several pages are   *)
(* served at once and the cards change between them.                          *)
EXTENDS Integers, FiniteSets

CONSTANTS
    Pages,        \* requests served at once
    Figures,      \* figures the observation of a card may hold
    CardSets,     \* bound: what the cards may say, each an observation by id
    Claims,       \* bound: references, and figures, in one answer
    MaxEvidence,  \* maxEvidence
    TTL,          \* cacheTTL; 0 keeps nothing
    Timeout,      \* timeout of one request
    MaxTime,      \* bound: the clock
    Label,        \* the name of a project, model, ... in the concentration card
    Redaction,    \* the fixed text sent in its place
    NoRecap       \* a page without a recap

ASSUME RecapAssumption ==
    /\ {TTL, Timeout, MaxTime, MaxEvidence} \subseteq Nat
    /\ Figures \subseteq Nat /\ Claims \in Nat
    /\ Label \notin Figures /\ Redaction \notin Figures /\ Label # Redaction
    /\ \A c \in CardSets :
          /\ Cardinality(DOMAIN c) <= MaxEvidence
          /\ \A id \in DOMAIN c :
                IF id = "concentration" THEN c[id] = Label ELSE c[id] \in Figures

VARIABLES
    enabled,  \* "off" without a key, "broken" without a usable address, "on"
    cards,    \* the observations of the cards the rows give now, by id
    serving,  \* serving[p]: how far the page p and its recap are
    kept,     \* the client's cache: by evidence, an output and when it expires
    moment    \* the clock

recap == <<enabled, cards, serving, kept, moment>>

AllIds == UNION {DOMAIN c : c \in CardSets}

(* aggregateAIInput                                                           *)
Aggregate(page) ==
    [id \in DOMAIN page |-> IF id = "concentration" THEN Redaction ELSE page[id]]

FiguresOf(evidence) == {evidence[id] : id \in DOMAIN evidence} \cap Figures

(* What the model may answer: references and figures, grounded or not.        *)
Outputs == [refs : {s \in SUBSET AllIds : Cardinality(s) <= Claims},
            figures : {s \in SUBSET Figures : Cardinality(s) <= Claims}]

(* a faulty variant: only the references are compared with the evidence       *)
ValidReferences(output, evidence) == output.refs \subseteq DOMAIN evidence

(* ValidateOutput                                                             *)
ValidOutput(output, evidence) ==
    /\ Cardinality(output.refs) <= MaxEvidence
    /\ output.refs \subseteq DOMAIN evidence
    /\ output.figures \subseteq FiguresOf(evidence)

Unserved == [phase |-> "idle"]

RecapInit ==
    /\ enabled \in {"off", "broken", "on"}
    /\ cards \in CardSets
    /\ serving = [p \in Pages |-> Unserved]
    /\ kept = [e \in {} |-> 0] /\ moment = 0

(* The rows change, and with them the cards.                                  *)
CardsMove ==
    /\ \E c \in CardSets : c # cards /\ cards' = c
    /\ UNCHANGED <<enabled, serving, kept, moment>>

(* A request is served no longer than its timeout.                            *)
TimePasses ==
    /\ moment < MaxTime
    /\ \A p \in Pages : serving[p].phase = "asking" => moment < serving[p].deadline
    /\ moment' = moment + 1
    /\ UNCHANGED <<enabled, cards, serving, kept>>

(* The cards of a page are read; the recap comes after the page's other       *)
(* queries.                                                                   *)
ReadCards(p) ==
    /\ serving[p].phase = "idle"
    /\ serving' = [serving EXCEPT ![p] = [phase |-> "cards", page |-> cards]]
    /\ UNCHANGED <<enabled, cards, kept, moment>>

Finished(p, text, age) ==
    serving' = [serving EXCEPT ![p] =
        [phase |-> "shown", page |-> @.page, text |-> text, age |-> age]]

(* Without a key, or with a configuration that cannot be used.                *)
NoSynthesis(p) ==
    /\ serving[p].phase = "cards" /\ enabled # "on"
    /\ Finished(p, NoRecap, 0)
    /\ UNCHANGED <<enabled, cards, kept, moment>>

Alive(e) == moment < kept[e].expires

(* cached: the entry of this evidence, which is deleted when it has expired.  *)
UseKept(p) ==
    LET evidence == Aggregate(serving[p].page)
    IN /\ serving[p].phase = "cards" /\ enabled = "on"
       /\ evidence \in DOMAIN kept /\ Alive(evidence)
       /\ Finished(p, kept[evidence].output, moment - (kept[evidence].expires - TTL))
       /\ UNCHANGED <<enabled, cards, kept, moment>>

Ask(p) ==
    LET evidence == Aggregate(serving[p].page)
    IN /\ serving[p].phase = "cards" /\ enabled = "on"
       /\ ~(evidence \in DOMAIN kept /\ Alive(evidence))
       /\ kept' = [e \in DOMAIN kept \ {evidence} |-> kept[e]]
       /\ serving' = [serving EXCEPT ![p] =
              [phase |-> "asking", page |-> @.page, body |-> evidence,
               deadline |-> moment + Timeout]]
       /\ UNCHANGED <<enabled, cards, moment>>

(* parseResponse: a complete answer is shown and kept when it is valid.       *)
ModelAnswers(p) ==
    LET evidence == serving[p].body
    IN /\ serving[p].phase = "asking"
       /\ \E output \in Outputs :
            IF ValidOutput(output, evidence)
            THEN /\ Finished(p, output, 0)
                 /\ kept' = IF TTL = 0 THEN kept ELSE
                      [e \in DOMAIN kept \cup {evidence} |->
                          IF e = evidence
                          THEN [output |-> output, expires |-> moment + TTL]
                          ELSE kept[e]]
            ELSE Finished(p, NoRecap, 0) /\ UNCHANGED kept
       /\ UNCHANGED <<enabled, cards, moment>>

(* A timeout, a failed request, a refusal, or a body that is no output.       *)
NoAnswer(p) ==
    /\ serving[p].phase = "asking"
    /\ Finished(p, NoRecap, 0)
    /\ UNCHANGED <<enabled, cards, kept, moment>>

LeavePage(p) ==
    /\ serving[p].phase = "shown"
    /\ serving' = [serving EXCEPT ![p] = Unserved]
    /\ UNCHANGED <<enabled, cards, kept, moment>>

RecapNext ==
    \/ CardsMove \/ TimePasses
    \/ \E p \in Pages : \/ ReadCards(p) \/ NoSynthesis(p) \/ UseKept(p) \/ Ask(p)
                        \/ ModelAnswers(p) \/ NoAnswer(p) \/ LeavePage(p)

RecapSpec == RecapInit /\ [][RecapNext]_recap

-----------------------------------------------------------------------------
(* Pages, cards and cache have the shape the code gives them.                 *)
RecapTypeOK ==
    /\ enabled \in {"off", "broken", "on"} /\ moment \in 0 .. MaxTime
    /\ cards \in CardSets
    /\ \A p \in Pages : /\ serving[p].phase \in {"idle", "cards", "asking", "shown"}
                        /\ serving[p].phase # "idle" => serving[p].page \in CardSets
    /\ \A e \in DOMAIN kept : kept[e].output \in Outputs /\ kept[e].expires \in Nat

(* A recap refers to no card and states no figure its own page does not show, *)
(* whether it was made for this page or kept from another one, whichever      *)
(* pages were asked for at once and however the cards moved meanwhile; it is  *)
(* never older than the time to live; and no request carried the label of the *)
(* concentration card.                                                        *)
RecapGrounded ==
    \A p \in Pages :
          /\ serving[p].phase = "shown" /\ serving[p].text # NoRecap =>
              /\ serving[p].text.refs \subseteq DOMAIN serving[p].page
              /\ serving[p].text.figures \subseteq FiguresOf(serving[p].page)
              /\ serving[p].age = 0 \/ serving[p].age < TTL
          /\ serving[p].phase = "asking" =>
                \A id \in DOMAIN serving[p].body : serving[p].body[id] # Label
=============================================================================
