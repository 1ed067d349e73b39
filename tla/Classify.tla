------------------------------- MODULE Classify ------------------------------
(***************************************************************************)
(* The two questions lib/llm-client.js asks a language model about the     *)
(* lines of an invoice. classifyLinesWithLLM cuts the lines into chunks    *)
(* that a few workers take from one counter; matchLinesWithLLM makes one   *)
(* call, about candidates selectMatchCandidates (item-matching.js) chose.  *)
(* What the model answers is any list of entries; an entry is named by its *)
(* place in the list.                                                      *)
(***************************************************************************)
EXTENDS Integers, Sequences, FiniteSets, FiniteSetsExt, SequencesExt

CONSTANTS
    Lines,       \* lines of the invoice
    BatchSize,   \* CLASSIFY_BATCH_SIZE
    Workers,     \* CLASSIFY_CONCURRENCY
    Stock,       \* number of items in the inventory
    MatchMax,    \* INVOICE_MATCH_MAX_ITEMS
    Ranking,     \* candidates of a line, best first
    MaxReply     \* bound: entries of an answer

ASSUME ClassifyAssumption ==
    /\ {Lines, BatchSize, Workers, Stock, MatchMax, MaxReply} \subseteq Nat \ {0}
    /\ \A r \in Ranking : r \in Seq(1..Stock) /\ IsInjective(r)

VARIABLES
    asked,    \* "classify", or the candidates each line ranks, best first
    next,     \* the counter the workers share
    workers,  \* per worker: its chunk, 0 between two, Over at the end
    chunkResults,
    result    \* what the caller got: per line an answer or Null; what failed

classifyVars == <<asked, next, workers, chunkResults, result>>

Over == -1
Null == [index |-> -1, place |-> 0]
Min2(a, b) == IF a < b THEN a ELSE b
Chunks == (Lines + BatchSize - 1) \div BatchSize
Names(c) == Min2(BatchSize, Lines - (c - 1) * BatchSize)

Item == 1..Stock
Reply == SeqOf(-1..BatchSize, MaxReply)
MatchReply == SeqOf([line : 0..Lines, item : Item], MaxReply)
Pending == <<>>

ClassifyInit ==
    /\ asked \in {<<>>} \cup [1..Lines -> Ranking]
    /\ next = 0
    /\ workers = [w \in 1..Min2(Workers, Chunks) |-> 0]
    /\ chunkResults = [c \in 1..Chunks |-> Pending]
    /\ result = [answers |-> Pending, failed |-> 0]

Classifying == asked = <<>>

------------------------------------------------------------------------------
(***************************************************************************)
(* classifyLinesWithLLM.                                                   *)
(***************************************************************************)
\* mapWithConcurrency: the check and the increment are one step.
TakeChunk(w) ==
    /\ Classifying /\ workers[w] = 0 /\ next < Chunks
    /\ next' = next + 1
    /\ workers' = [workers EXCEPT ![w] = next']
    /\ UNCHANGED <<asked, chunkResults, result>>

NoChunkLeft(w) ==
    /\ Classifying /\ workers[w] = 0 /\ next >= Chunks
    /\ workers' = [workers EXCEPT ![w] = Over]
    /\ UNCHANGED <<asked, next, chunkResults, result>>

\* byIndex: the first entry for each line of the chunk; others are ignored.
\* Mutant: an entry is taken by its place.
ByPlace(reply, i) == IF i < Len(reply) THEN [index |-> reply[i + 1], place |-> i + 1] ELSE Null
ByIndex(reply, i) ==
    LET places == {p \in 1..Len(reply) : reply[p] = i}
    IN  IF places = {} THEN Null ELSE [index |-> i, place |-> Min(places)]

\* The same worker that took the chunk stores its result under its index.
Store(w, answers) ==
    /\ Classifying /\ workers[w] > 0
    /\ chunkResults' = [chunkResults EXCEPT ![workers[w]] = answers]
    /\ workers' = [workers EXCEPT ![w] = 0]
    /\ UNCHANGED <<asked, next, result>>

ChunkAnswered(w) ==
    \E reply \in Reply : Store(w, [i \in 1..Names(workers[w]) |-> ByIndex(reply, i - 1)])

\* A full gate, a timeout, a refusal, an answer without the tool's block.
ChunkFailed(w) == Store(w, [i \in 1..Names(workers[w]) |-> Null])

Classified ==
    /\ Classifying /\ \A w \in DOMAIN workers : workers[w] = Over
    /\ result.answers = Pending
    /\ LET flat == FlattenSeq(chunkResults)
       IN  result' = [answers |-> flat, failed |-> Cardinality({k \in 1..Len(flat) : flat[k] = Null})]
    /\ UNCHANGED <<asked, next, workers, chunkResults>>

------------------------------------------------------------------------------
(***************************************************************************)
(* selectMatchCandidates and matchLinesWithLLM.                            *)
(***************************************************************************)
\* The candidates in the order of the rounds: every line's best, then every
\* line's second, an item in the first place it has.
Round(r) == FlattenSeq([l \in 1..Lines |-> IF r <= Len(asked[l]) THEN <<asked[l][r]>> ELSE <<>>])
RoundRobin == FlattenSeq([r \in 1..Stock |-> Round(r)])

Chosen(order) ==
    {order[i] : i \in {i \in 1..Len(order) : Cardinality({order[j] : j \in 1..i}) <= MatchMax}}
selectMatchCandidates == IF Stock <= MatchMax THEN Item ELSE Chosen(RoundRobin)

\* The last entry for a line that names an offered item; none without items.
MatchOf(reply, l) ==
    LET places == {p \in 1..Len(reply) : reply[p].line = l - 1 /\ reply[p].item \in selectMatchCandidates}
    IN  IF places = {} THEN Null ELSE [index |-> reply[Max(places)].item, place |-> Max(places)]

Matched ==
    /\ ~Classifying /\ result.answers = Pending
    /\ \/ \E reply \in MatchReply : result' = [answers |-> [l \in 1..Lines |-> MatchOf(reply, l)], failed |-> 0]
       \/ result' = [answers |-> [l \in 1..Lines |-> Null], failed |-> Lines]  \* onFailure
    /\ UNCHANGED <<asked, next, workers, chunkResults>>

ClassifyNext ==
    \/ \E w \in DOMAIN workers : TakeChunk(w) \/ NoChunkLeft(w) \/ ChunkAnswered(w) \/ ChunkFailed(w)
    \/ Classified \/ Matched

------------------------------------------------------------------------------
Result == [index : Int, place : Nat]

ClassifyTypeOK ==
    /\ next \in 0..Chunks
    /\ workers \in [1..Min2(Workers, Chunks) -> Over..Chunks]
    /\ \A v, w \in DOMAIN workers : workers[v] = workers[w] /\ workers[v] > 0 => v = w
    /\ \A c \in 1..Chunks : chunkResults[c] \in Seq(Result)
    /\ result.answers \in Seq(Result) /\ result.failed \in 0..Lines

\* In whatever order the chunks are answered, and whatever lines the model
\* leaves out, repeats or invents, the caller gets one answer for each line,
\* the first that was given for that very line, and is told how many have
\* none.
ClassifiedInOrder ==
    Classifying /\ result.answers # Pending =>
        /\ Len(result.answers) = Lines
        /\ \A k \in 1..Lines : result.answers[k] # Null => result.answers[k].index = (k - 1) % BatchSize
        /\ result.failed = Cardinality({k \in 1..Lines : result.answers[k] = Null})

\* The model is offered no more items than the bound, and no line is crowded
\* out: its best candidate is offered whenever there is room for every
\* line's best.
CandidatesShared ==
    ~Classifying /\ Stock > MatchMax =>
        /\ Cardinality(selectMatchCandidates) <= MatchMax
        /\ Lines <= MatchMax => \A l \in 1..Lines : asked[l] # <<>> => asked[l][1] \in selectMatchCandidates
        /\ \A l \in DOMAIN result.answers : result.answers[l] # Null => result.answers[l].index \in selectMatchCandidates

------------------------------------------------------------------------------
(***************************************************************************)
(* The inductive invariant.                                                *)
(***************************************************************************)
\* What is stored for a chunk answers its lines, those it has an answer to
\* under their own place.
Answers(s, c) ==
    /\ s \in Seq(Result) /\ Len(s) = Names(c)
    /\ \A i \in 1..Names(c) : s[i] # Null => s[i].index = i - 1

\* A chunk that was taken is held by a worker or stored, and the workers stop
\* when all are taken.
Held(c) == \E w \in DOMAIN workers : workers[w] = c
ChunksAccounted ==
    /\ chunkResults \in [1..Chunks -> Seq(Result)]
    /\ \A w \in DOMAIN workers : workers[w] <= next /\ (workers[w] = Over => next = Chunks)
    /\ \A c \in 1..Chunks : c <= next => Held(c) \/ Answers(chunkResults[c], c)

Asked == asked \in {<<>>} \cup [1..Lines -> Ranking]

MatchesOffered ==
    ~Classifying => \A l \in DOMAIN result.answers :
                        result.answers[l] # Null => result.answers[l].index \in selectMatchCandidates

ClassifyInv == Asked /\ ClassifyTypeOK /\ ChunksAccounted /\ ClassifiedInOrder /\ MatchesOffered
==============================================================================
