---------------------------- MODULE Conjunction ----------------------------
(* What a bet promises to the Python program: it is a list of filters, a match *)
(* answers for the filters that the bet held when the match began, in their    *)
(* order, and a text that is no filter changes nothing.  A bet may hold        *)
(* NoFilter, which every use that comes upon it dies of.                       *)
EXTENDS Naturals, Sequences, SequencesExt, FilterValues

CONSTANTS Thread, NoCall, MaxFilters

ValueOf(f, d) == IF f = NoFilter THEN "dies" ELSE f[d]

\* The first filter that is not true decides, or the last one.
AnswerOf(filters, d) ==
    LET decides(i) ==
            /\ i = Len(filters) \/ ValueOf(filters[i], d) \notin Truthy
            /\ \A j \in 1..(i - 1) : ValueOf(filters[j], d) \in Truthy
    IN  Extract(ValueOf(filters[CHOOSE i \in DOMAIN filters : decides(i)], d))

VARIABLES filters,  \* those the bet holds
          asked,    \* for every thread, the match it waits for
          answer,   \* for every thread, its answer
          status    \* of the bet and its process

vars == <<filters, asked, answer, status>>

Init ==
    /\ filters \in {<<f>> : f \in Filter \cup {NoFilter}}
    /\ asked = [t \in Thread |-> NoCall]
    /\ answer = [t \in Thread |-> "none"]
    /\ status = "alive"

Add(f) ==
    /\ status = "alive"
    /\ Len(filters) < MaxFilters
    /\ filters' = Append(filters, f)
    /\ UNCHANGED <<asked, answer, status>>

Ask(t, d) ==
    /\ status = "alive" /\ asked[t] = NoCall
    /\ asked' = [asked EXCEPT ![t] = [filters |-> filters, dict |-> d]]
    /\ answer' = [answer EXCEPT ![t] = "none"]
    /\ UNCHANGED <<filters, status>>

Answer(t) ==
    /\ status = "alive" /\ asked[t] # NoCall
    /\ LET a == AnswerOf(asked[t].filters, asked[t].dict)
       IN  /\ a # "dies"
           /\ answer' = [answer EXCEPT ![t] = a]
    /\ asked' = [asked EXCEPT ![t] = NoCall]
    /\ UNCHANGED <<filters, status>>

\* Asserted by a match, by a concat to a bet without a filter in a debug build,
\* or by the end of a bet.
Die ==
    /\ status = "alive"
    /\ \/ Contains(filters, NoFilter)
       \/ \E t \in Thread : asked[t] # NoCall /\ AnswerOf(asked[t].filters, asked[t].dict) = "dies"
    /\ status' = "dead"
    /\ UNCHANGED <<filters, asked, answer>>

Drop ==
    /\ status = "alive" /\ \A t \in Thread : asked[t] = NoCall
    /\ status' = "dropped"
    /\ UNCHANGED <<filters, asked, answer>>

Next ==
    \/ \E f \in Filter \cup {NoFilter} : Add(f)
    \/ \E t \in Thread : Answer(t) \/ \E d \in Dict : Ask(t, d)
    \/ Die
    \/ Drop

Spec == Init /\ [][Next]_vars
=============================================================================
