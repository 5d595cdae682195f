---------------------------- MODULE Server_proofs ----------------------------
(***************************************************************************)
(* Proofs about Server, for any requests and names.  What has been sent    *)
(* for a request depends on its path, on the place it has reached and on   *)
(* what has failed, and on no other request.                               *)
(***************************************************************************)
EXTENDS Server, SequenceTheorems, TLAPS

\* Where nothing has been sent and nothing has failed.
Before == {"config", "userMenu", "find", "read", "transpile", "rest", "body", "rename",
           "parse", "route", "static", "forgotten"}

TypeInv ==
    /\ at \in [Requests -> Before \cup {"emit", "stream", "done"}]
    /\ answers \in [Requests -> Seq({"ok", "error"})]
    /\ left \in [Requests -> SUBSET Names]
    /\ failed \in [Requests -> BOOLEAN]

\* The paths that come to a place.
Comes(p, place) ==
    /\ place \in {"find", "read", "transpile"} => p = "userMenu"
    /\ place = "parse" => p = "markdown"
    /\ place = "rename" => p = "rename"
    /\ place = "emit" => p \in Operations
    /\ place = "stream" => p = "download"
    /\ place \in {"route", "static"} => p \notin Api

\* One answer, which tells the truth; after an error of an emitter perhaps another.
Ended(r) ==
    \/ answers[r] = <<"error">>
    \/ /\ answers[r] = <<"ok">>
       /\ path[r] \in Operations \cup {"rename"} => left[r] = {} /\ ~failed[r]
    \/ /\ answers[r] = <<"error", "ok">>
       /\ path[r] \in Operations /\ failed[r]

AnswerOf(r) ==
    /\ Comes(path[r], at[r])
    /\ at[r] \in Before => answers[r] = <<>> /\ ~failed[r]
    /\ at[r] = "emit" => answers[r] = IF failed[r] THEN <<"error">> ELSE <<>>
    /\ at[r] = "stream" => answers[r] = <<>>
    /\ at[r] = "done" => Ended(r)

AnswerInv == TypeInv /\ \A r \in Requests : AnswerOf(r)

-----------------------------------------------------------------------------
\* No request has got anywhere at first.
LEMMA InitAnswer == Init => AnswerInv
<1> SUFFICES ASSUME Init PROVE AnswerInv
  OBVIOUS
<1>1. TypeInv
  BY DEF Init, TypeInv, Before
<1>2. ASSUME NEW r \in Requests PROVE AnswerOf(r)
  BY DEF Init, AnswerOf, Comes, Before
<1> QED
  BY <1>1, <1>2 DEF AnswerInv

\* What a request r does leaves the others alone.
Alone(r) ==
    /\ UNCHANGED <<path, method>>
    /\ \A q \in Requests \ {r} :
          /\ at'[q] = at[q] /\ answers'[q] = answers[q]
          /\ left'[q] = left[q] /\ failed'[q] = failed[q]

\* It is enough to look at the request that takes the step.
LEMMA OthersAlone ==
  ASSUME AnswerInv, TypeInv', NEW r \in Requests, Alone(r), AnswerOf(r)'
  PROVE  AnswerInv'
<1>1. ASSUME NEW q \in Requests \ {r} PROVE AnswerOf(q)'
  <2>1. AnswerOf(q)
    BY DEF AnswerInv
  <2> QED
    BY <2>1 DEF Alone, AnswerOf, Ended
<1> QED
  BY <1>1 DEF AnswerInv

\* A request that is passed on to a place it may come to.
LEMMA PassKeeps ==
  ASSUME AnswerInv, NEW r \in Requests, NEW here \in Before,
         NEW there \in Before \cup {"emit", "stream"},
         PassesOn(r, here, there), Comes(path[r], there)
  PROVE  AnswerInv'
<1>1. TypeInv /\ AnswerOf(r)
  BY DEF AnswerInv
<1>2. /\ at[r] = here /\ at' = [at EXCEPT ![r] = there]
      /\ path' = path /\ method' = method
      /\ answers' = answers /\ left' = left /\ failed' = failed
  BY DEF PassesOn, Moves, requestVars
<1>3. TypeInv'
  BY <1>1, <1>2 DEF TypeInv
<1>4. Alone(r)
  BY <1>1, <1>2 DEF Alone, TypeInv
<1>5. AnswerOf(r)'
  <2>1. at'[r] = there
    BY <1>1, <1>2 DEF TypeInv
  <2>2. answers[r] = <<>> /\ ~failed[r]
    BY <1>1, <1>2 DEF AnswerOf
  <2> QED
    BY <1>2, <2>1, <2>2 DEF AnswerOf, Before
<1> QED
  BY <1>3, <1>4, <1>5, OthersAlone

\* Whatever is sent at a place where nothing has been sent yet, as long as a good
\* answer is not sent for what is still to be done.
LEMMA AnswerKeeps ==
  ASSUME AnswerInv, NEW r \in Requests, NEW here \in Before,
         \/ AnswersWell(r, here) /\ path[r] \notin Operations \cup {"rename"}
         \/ AnswersError(r, here)
  PROVE  AnswerInv'
<1>1. TypeInv /\ AnswerOf(r)
  BY DEF AnswerInv
<1>2. PICK answer \in {"ok", "error"} :
        /\ at[r] = here /\ at' = [at EXCEPT ![r] = "done"]
        /\ answers' = [answers EXCEPT ![r] = Append(@, answer)]
        /\ path' = path /\ method' = method /\ left' = left
        /\ failed' = failed \/ failed' = [failed EXCEPT ![r] = TRUE]
        /\ answer = "ok" => path[r] \notin Operations \cup {"rename"}
  BY DEF AnswersWell, AnswersError, Answers, Moves, Sends, Fails, requestVars
<1>3. answers[r] = <<>> /\ answers[r] \in Seq({"ok", "error"})
  BY <1>1, <1>2 DEF AnswerOf, TypeInv
<1>4. answers'[r] = <<answer>> /\ at'[r] = "done"
  BY <1>1, <1>2, <1>3 DEF TypeInv
<1>5. TypeInv'
  <2>1. at' \in [Requests -> Before \cup {"emit", "stream", "done"}] /\ left' = left
    BY <1>1, <1>2 DEF TypeInv
  <2>2. answers' \in [Requests -> Seq({"ok", "error"})]
    BY <1>1, <1>2 DEF TypeInv
  <2>3. failed' \in [Requests -> BOOLEAN]
    BY <1>1, <1>2 DEF TypeInv
  <2> QED
    BY <1>1, <2>1, <2>2, <2>3 DEF TypeInv
<1>6. Alone(r)
  BY <1>1, <1>2 DEF Alone, TypeInv
<1>7. AnswerOf(r)'
  BY <1>2, <1>4 DEF AnswerOf, Ended, Comes, Before
<1> QED
  BY <1>5, <1>6, <1>7, OthersAlone

\* fs.rename is all there is to do.
LEMMA RenameKeeps ==
  ASSUME AnswerInv, NEW r \in Requests, Renames(r) PROVE AnswerInv'
<1>1. TypeInv /\ AnswerOf(r)
  BY DEF AnswerInv
<1>2. CASE AnswersError(r, "rename")
  BY <1>2, AnswerKeeps DEF Before
<1>3. CASE /\ Answers(r, "rename", "ok") /\ left' = [left EXCEPT ![r] = {}]
           /\ UNCHANGED <<requestVars, failed>>
  <2>1. /\ at[r] = "rename" /\ at' = [at EXCEPT ![r] = "done"]
        /\ answers' = [answers EXCEPT ![r] = Append(@, "ok")]
        /\ path' = path /\ method' = method /\ failed' = failed
        /\ left' = [left EXCEPT ![r] = {}]
    BY <1>3 DEF Answers, Moves, Sends, requestVars
  <2>2. answers[r] = <<>> /\ ~failed[r] /\ answers[r] \in Seq({"ok", "error"})
    BY <1>1, <2>1 DEF AnswerOf, TypeInv, Before
  <2>3. answers'[r] = <<"ok">> /\ at'[r] = "done" /\ left'[r] = {}
    BY <1>1, <2>1, <2>2 DEF TypeInv
  <2>4. TypeInv'
    BY <1>1, <2>1 DEF TypeInv
  <2>5. Alone(r)
    BY <1>1, <2>1 DEF Alone, TypeInv
  <2>6. AnswerOf(r)'
    BY <2>1, <2>2, <2>3 DEF AnswerOf, Ended, Comes, Before
  <2> QED
    BY <2>4, <2>5, <2>6, OthersAlone
<1> QED
  BY <1>2, <1>3 DEF Renames

\* An operation, name by name, up to an error, and its end.
LEMMA EmitterKeeps ==
  ASSUME AnswerInv, NEW r \in Requests,
         (\E n \in Names : DealsWith(r, n)) \/ EmitsError(r) \/ EmitsEnd(r)
  PROVE  AnswerInv'
<1>1. TypeInv /\ AnswerOf(r)
  BY DEF AnswerInv
<1>2. ASSUME NEW n \in Names, DealsWith(r, n) PROVE AnswerInv'
  <2>1. /\ at[r] \in {"emit", "stream"} /\ left' = [left EXCEPT ![r] = @ \ {n}]
        /\ path' = path /\ method' = method
        /\ at' = at /\ answers' = answers /\ failed' = failed
    BY <1>2 DEF DealsWith, requestVars
  <2>2. TypeInv'
    BY <1>1, <2>1 DEF TypeInv
  <2>3. Alone(r)
    BY <1>1, <2>1 DEF Alone, TypeInv
  <2>4. AnswerOf(r)'
    BY <1>1, <2>1 DEF AnswerOf, Before
  <2> QED
    BY <2>2, <2>3, <2>4, OthersAlone
<1>3. CASE EmitsError(r)
  <2>1. /\ path' = path /\ method' = method /\ at' = at /\ left' = left
        /\ ~failed[r] /\ failed' = [failed EXCEPT ![r] = TRUE]
        /\ \/ at[r] = "emit" /\ answers' = [answers EXCEPT ![r] = Append(@, "error")]
           \/ at[r] = "stream" /\ answers' = answers
    BY <1>3 DEF EmitsError, Sends, Fails, OnError, requestVars
  <2>2. answers[r] = <<>> /\ answers[r] \in Seq({"ok", "error"})
    BY <1>1, <2>1 DEF AnswerOf, TypeInv
  <2>3. /\ at[r] = "emit" => answers'[r] = <<"error">>
        /\ at[r] = "stream" => answers'[r] = <<>>
        /\ failed'[r] = TRUE
    BY <1>1, <2>1, <2>2 DEF TypeInv
  <2>4. TypeInv'
    <3>1. answers' \in [Requests -> Seq({"ok", "error"})]
      <4>1. CASE answers' = answers
        BY <1>1, <4>1 DEF TypeInv
      <4>2. CASE answers' = [answers EXCEPT ![r] = Append(@, "error")]
        BY <1>1, <4>2 DEF TypeInv
      <4> QED
        BY <2>1, <4>1, <4>2
    <3>2. failed' \in [Requests -> BOOLEAN]
      BY <1>1, <2>1 DEF TypeInv
    <3> QED
      BY <1>1, <2>1, <3>1, <3>2 DEF TypeInv
  <2>5. Alone(r)
    BY <1>1, <2>1 DEF Alone, TypeInv
  <2>6. AnswerOf(r)'
    BY <1>1, <2>1, <2>3 DEF AnswerOf, Before
  <2> QED
    BY <2>4, <2>5, <2>6, OthersAlone
<1>4. CASE EmitsEnd(r)
  <2>1. /\ path' = path /\ method' = method /\ left' = left /\ failed' = failed
        /\ left[r] = {} \/ failed[r]
        /\ at[r] = IF path[r] = "download" THEN "stream" ELSE "emit"
        /\ at' = [at EXCEPT ![r] = "done"]
        /\ answers' = [answers EXCEPT ![r] = Append(@, "ok")]
    BY <1>4 DEF EmitsEnd, Answers, Moves, Sends, OnEnd, requestVars
  <2>2. \/ at[r] = "emit" /\ path[r] \in Operations
        \/ at[r] = "stream" /\ path[r] = "download"
    BY <1>1, <2>1 DEF AnswerOf, Comes
  <2>3. /\ answers[r] = <<>> \/ (at[r] = "emit" /\ failed[r] /\ answers[r] = <<"error">>)
        /\ at[r] = "emit" /\ answers[r] = <<>> => ~failed[r]
    BY <1>1, <2>2 DEF AnswerOf
  <2>4. at'[r] = "done" /\ answers'[r] = Append(answers[r], "ok")
    BY <1>1, <2>1 DEF TypeInv
  <2>5. /\ answers[r] = <<>> => answers'[r] = <<"ok">>
        /\ answers[r] = <<"error">> => answers'[r] = <<"error", "ok">>
    <3>1. Append(<<>>, "ok") = <<"ok">>
      OBVIOUS
    <3>2. Append(<<"error">>, "ok") = <<"error", "ok">>
      <4> DEFINE s == Append(<<"error">>, "ok")
                 t == <<"error", "ok">>
      <4>1. s \in Seq({"error", "ok"}) /\ t \in Seq({"error", "ok"})
        OBVIOUS
      <4>2. Len(s) = 2 /\ s[1] = "error" /\ s[2] = "ok"
        OBVIOUS
      <4>3. Len(t) = 2 /\ t[1] = "error" /\ t[2] = "ok"
        OBVIOUS
      <4> HIDE DEF s, t
      <4>4. \A i \in 1..Len(s) : s[i] = t[i]
        BY <4>2, <4>3
      <4>5. s = t
        BY <4>1, <4>2, <4>3, <4>4, SeqEqual
      <4> QED
        BY <4>5 DEF s, t
    <3> QED
      BY <2>4, <3>1, <3>2
  <2>6. TypeInv'
    BY <1>1, <2>1 DEF TypeInv
  <2>7. Alone(r)
    BY <1>1, <2>1 DEF Alone, TypeInv
  <2>8. "download" \notin Operations \cup {"rename"}
    BY DEF Operations
  <2>9. Ended(r)'
    BY <2>1, <2>2, <2>3, <2>5, <2>8 DEF Ended
  <2>10. AnswerOf(r)'
    BY <2>1, <2>4, <2>9 DEF AnswerOf, Comes, Before
  <2> QED
    BY <2>6, <2>7, <2>10, OthersAlone
<1> QED
  BY <1>2, <1>3, <1>4

-----------------------------------------------------------------------------
\* Each middleware sends what is true, or passes on to where that can be said.
LEMMA NextAnswer == AnswerInv /\ [Next]_serverVars => AnswerInv'
<1> SUFFICES ASSUME AnswerInv, [Next]_serverVars PROVE AnswerInv'
  OBVIOUS
<1> USE DEF Before, Comes, Operations, Puts, Api
<1>1. CASE UNCHANGED serverVars
  BY <1>1 DEF serverVars, requestVars, AnswerInv, TypeInv, AnswerOf, Ended
<1>2. ASSUME NEW r \in Requests, ConfigMiddle(r) PROVE AnswerInv'
  BY <1>2, PassKeeps, AnswerKeeps DEF ConfigMiddle
<1>3. ASSUME NEW r \in Requests, UserMenu(r) PROVE AnswerInv'
  BY <1>3, PassKeeps, AnswerKeeps DEF UserMenu
<1>4. ASSUME NEW r \in Requests,
             FindsMenu(r) \/ ReadsMenu(r) \/ TranspilesMenu(r) \/ Parses(r) \/ Static(r)
      PROVE  AnswerInv'
  <2>1. AnswerOf(r)
    BY DEF AnswerInv
  <2> QED
    BY <1>4, <2>1, PassKeeps, AnswerKeeps
       DEF FindsMenu, ReadsMenu, TranspilesMenu, Parses, Static, AnswerOf, PassesOn, Moves,
           AnswersWell, AnswersError, Answers
<1>5. ASSUME NEW r \in Requests, Rest(r) PROVE AnswerInv'
  BY <1>5, PassKeeps, AnswerKeeps DEF Rest
<1>6. ASSUME NEW r \in Requests, BodyFails(r) \/ OnPut(r) PROVE AnswerInv'
  BY <1>6, PassKeeps, AnswerKeeps DEF BodyFails, OnPut, OnPutRename
<1>7. ASSUME NEW r \in Requests, Route(r) PROVE AnswerInv'
  <2>1. AnswerOf(r)
    BY DEF AnswerInv
  <2> QED
    BY <1>7, <2>1, PassKeeps, AnswerKeeps DEF Route, AnswerOf, PassesOn, Moves
<1>8. ASSUME NEW r \in Requests,
             \/ Renames(r) \/ EmitsError(r) \/ EmitsEnd(r)
             \/ \E n \in Names : DealsWith(r, n)
      PROVE  AnswerInv'
  BY <1>8, RenameKeeps, EmitterKeeps
<1> QED
  BY <1>1, <1>2, <1>3, <1>4, <1>5, <1>6, <1>7, <1>8 DEF Next, Handles

\* However the waits of the requests of a backend end, and in whatever order: an
\* operation is reported done only when it is, and an answer is the only one but
\* after an emitter's error.
THEOREM Tells == Spec => []AnswerTells
<1>1. AnswerInv => AnswerTells
  <2> SUFFICES ASSUME AnswerInv, NEW r \in Requests, answers[r] # <<>>
               PROVE  /\ Head(answers[r]) = "ok" /\ method[r] = "PUT"
                         /\ path[r] \in Operations \cup {"rename"}
                           => left[r] = {} /\ ~failed[r]
                      /\ \/ Len(answers[r]) = 1
                         \/ Len(answers[r]) = 2 /\ path[r] \in Operations /\ failed[r]
    BY DEF AnswerTells
  <2>1. TypeInv /\ AnswerOf(r)
    BY DEF AnswerInv
  <2>2. CASE at[r] = "emit"
    <3>1. answers[r] = <<"error">>
      BY <2>1, <2>2 DEF AnswerOf
    <3> QED
      BY <3>1
  <2>3. CASE at[r] = "done"
    <3>1. Ended(r)
      BY <2>1, <2>3 DEF AnswerOf
    <3>2. CASE answers[r] = <<"ok">>
      <4>1. Len(answers[r]) = 1
        BY <3>2
      <4>2. path[r] \in Operations \cup {"rename"} => left[r] = {} /\ ~failed[r]
        BY <3>1, <3>2 DEF Ended
      <4> QED
        BY <4>1, <4>2
    <3>3. CASE answers[r] # <<"ok">>
      <4>1. answers[r] = <<"error">> \/ answers[r] = <<"error", "ok">>
        BY <3>1, <3>3 DEF Ended
      <4>2. Head(answers[r]) = "error"
        BY <4>1
      <4>3. \/ Len(answers[r]) = 1
            \/ Len(answers[r]) = 2 /\ answers[r] = <<"error", "ok">>
        <5>1. CASE answers[r] = <<"error">>
          BY <5>1
        <5>2. CASE answers[r] = <<"error", "ok">>
          BY <5>2
        <5> QED
          BY <4>1, <5>1, <5>2
      <4>4. answers[r] = <<"error", "ok">> => path[r] \in Operations /\ failed[r]
        BY <3>1 DEF Ended
      <4> QED
        BY <4>2, <4>3, <4>4
    <3> QED
      BY <3>2, <3>3
  <2> QED
    BY <2>1, <2>2, <2>3 DEF AnswerOf, TypeInv
<1> QED
  BY InitAnswer, NextAnswer, <1>1, PTL DEF Spec
=============================================================================
