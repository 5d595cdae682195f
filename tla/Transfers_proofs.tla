-------------------------- MODULE Transfers_proofs --------------------------
(***************************************************************************)
(* Proofs about Transfers, for any transfers of any number of files.       *)
(* OpInv is about one transfer and its messages: what settles an operation *)
(* before its end (an error heard or on its way, or 100 % as the last      *)
(* progress), and which of the two sides its dialog waits for.             *)
(***************************************************************************)
EXTENDS Transfers, SequenceTheorems, TLAPS

Kinds    == {"none"} \cup Operations \cup Uploads
OpSteps  == {"free", "prompt", "exists", "choosing", "sent", "running", "uploading",
             "stuck", "ended"}
OpType   == [kind : Kinds, step : OpSteps, left : Nat, progress : BOOLEAN, done : BOOLEAN,
             lastError : BOOLEAN, confirm : BOOLEAN, calls : Nat]
Workers  == {"none", "works", "waits", "over", "lost"}
Events   == {"progress", "100", "error", "end"}
Messages == {"abort", "continue"}

TypeInv ==
    /\ op \in [Ops -> OpType] /\ worker \in [Ops -> Workers]
    /\ down \in [Ops -> Seq(Events)] /\ up \in [Ops -> Seq(Messages)]
    /\ accepted \in BOOLEAN /\ told \subseteq Ops

-----------------------------------------------------------------------------
(* The messages on their way.                                              *)

Has(s, e) == \E i \in 1..Len(s) : s[i] = e

\* e comes last, if at all.
OnlyLast(s, e) == \A i \in 1..Len(s) : s[i] = e => i = Len(s)

\* 100 is the last progress there is, heard or on its way.
Hundred(done, s) ==
    \/ done /\ ~Has(s, "progress")
    \/ \E i \in 1..Len(s) : s[i] = "100" /\ \A j \in (i + 1)..Len(s) : s[j] # "progress"

\* A second message is preceded or made by an abort.
Orderly(s) == Len(s) >= 2 => s[1] = "abort" \/ s[2] = "abort"

-----------------------------------------------------------------------------
(* One transfer.                                                           *)

Works(w) == w \in {"works", "waits"}

Settled(p, d) == p.lastError \/ Has(d, "error") \/ Hundred(p.done, d)

\* Before the server listens, and for uploads always.
Before(p, w, d, u) ==
    /\ p.step \notin {"running", "ended"} => w = "none" /\ d = <<>> /\ u = <<>> /\ ~p.confirm
    /\ p.step # "ended" => p.calls = 0
    /\ p.calls <= 1 /\ p.left <= MaxNames
    /\ p.step \in {"prompt", "exists", "sent"} =>
          p.kind \in Operations /\ p.left > 0 /\ ~p.done
    /\ p.step = "running" => p.kind \in Operations
    /\ p.step \in {"uploading", "stuck"} => p.kind \in Uploads
    /\ p.step = "uploading" => p.left > 0
    /\ p.progress => p.step \in {"running", "uploading", "stuck"}

\* What the server reports to a page that listens.
Reports(p, w, d, o, T) ==
    p.step = "running" =>
      /\ OnlyLast(d, "end")
      /\ Has(d, "end") => w = "over"
      /\ Works(w) /\ p.kind \in Archives => ~Has(d, "error")
      /\ Has(d, "end") /\ p.kind \notin Archives /\ p.left > 0 => o \in T
      /\ Hundred(p.done, d) => p.left <= 1
      /\ w = "waits" => p.left = 0 \/ ~Hundred(p.done, d)
      /\ w = "over" \/ p.left = 0 => Settled(p, d)

\* What is answered to it.
Replies(p, w, d, u, o, T) ==
    p.step = "running" =>
      /\ u # <<>> \/ p.confirm => p.lastError
      /\ w = "works" => ~p.confirm /\ ~Has(d, "error")
      /\ w = "waits" => OnlyLast(d, "error") /\ (p.confirm => d = <<>>)
      /\ Works(w) =>
            /\ Orderly(u)
            /\ Has(u, "abort") => o \in T \/ p.left = 0
            /\ u # <<>> /\ u[1] = "continue" =>
                  w = "waits" /\ ~p.confirm /\ ~Has(d, "error")

\* At the end.
After(p, w, o, T) ==
    p.step = "ended" =>
      /\ ~Works(w) /\ p.calls = 1
      /\ p.kind \notin Archives /\ p.left > 0 => o \in T

InvOf(o) ==
    /\ Before(op[o], worker[o], down[o], up[o])
    /\ Reports(op[o], worker[o], down[o], o, told)
    /\ Replies(op[o], worker[o], down[o], up[o], o, told)
    /\ After(op[o], worker[o], o, told)

OpInv == TypeInv /\ \A o \in Ops : InvOf(o)

-----------------------------------------------------------------------------
(* What the ends of a sequence do to these.                                *)

\* A message is sent.
LEMMA HasAppend ==
  ASSUME NEW S, NEW s \in Seq(S), NEW e \in S
  PROVE  /\ Append(s, e) \in Seq(S) /\ Append(s, e) # <<>>
         /\ \A x : Has(Append(s, e), x) <=> Has(s, x) \/ e = x
         /\ \A x : OnlyLast(Append(s, e), x) <=> ~Has(s, x)
<1> DEFINE t == Append(s, e)
<1>1. /\ t \in Seq(S) /\ Len(t) = Len(s) + 1 /\ Len(s) \in Nat
      /\ t[Len(s) + 1] = e /\ \A i \in 1..Len(s) : t[i] = s[i]
  OBVIOUS
<1>2. t # <<>>
  BY <1>1
<1> HIDE DEF t
<1>3. \A x : Has(t, x) <=> Has(s, x) \/ e = x
  BY <1>1 DEF Has
<1>4. \A x : OnlyLast(t, x) <=> ~Has(s, x)
  BY <1>1 DEF Has, OnlyLast
<1> QED
  BY <1>1, <1>2, <1>3, <1>4 DEF t

\* A message is received.
LEMMA HasTail ==
  ASSUME NEW S, NEW s \in Seq(S), s # <<>>
  PROVE  /\ Tail(s) \in Seq(S) /\ Head(s) \in S /\ s[1] = Head(s)
         /\ \A x : Has(s, x) <=> Head(s) = x \/ Has(Tail(s), x)
         /\ \A x : OnlyLast(s, x) => OnlyLast(Tail(s), x)
         /\ \A x : OnlyLast(s, x) /\ Head(s) = x => Tail(s) = <<>>
<1> DEFINE t == Tail(s)
<1>1. /\ t \in Seq(S) /\ Len(t) = Len(s) - 1 /\ Len(t) \in Nat
      /\ \A i \in 1..Len(t) : t[i] = s[i + 1]
      /\ Head(s) = s[1] /\ Head(s) \in S
  OBVIOUS
<1> HIDE DEF t
<1>2. Len(t) = 0 => t = <<>>
  BY <1>1, EmptySeq
<1>3. \A i \in 1..Len(s) : i = 1 \/ (i - 1 \in 1..Len(t) /\ t[i - 1] = s[i])
  BY <1>1
<1>4. \A i \in 1..Len(t) : i + 1 \in 1..Len(s) /\ t[i] = s[i + 1]
  BY <1>1
<1>5. 1 \in 1..Len(s)
  BY <1>1
<1>6. \A x : Has(s, x) <=> Head(s) = x \/ Has(t, x)
  BY <1>1, <1>3, <1>4, <1>5 DEF Has
<1>7. \A x : OnlyLast(s, x) => OnlyLast(t, x)
  BY <1>1, <1>4 DEF OnlyLast
<1>8. \A x : OnlyLast(s, x) /\ Head(s) = x => t = <<>>
  BY <1>1, <1>2, <1>5 DEF OnlyLast
<1> QED
  BY <1>1, <1>6, <1>7, <1>8 DEF t

\* There is nothing on its way.
LEMMA HasNone ==
  /\ \A x : ~Has(<<>>, x) /\ OnlyLast(<<>>, x)
  /\ \A done \in BOOLEAN : Hundred(done, <<>>) <=> done
  BY DEF Has, OnlyLast, Hundred

\* 100 is the last progress, or not, once more is reported.
LEMMA HundredAppend ==
  ASSUME NEW done \in BOOLEAN, NEW s \in Seq(Events), NEW e \in Events
  PROVE  /\ e = "100" => Hundred(done, Append(s, e))
         /\ e = "progress" => ~Hundred(done, Append(s, e))
         /\ e \in {"error", "end"} => (Hundred(done, Append(s, e)) <=> Hundred(done, s))
<1> DEFINE t == Append(s, e)
<1>1. /\ Len(t) = Len(s) + 1 /\ Len(s) \in Nat
      /\ t[Len(s) + 1] = e /\ \A i \in 1..Len(s) : t[i] = s[i]
  OBVIOUS
<1>2. \A x : Has(t, x) <=> Has(s, x) \/ e = x
  BY HasAppend
<1> HIDE DEF t
<1>3. e = "100" => Hundred(done, t)
  BY <1>1 DEF Hundred
<1>4. e = "progress" => ~Hundred(done, t)
  BY <1>1, <1>2 DEF Hundred
<1>5. e \in {"error", "end"} => (Hundred(done, t) <=> Hundred(done, s))
  BY <1>1, <1>2 DEF Hundred
<1> QED
  BY <1>3, <1>4, <1>5 DEF t

\* What the worker reports comes last.
LEMMA Reported ==
  /\ "progress" \in Events /\ "100" \in Events /\ "error" \in Events /\ "end" \in Events
  /\ \A s \in Seq(Events), e \in Events :
       /\ Append(s, e) \in Seq(Events)
       /\ \A x : Has(Append(s, e), x) <=> Has(s, x) \/ e = x
       /\ \A x : OnlyLast(Append(s, e), x) <=> ~Has(s, x)
<1>1. "progress" \in Events /\ "100" \in Events /\ "error" \in Events /\ "end" \in Events
  BY DEF Events
<1> QED
  BY <1>1, HasAppend

\* Or once more is heard.
LEMMA HundredTail ==
  ASSUME NEW done \in BOOLEAN, NEW s \in Seq(Events), s # <<>>
  PROVE  /\ Head(s) = "100" => (Hundred(done, s) <=> Hundred(TRUE, Tail(s)))
         /\ Head(s) = "progress" => (Hundred(done, s) <=> Hundred(FALSE, Tail(s)))
         /\ Head(s) \in {"error", "end"} => (Hundred(done, s) <=> Hundred(done, Tail(s)))
<1> DEFINE t == Tail(s)
<1>1. /\ Len(t) = Len(s) - 1 /\ Len(t) \in Nat /\ Head(s) = s[1]
      /\ \A i \in 1..Len(t) : t[i] = s[i + 1]
  OBVIOUS
<1>2. Has(s, "progress") <=> Head(s) = "progress" \/ Has(t, "progress")
  BY HasTail
<1> HIDE DEF t
<1>3. ~Has(t, "progress") <=> \A j \in 2..Len(s) : s[j] # "progress"
  <2>1. \A j \in 2..Len(s) : j - 1 \in 1..Len(t) /\ t[j - 1] = s[j]
    BY <1>1
  <2>2. \A i \in 1..Len(t) : i + 1 \in 2..Len(s) /\ t[i] = s[i + 1]
    BY <1>1
  <2> QED
    BY <2>1, <2>2 DEF Has
<1> DEFINE L(u) == \E i \in 1..Len(u) : u[i] = "100" /\ \A j \in (i + 1)..Len(u) : u[j] # "progress"
<1>4. L(t) => L(s)
  <2> SUFFICES ASSUME NEW i \in 1..Len(t), t[i] = "100",
                      \A j \in (i + 1)..Len(t) : t[j] # "progress"
               PROVE  L(s)
    OBVIOUS
  <2>1. i + 1 \in 1..Len(s) /\ s[i + 1] = "100"
    BY <1>1
  <2>2. \A j \in (i + 2)..Len(s) : j - 1 \in (i + 1)..Len(t) /\ t[j - 1] = s[j]
    BY <1>1
  <2>3. \A j \in ((i + 1) + 1)..Len(s) : s[j] # "progress"
    BY <2>2
  <2> QED
    BY <2>1, <2>3
<1>5. L(s) => L(t) \/ (s[1] = "100" /\ \A j \in 2..Len(s) : s[j] # "progress")
  <2> SUFFICES ASSUME NEW i \in 1..Len(s), s[i] = "100", i # 1,
                      \A j \in (i + 1)..Len(s) : s[j] # "progress"
               PROVE  L(t)
    OBVIOUS
  <2>1. i - 1 \in 1..Len(t) /\ t[i - 1] = "100"
    BY <1>1
  <2>2. \A j \in ((i - 1) + 1)..Len(t) : t[j] # "progress"
    BY <1>1
  <2> QED
    BY <2>1, <2>2
<1>6. s[1] = "100" /\ (\A j \in 2..Len(s) : s[j] # "progress") => L(s)
  <2>1. 1 \in 1..Len(s)
    BY <1>1
  <2> QED
    BY <2>1
<1>7. Hundred(done, s) <=> (done /\ ~Has(s, "progress")) \/ L(s)
  BY DEF Hundred
<1>8. \A d : Hundred(d, t) <=> (d /\ ~Has(t, "progress")) \/ L(t)
  BY DEF Hundred
<1> HIDE DEF L
<1> QED
  BY <1>1, <1>2, <1>3, <1>4, <1>5, <1>6, <1>7, <1>8 DEF t

-----------------------------------------------------------------------------
(* One action after the other, of one transfer each.                       *)

\* Transfer o comes to be p, and its messages d and u.
Becomes(o, p, w, d, u) ==
    /\ op' = [op EXCEPT ![o] = p] /\ worker' = [worker EXCEPT ![o] = w]
    /\ down' = [down EXCEPT ![o] = d] /\ up' = [up EXCEPT ![o] = u]
    /\ accepted' = accepted
    /\ told \subseteq told' /\ told' \subseteq told \cup {o}

\* A step of one transfer leaves the others alone.
LEMMA OthersAlone ==
  ASSUME OpInv, NEW o \in Ops, NEW p \in OpType, NEW w \in Workers,
         NEW d \in Seq(Events), NEW u \in Seq(Messages), Becomes(o, p, w, d, u),
         Before(p, w, d, u), Reports(p, w, d, o, told'),
         Replies(p, w, d, u, o, told'), After(p, w, o, told')
  PROVE  OpInv'
<1>1. TypeInv'
  BY DEF OpInv, TypeInv, Becomes
<1>2. InvOf(o)'
  BY DEF OpInv, TypeInv, Becomes, InvOf
<1>3. ASSUME NEW q \in Ops, q # o PROVE InvOf(q)'
  <2>1. /\ op'[q] = op[q] /\ worker'[q] = worker[q] /\ down'[q] = down[q] /\ up'[q] = up[q]
        /\ q \in told => q \in told'
    BY <1>3 DEF OpInv, TypeInv, Becomes
  <2>2. InvOf(q)
    BY DEF OpInv
  <2>3. Before(op[q], worker[q], down[q], up[q])'
    BY <2>1, <2>2 DEF InvOf
  <2>4. Reports(op'[q], worker'[q], down'[q], q, told')
    BY <2>1, <2>2 DEF InvOf, Reports
  <2>5. Replies(op'[q], worker'[q], down'[q], up'[q], q, told')
    BY <2>1, <2>2 DEF InvOf, Replies
  <2>6. After(op'[q], worker'[q], q, told')
    BY <2>1, <2>2 DEF InvOf, After
  <2> QED
    BY <2>3, <2>4, <2>5, <2>6 DEF InvOf
<1> QED
  BY <1>1, <1>2, <1>3 DEF OpInv

\* A transfer that nobody works at yet.
LEMMA Prompts ==
  ASSUME OpInv, NEW o \in Ops, NEW p \in OpType, op' = [op EXCEPT ![o] = p],
         op[o].step \in {"free", "prompt", "exists", "choosing"},
         UNCHANGED <<wires, accepted, told>>,
         Before(p, "none", <<>>, <<>>), p.step \notin {"running", "ended"}
  PROVE  OpInv'
<1>1. /\ op \in [Ops -> OpType] /\ worker \in [Ops -> Workers]
      /\ down \in [Ops -> Seq(Events)] /\ up \in [Ops -> Seq(Messages)]
  BY DEF OpInv, TypeInv
<1>2. worker[o] = "none" /\ down[o] = <<>> /\ up[o] = <<>>
  BY DEF OpInv, InvOf, Before
<1>3. Becomes(o, p, worker[o], down[o], up[o])
  BY <1>1 DEF Becomes, wires
<1>4. /\ Reports(p, worker[o], down[o], o, told') /\ After(p, worker[o], o, told')
      /\ Replies(p, worker[o], down[o], up[o], o, told')
  BY DEF Reports, Replies, After
<1> QED
  BY <1>1, <1>2, <1>3, <1>4, OthersAlone

\* The transfer nobody has asked for.
LEMMA NoOpFields ==
  /\ NoOp \in OpType /\ NoOp.step = "free" /\ NoOp.progress = FALSE /\ NoOp.done = FALSE
  /\ NoOp.confirm = FALSE /\ NoOp.calls = 0 /\ NoOp.left = 0
  BY DEF NoOp, OpType, OpSteps, Kinds

\* F5, F6, F8 and a paste.
LEMMA OperateKeeps ==
  ASSUME OpInv, NEW o \in Ops, NEW kind \in Operations, NEW n \in 1..MaxNames,
         NEW asks \in BOOLEAN, Operate(o, kind, n, asks)
  PROVE  OpInv'
<1> DEFINE s == IF asks THEN "prompt" ELSE "sent"
           p == [NoOp EXCEPT !.kind = kind, !.left = n, !.step = s]
<1>1. kind \in Kinds /\ s \in OpSteps /\ n \in Nat /\ n > 0 /\ n <= MaxNames
  BY TransfersAssumption DEF Kinds, OpSteps
<1>2. s \in {"prompt", "sent"}
  OBVIOUS
<1> HIDE DEF s
<1>3. /\ p \in OpType /\ p.kind = kind /\ p.left = n /\ p.step = s /\ p.progress = FALSE
      /\ p.done = FALSE /\ p.confirm = FALSE /\ p.calls = 0
  BY <1>1, NoOpFields DEF OpType
<1>4. /\ op' = [op EXCEPT ![o] = p] /\ op[o].step = "free"
      /\ UNCHANGED <<wires, accepted, told>>
  BY DEF Operate, s
<1> HIDE DEF p
<1>5. Before(p, "none", <<>>, <<>>)
  BY <1>1, <1>2, <1>3 DEF Before
<1> QED
  BY <1>2, <1>3, <1>4, <1>5, Prompts

\* The files of a drop or of the dialog.
LEMMA UploadKeeps ==
  ASSUME OpInv, NEW o \in Ops, NEW kind \in Uploads, NEW n \in 1..MaxNames,
         NEW from \in {"free", "choosing"}, Upload(o, from, kind, n)
  PROVE  OpInv'
<1> DEFINE b == kind = "entries"
           p == [NoOp EXCEPT !.kind = kind, !.left = n, !.step = "uploading", !.progress = b]
<1>1. /\ kind \in Kinds /\ "uploading" \in OpSteps /\ n \in Nat /\ n > 0 /\ n <= MaxNames
      /\ b \in BOOLEAN
  BY TransfersAssumption DEF Kinds, OpSteps
<1>2. /\ op' = [op EXCEPT ![o] = p] /\ op[o].step = from
      /\ UNCHANGED <<wires, accepted, told>>
  BY DEF Upload
<1> HIDE DEF b
<1>3. /\ p \in OpType /\ p.kind = kind /\ p.left = n /\ p.step = "uploading"
      /\ p.done = FALSE /\ p.confirm = FALSE /\ p.calls = 0
  BY <1>1, NoOpFields DEF OpType
<1> HIDE DEF p
<1>4. Before(p, "none", <<>>, <<>>)
  BY <1>1, <1>3 DEF Before
<1> QED
  BY <1>2, <1>3, <1>4, Prompts

\* The answers to what is asked.
LEMMA AnswerKeeps ==
  ASSUME OpInv, NEW o \in Ops, (\E exists \in BOOLEAN : Answer(o, exists)) \/ Overwrite(o)
  PROVE  OpInv'
<1>1. PICK s \in {"exists", "sent"} :
        /\ op' = [op EXCEPT ![o].step = s] /\ op[o].step \in {"prompt", "exists"}
        /\ UNCHANGED <<wires, accepted, told>>
  BY DEF Answer, Overwrite, Step
<1>2. op \in [Ops -> OpType] /\ op[o] \in OpType
  BY DEF OpInv, TypeInv
<1> DEFINE p == [op[o] EXCEPT !.step = s]
<1>3. /\ p \in OpType /\ p.kind = op[o].kind /\ p.left = op[o].left /\ p.step = s
      /\ p.progress = op[o].progress /\ p.done = op[o].done /\ p.confirm = op[o].confirm
      /\ p.calls = op[o].calls
  BY <1>2 DEF OpType, OpSteps
<1>4. op' = [op EXCEPT ![o] = p]
  BY <1>1, <1>2
<1> HIDE DEF p
<1>5. Before(p, "none", <<>>, <<>>)
  BY <1>1, <1>3 DEF OpInv, InvOf, Before
<1> QED
  BY <1>1, <1>3, <1>4, <1>5, Prompts

\* Without an answer nothing has begun; the dialog of uploads appears.
LEMMA DismissKeeps ==
  ASSUME OpInv, NEW o \in Ops, Dismiss(o) \/ ShowUpload(o)
  PROVE  OpInv'
<1>1. op \in [Ops -> OpType] /\ op[o] \in OpType
  BY DEF OpInv, TypeInv
<1>2. CASE Dismiss(o)
  <2>1. Before(NoOp, "none", <<>>, <<>>)
    BY NoOpFields, TransfersAssumption DEF Before
  <2> QED
    BY <1>2, <2>1, NoOpFields, Prompts DEF Dismiss
<1>3. CASE ShowUpload(o)
  <2> DEFINE p == [op[o] EXCEPT !.kind = "files", !.step = "choosing"]
  <2>1. "files" \in Kinds /\ "choosing" \in OpSteps
    BY DEF Kinds, Uploads, OpSteps
  <2>2. /\ p \in OpType /\ p.left = op[o].left /\ p.step = "choosing"
        /\ p.progress = op[o].progress /\ p.confirm = op[o].confirm /\ p.calls = op[o].calls
    BY <1>1, <2>1 DEF OpType
  <2>3. op' = [op EXCEPT ![o] = p] /\ op[o].step = "free"
    BY <1>1, <1>3 DEF ShowUpload
  <2> HIDE DEF p
  <2>4. Before(p, "none", <<>>, <<>>)
    BY <2>2, <2>3 DEF OpInv, InvOf, Before
  <2> QED
    BY <1>3, <2>2, <2>3, <2>4, Prompts DEF ShowUpload
<1> QED
  BY <1>2, <1>3

-----------------------------------------------------------------------------
(* What the server does and reports.                                       *)

\* The state of one transfer, by its parts.
LEMMA Parts ==
  ASSUME OpInv, NEW o \in Ops
  PROVE  /\ op \in [Ops -> OpType] /\ worker \in [Ops -> Workers]
         /\ down \in [Ops -> Seq(Events)] /\ up \in [Ops -> Seq(Messages)]
         /\ op[o] \in OpType /\ worker[o] \in Workers
         /\ down[o] \in Seq(Events) /\ up[o] \in Seq(Messages)
         /\ op[o].done \in BOOLEAN /\ op[o].left \in Nat
         /\ Before(op[o], worker[o], down[o], up[o])
         /\ Reports(op[o], worker[o], down[o], o, told)
         /\ Replies(op[o], worker[o], down[o], up[o], o, told)
         /\ After(op[o], worker[o], o, told)
         /\ Works(worker[o]) => op[o].step = "running"
  BY DEF OpInv, TypeInv, InvOf, OpType, Before, After, Works

\* Nothing has happened yet when the page begins to listen.
LEMMA ListenKeeps ==
  ASSUME OpInv, NEW o \in Ops, Listen(o)
  PROVE  OpInv'
<1> USE Parts
<1> DEFINE p == [op[o] EXCEPT !.step = "running", !.progress = TRUE]
<1>1. /\ p \in OpType /\ p.step = "running" /\ p.kind = op[o].kind /\ p.left = op[o].left
      /\ p.done = op[o].done /\ p.confirm = op[o].confirm /\ p.calls = op[o].calls
  BY DEF OpType, OpSteps
<1>2. Becomes(o, p, "works", down[o], up[o]) /\ "works" \in Workers /\ op[o].step = "sent"
  BY DEF Listen, Becomes, Workers
<1> HIDE DEF p
<1>3. /\ down[o] = <<>> /\ up[o] = <<>> /\ ~p.confirm /\ ~p.done /\ p.left > 0
      /\ p.kind \in Operations /\ p.calls = 0 /\ p.left <= MaxNames
  BY <1>1, <1>2 DEF Before
<1>4. \A x : ~Has(<<>>, x) /\ OnlyLast(<<>>, x)
  BY HasNone
<1>5. ~Hundred(p.done, <<>>)
  BY <1>3, HasNone DEF Hundred, Has
<1>6. Before(p, "works", down[o], up[o]) /\ After(p, "works", o, told')
  BY <1>1, <1>3 DEF Before, After
<1>7. Reports(p, "works", down[o], o, told')
  BY <1>1, <1>3, <1>4, <1>5 DEF Reports
<1>8. Replies(p, "works", down[o], up[o], o, told')
  BY <1>1, <1>3, <1>4 DEF Replies, Orderly, Has
<1> QED
  BY <1>1, <1>2, <1>6, <1>7, <1>8, OthersAlone

\* The last name is reported as 100, an earlier one as it may be.
LEMMA NameDoneKeeps ==
  ASSUME OpInv, NEW o \in Ops, NameDone(o)
  PROVE  OpInv'
<1> USE Parts
<1>1. PICK e \in {"100", "progress"} :
        /\ down' = [down EXCEPT ![o] = Append(@, e)]
        /\ e = "100" => op[o].left \in {1, 2}
        /\ e = "progress" => op[o].left # 1
  BY DEF NameDone, Report
<1> DEFINE p == [op[o] EXCEPT !.left = op[o].left - 1]
           d == Append(down[o], e)
<1>2. op[o].left > 0 /\ worker[o] = "works" /\ op[o].step = "running"
  BY DEF NameDone, Works
<1>3. /\ p \in OpType /\ p.step = "running" /\ p.kind = op[o].kind /\ p.left = op[o].left - 1
      /\ p.done = op[o].done /\ p.confirm = op[o].confirm /\ p.calls = op[o].calls
      /\ p.lastError = op[o].lastError /\ p.progress = op[o].progress
  <2>1. op[o].left - 1 \in Nat
    BY <1>2
  <2> QED
    BY <1>2, <2>1 DEF OpType
<1>4. Becomes(o, p, worker[o], d, up[o])
  BY <1>1 DEF NameDone, Becomes
<1>5. /\ d \in Seq(Events) /\ \A x : Has(d, x) <=> Has(down[o], x) \/ e = x
      /\ OnlyLast(d, "end") <=> ~Has(down[o], "end")
  BY Reported
<1>6. (e = "100" => Hundred(p.done, d)) /\ (e = "progress" => ~Hundred(p.done, d))
  BY <1>3, Reported, HundredAppend
<1> HIDE DEF p, d
<1>7. Before(p, worker[o], d, up[o]) /\ After(p, worker[o], o, told')
  BY <1>2, <1>3, TransfersAssumption DEF Before, After
<1>8. Reports(p, worker[o], d, o, told')
  BY <1>1, <1>2, <1>3, <1>5, <1>6 DEF Reports, Works, Settled
<1>9. Replies(p, worker[o], d, up[o], o, told')
  BY <1>1, <1>2, <1>3, <1>4, <1>5 DEF Replies, Works, Becomes
<1> QED
  BY <1>3, <1>4, <1>5, <1>7, <1>8, <1>9, OthersAlone

\* A name that fails stops the worker, an archive's for good.
LEMMA NameFailsKeeps ==
  ASSUME OpInv, NEW o \in Ops, NameFails(o)
  PROVE  OpInv'
<1> USE Parts
<1> DEFINE p == [op[o] EXCEPT !.left = op[o].left - 1]
           d == Append(down[o], "error")
           e == Append(d, "end")
           archive == op[o].kind \in Archives
<1>1. op[o].left > 0 /\ worker[o] = "works" /\ op[o].step = "running"
  BY DEF NameFails, Works
<1>2. /\ p \in OpType /\ p.step = "running" /\ p.kind = op[o].kind /\ p.left = op[o].left - 1
      /\ p.done = op[o].done /\ p.confirm = op[o].confirm /\ p.calls = op[o].calls
      /\ p.lastError = op[o].lastError /\ p.progress = op[o].progress
  <2>1. op[o].left - 1 \in Nat
    BY <1>1
  <2> QED
    BY <1>1, <2>1 DEF OpType
<1>3. /\ d \in Seq(Events) /\ \A x : Has(d, x) <=> Has(down[o], x) \/ "error" = x
      /\ \A x : OnlyLast(d, x) <=> ~Has(down[o], x)
  BY Reported
<1>5. Hundred(p.done, d) <=> Hundred(op[o].done, down[o])
  BY <1>2, Reported, HundredAppend
<1> HIDE DEF d
<1>4. /\ e \in Seq(Events) /\ \A x : Has(e, x) <=> Has(d, x) \/ "end" = x
      /\ \A x : OnlyLast(e, x) <=> ~Has(d, x)
  BY <1>3, Reported
<1>6. Hundred(p.done, e) <=> Hundred(op[o].done, down[o])
  BY <1>2, <1>3, <1>5, Reported, HundredAppend
<1>7. \/ archive /\ (Becomes(o, p, "over", d, up[o]) \/ Becomes(o, p, "over", e, up[o]))
      \/ ~archive /\ Becomes(o, p, "waits", d, up[o])
  <2>1. down[o] \o <<"error", "end">> = e
    BY DEF d
  <2>2. op' = [op EXCEPT ![o] = p] /\ up' = [up EXCEPT ![o] = up[o]]
        /\ accepted' = accepted /\ told' = told
    BY DEF NameFails
  <2>3. worker' = [worker EXCEPT ![o] = IF archive THEN "over" ELSE "waits"]
    BY DEF NameFails
  <2>4. down' = [down EXCEPT ![o] = d] \/ (archive /\ down' = [down EXCEPT ![o] = e])
    BY <2>1 DEF NameFails, Report, d
  <2> QED
    BY <2>2, <2>3, <2>4 DEF Becomes
<1> HIDE DEF p, e, archive
<1>8. ASSUME archive, NEW f \in {d, e}, Becomes(o, p, "over", f, up[o]) PROVE OpInv'
  <2>1. /\ Has(f, "error") /\ OnlyLast(f, "end") /\ f \in Seq(Events) /\ "over" \in Workers
        /\ Hundred(p.done, f) <=> Hundred(op[o].done, down[o])
    BY <1>1, <1>3, <1>4, <1>5, <1>6 DEF Reports, Works, Workers
  <2>2. Before(p, "over", f, up[o]) /\ After(p, "over", o, told')
    BY <1>1, <1>2, TransfersAssumption DEF Before, After
  <2>3. Reports(p, "over", f, o, told')
    BY <1>1, <1>2, <1>8, <2>1 DEF Reports, Works, Settled, archive
  <2>4. Replies(p, "over", f, up[o], o, told')
    BY <1>1, <1>2 DEF Replies, Works
  <2> QED
    BY <1>2, <1>8, <2>1, <2>2, <2>3, <2>4, OthersAlone
<1>9. ASSUME ~archive, Becomes(o, p, "waits", d, up[o]) PROVE OpInv'
  <2>1. Has(d, "error") /\ OnlyLast(d, "end") /\ ~Has(d, "end") /\ OnlyLast(d, "error")
        /\ "waits" \in Workers
    BY <1>1, <1>3 DEF Reports, Replies, Works, Workers
  <2>2. Before(p, "waits", d, up[o]) /\ After(p, "waits", o, told')
    BY <1>1, <1>2, TransfersAssumption DEF Before, After
  <2>3. Reports(p, "waits", d, o, told')
    BY <1>1, <1>2, <1>5, <1>9, <2>1 DEF Reports, Works, Settled, archive
  <2>4. Replies(p, "waits", d, up[o], o, told')
    BY <1>1, <1>2, <1>9, <2>1 DEF Replies, Works, Becomes
  <2> QED
    BY <1>2, <1>3, <1>9, <2>1, <2>2, <2>3, <2>4, OthersAlone
<1> QED
  BY <1>7, <1>8, <1>9

\* All names have been dealt with.
LEMMA WorkEndsKeeps ==
  ASSUME OpInv, NEW o \in Ops, WorkEnds(o)
  PROVE  OpInv'
<1> USE Parts
<1> DEFINE d == Append(down[o], "end")
<1>1. op[o].left = 0 /\ worker[o] = "works" /\ op[o].step = "running"
  BY DEF WorkEnds, Works
<1>2. /\ d \in Seq(Events) /\ \A x : Has(d, x) <=> Has(down[o], x) \/ "end" = x
      /\ \A x : OnlyLast(d, x) <=> ~Has(down[o], x)
  BY Reported
<1>3. Hundred(op[o].done, d) <=> Hundred(op[o].done, down[o])
  BY Reported, HundredAppend
<1>4. Becomes(o, op[o], "over", d, up[o]) /\ "over" \in Workers
  BY DEF WorkEnds, Report, Becomes, Workers
<1> HIDE DEF d
<1>5. Before(op[o], "over", d, up[o]) /\ After(op[o], "over", o, told')
  BY <1>1 DEF Before, After
<1>6. Reports(op[o], "over", d, o, told')
  BY <1>1, <1>2, <1>3 DEF Reports, Works, Settled
<1>7. Replies(op[o], "over", d, up[o], o, told')
  BY <1>1 DEF Replies, Works
<1> QED
  BY <1>2, <1>4, <1>5, <1>6, <1>7, OthersAlone

\* An abort that the worker obeys was sent by a page that has noted the error; a
\* `continue' finds it waiting.
LEMMA ObeyKeeps ==
  ASSUME OpInv, NEW o \in Ops, Obey(o)
  PROVE  OpInv'
<1> USE Parts
<1> DEFINE u == Tail(up[o])
           d == Append(down[o], "end")
<1>1. up[o] # <<>> /\ op[o].step \in {"running", "ended"}
  BY DEF Obey, Before
<1>2. /\ u \in Seq(Messages) /\ Head(up[o]) \in Messages /\ up[o][1] = Head(up[o])
      /\ \A x : Has(up[o], x) <=> Head(up[o]) = x \/ Has(u, x)
  BY <1>1, HasTail
<1>3. Orderly(up[o]) /\ Head(up[o]) = "continue" /\ u # <<>> => u[1] = "abort" /\ Orderly(u)
  <2>1. u # <<>> => Len(up[o]) >= 2 /\ u[1] = up[o][2]
    BY <1>1, <1>2, EmptySeq
  <2> QED
    BY <1>2, <2>1 DEF Orderly
<1>4. /\ d \in Seq(Events) /\ \A x : Has(d, x) <=> Has(down[o], x) \/ "end" = x
      /\ \A x : OnlyLast(d, x) <=> ~Has(down[o], x)
  BY Reported
<1>5. Orderly(<<>>)
  BY DEF Orderly
<1>6. \/ ~Works(worker[o]) /\ Becomes(o, op[o], worker[o], down[o], u)
      \/ Works(worker[o]) /\ Head(up[o]) = "abort" /\ Becomes(o, op[o], "over", d, u)
      \/ Works(worker[o]) /\ Head(up[o]) = "continue" /\ Becomes(o, op[o], "works", down[o], u)
  BY <1>2 DEF Obey, Becomes, Works, Report, Messages
<1> HIDE DEF u
<1>7. CASE ~Works(worker[o]) /\ Becomes(o, op[o], worker[o], down[o], u)
  <2>1. Before(op[o], worker[o], down[o], u) /\ After(op[o], worker[o], o, told')
    BY <1>1, <1>7 DEF Before, After, Obey
  <2>2. Reports(op[o], worker[o], down[o], o, told')
    BY <1>7 DEF Reports, Obey
  <2>3. Replies(op[o], worker[o], down[o], u, o, told')
    BY <1>1, <1>7 DEF Replies, Works
  <2> QED
    BY <1>2, <1>7, <2>1, <2>2, <2>3, OthersAlone
<1>8. CASE Works(worker[o]) /\ Head(up[o]) = "abort" /\ Becomes(o, op[o], "over", d, u)
  <2>1. op[o].step = "running" /\ op[o].lastError /\ (o \in told \/ op[o].left = 0)
        /\ "over" \in Workers
    BY <1>1, <1>2, <1>8 DEF Replies, Workers
  <2>2. Before(op[o], "over", d, u) /\ After(op[o], "over", o, told')
    BY <2>1 DEF Before, After
  <2>3. Reports(op[o], "over", d, o, told')
    <3>1. Hundred(op[o].done, d) <=> Hundred(op[o].done, down[o])
      BY Reported, HundredAppend
    <3> HIDE DEF d
    <3> QED
      BY <1>4, <1>8, <2>1, <3>1 DEF Reports, Works, Settled, Becomes
  <2>4. Replies(op[o], "over", d, u, o, told')
    BY <2>1 DEF Replies, Works
  <2> HIDE DEF d
  <2> QED
    BY <1>2, <1>4, <1>8, <2>1, <2>2, <2>3, <2>4, OthersAlone
<1>9. CASE Works(worker[o]) /\ Head(up[o]) = "continue" /\ Becomes(o, op[o], "works", down[o], u)
  <2>1. /\ op[o].step = "running" /\ worker[o] = "waits" /\ ~op[o].confirm
        /\ ~Has(down[o], "error") /\ Orderly(up[o]) /\ "works" \in Workers
    BY <1>1, <1>2, <1>9 DEF Replies, Workers
  <2>2. Before(op[o], "works", down[o], u) /\ After(op[o], "works", o, told')
    BY <2>1 DEF Before, After
  <2>3. Reports(op[o], "works", down[o], o, told')
    BY <1>9, <2>1 DEF Reports, Works, Obey
  <2>4. Replies(op[o], "works", down[o], u, o, told')
    <3>1. Orderly(u) /\ (u # <<>> => u[1] = "abort")
      BY <1>3, <1>5, <1>9, <2>1
    <3> QED
      BY <1>1, <1>2, <1>9, <2>1, <3>1 DEF Replies, Works, Obey
  <2> QED
    BY <1>2, <1>9, <2>1, <2>2, <2>3, <2>4, OthersAlone
<1> QED
  BY <1>6, <1>7, <1>8, <1>9

\* What a lost server had promised, it promises no more.
LEMMA DiesKeeps ==
  ASSUME OpInv, BackendDies
  PROVE  OpInv'
<1>1. TypeInv'
  BY EmptySeq DEF OpInv, TypeInv, BackendDies, Workers
<1>2. ASSUME NEW o \in Ops PROVE InvOf(o)'
  <2> USE Parts
  <2>1. /\ op'[o] = op[o] /\ down'[o] = down[o] /\ up'[o] = <<>>
        /\ told' = told
        /\ worker'[o] = IF Works(worker[o]) THEN "lost" ELSE worker[o]
    BY DEF BackendDies, Works
  <2>2. ~Works(worker'[o]) /\ (worker'[o] = "over" => worker[o] = "over")
        /\ (worker'[o] = "none" <=> worker[o] = "none")
    BY <2>1 DEF Works
  <2>3. Before(op'[o], worker'[o], down'[o], up'[o]) /\ After(op'[o], worker'[o], o, told')
    BY <2>1, <2>2 DEF Before, After
  <2>4. Reports(op'[o], worker'[o], down'[o], o, told')
    BY <2>1, <2>2 DEF Reports, Works
  <2>5. Replies(op'[o], worker'[o], down'[o], up'[o], o, told')
    BY <2>1, <2>2 DEF Replies, Works
  <2> QED
    BY <2>3, <2>4, <2>5 DEF InvOf
<1> QED
  BY <1>1, <1>2 DEF OpInv

-----------------------------------------------------------------------------
(* What the page hears, and answers.                                       *)

\* After the end nobody listens.
LEMMA UnheardKeeps ==
  ASSUME OpInv, NEW o \in Ops, Unheard(o)
  PROVE  OpInv'
<1> USE Parts
<1>1. op[o].step = "ended"
  BY DEF Unheard, Listening, Before
<1>2. Tail(down[o]) \in Seq(Events)
  BY HasTail DEF Unheard
<1>3. Becomes(o, op[o], worker[o], Tail(down[o]), up[o])
  BY DEF Unheard, Becomes
<1>4. Before(op[o], worker[o], Tail(down[o]), up[o]) /\ After(op[o], worker[o], o, told')
  BY <1>1 DEF Before, After, Unheard
<1>5. /\ Reports(op[o], worker[o], Tail(down[o]), o, told')
      /\ Replies(op[o], worker[o], Tail(down[o]), up[o], o, told')
  BY <1>1 DEF Reports, Replies
<1> QED
  BY <1>2, <1>3, <1>4, <1>5, OthersAlone

\* The page takes over what the message said of the progress.
LEMMA OnProgressKeeps ==
  ASSUME OpInv, NEW o \in Ops, OnProgress(o)
  PROVE  OpInv'
<1> USE Parts
<1>1. PICK e \in {"progress", "100"} :
        /\ Event(o, e) /\ op' = [op EXCEPT ![o].done = e = "100"]
        /\ UNCHANGED <<worker, up, accepted, told>> /\ op[o].step = "running"
  BY DEF OnProgress, Listening
<1> DEFINE h == e = "100"
           p == [op[o] EXCEPT !.done = h]
           d == Tail(down[o])
<1>2. op' = [op EXCEPT ![o] = p] /\ h \in BOOLEAN /\ Head(down[o]) = e
  BY <1>1 DEF Event
<1> HIDE DEF h
<1>3. /\ p \in OpType /\ p.step = "running" /\ p.kind = op[o].kind /\ p.left = op[o].left
      /\ p.done = h /\ p.confirm = op[o].confirm /\ p.calls = op[o].calls
      /\ p.lastError = op[o].lastError /\ p.progress = op[o].progress
  BY <1>1, <1>2 DEF OpType
<1>4. Becomes(o, p, worker[o], d, up[o])
  BY <1>1, <1>2 DEF Event, Becomes
<1>5. /\ d \in Seq(Events) /\ \A x : Has(down[o], x) <=> e = x \/ Has(d, x)
      /\ \A x : OnlyLast(down[o], x) => OnlyLast(d, x)
  BY <1>1, HasTail DEF Event
<1>6. Hundred(op[o].done, down[o]) <=> Hundred(h, d)
  <2>1. CASE e = "100"
    <3>1. Hundred(h, d) <=> Hundred(TRUE, d)
      <4>1. h = TRUE
        BY <2>1 DEF h
      <4> QED
        BY <4>1
    <3>2. /\ op[o].done \in BOOLEAN /\ down[o] \in Seq(Events) /\ down[o] # <<>>
          /\ Head(down[o]) = "100"
      BY <1>1, <2>1 DEF Event
    <3>3. Hundred(op[o].done, down[o]) <=> Hundred(TRUE, Tail(down[o]))
      BY <3>2, HundredTail
    <3> QED
      BY <3>1, <3>3
  <2>2. CASE e = "progress"
    <3>1. Hundred(h, d) <=> Hundred(FALSE, d)
      <4>1. h = FALSE
        BY <2>2 DEF h
      <4> QED
        BY <4>1
    <3>2. /\ op[o].done \in BOOLEAN /\ down[o] \in Seq(Events) /\ down[o] # <<>>
          /\ Head(down[o]) = "progress"
      BY <1>1, <2>2 DEF Event
    <3>3. Hundred(op[o].done, down[o]) <=> Hundred(FALSE, Tail(down[o]))
      BY <3>2, HundredTail
    <3> QED
      BY <3>1, <3>3
  <2> QED
    BY <2>1, <2>2
<1>7. down[o] # <<>>
  BY <1>1 DEF Event
<1> HIDE DEF p, d
<1>8. Before(p, worker[o], d, up[o]) /\ After(p, worker[o], o, told')
  BY <1>1, <1>3 DEF Before, After
<1>9. Reports(p, worker[o], d, o, told')
  BY <1>1, <1>3, <1>5, <1>6 DEF Reports, Works, Settled
<1>10. Replies(p, worker[o], d, up[o], o, told')
  BY <1>1, <1>3, <1>5, <1>7 DEF Replies, Works
<1> QED
  BY <1>3, <1>4, <1>5, <1>8, <1>9, <1>10, OthersAlone

\* An operation ends with its callback.
LEMMA FinishKeeps ==
  ASSUME OpInv, NEW o \in Ops, NEW l \in BOOLEAN, Finish(o, l), op[o].step = "running",
         down[o] # <<>>, down' = [down EXCEPT ![o] = Tail(@)],
         UNCHANGED <<worker, up, accepted, told>>,
         ~Works(worker[o]), CallsBack(op[o].done, l),
         op[o].kind \notin Archives /\ op[o].left > 0 => o \in told
  PROVE  OpInv'
<1> USE Parts
<1> DEFINE h == op[o].done /\ op[o].confirm
           p == [op[o] EXCEPT !.step = "ended", !.progress = FALSE, !.lastError = FALSE,
                              !.done = h, !.calls = 1]
<1>1. op[o].calls = 0
  BY DEF Before
<1>2. op' = [op EXCEPT ![o] = p]
  <2>1. op' = [op EXCEPT ![o].step = "ended", ![o].progress = FALSE, ![o].lastError = FALSE,
                         ![o].done = @ /\ op[o].confirm, ![o].calls = @ + 1]
    BY DEF Finish, AfterEnd
  <2>2. op[o].calls + 1 = 1
    BY <1>1
  <2> QED
    BY <2>1, <2>2
<1>3. h \in BOOLEAN
  BY DEF OpType
<1> HIDE DEF h
<1>4. /\ p \in OpType /\ p.step = "ended" /\ p.kind = op[o].kind /\ p.left = op[o].left
      /\ p.progress = FALSE /\ p.calls = 1
  BY <1>3 DEF OpType, OpSteps
<1>5. Becomes(o, p, worker[o], Tail(down[o]), up[o]) /\ Tail(down[o]) \in Seq(Events)
  BY <1>2, HasTail DEF Becomes
<1> HIDE DEF p
<1>6. Before(p, worker[o], Tail(down[o]), up[o]) /\ After(p, worker[o], o, told')
  BY <1>4 DEF Before, After
<1>7. /\ Reports(p, worker[o], Tail(down[o]), o, told')
      /\ Replies(p, worker[o], Tail(down[o]), up[o], o, told')
  BY <1>4 DEF Reports, Replies
<1> QED
  BY <1>4, <1>5, <1>6, <1>7, OthersAlone

\* The end finds its operation settled: nothing can come after it.
LEMMA OnEndKeeps ==
  ASSUME OpInv, NEW o \in Ops, OnEnd(o) \/ OnArchiveError(o)
  PROVE  OpInv'
<1> USE Parts
<1>1. CASE OnEnd(o)
  <2>1. /\ op[o].step = "running" /\ down[o] # <<>> /\ Head(down[o]) = "end"
        /\ down' = [down EXCEPT ![o] = Tail(@)] /\ UNCHANGED <<worker, up, accepted, told>>
        /\ Finish(o, op[o].lastError)
    BY <1>1 DEF OnEnd, Listening, Event
  <2>2. Has(down[o], "end") /\ Tail(down[o]) = <<>> /\ ~Has(down[o], "error")
    <3>1. Has(down[o], "end")
      BY <2>1, HasTail
    <3>2. Tail(down[o]) = <<>>
      BY <2>1, HasTail DEF Reports
    <3>3. ~Has(down[o], "error")
      <4>1. Has(down[o], "error") <=> Head(down[o]) = "error" \/ Has(Tail(down[o]), "error")
        BY <2>1, HasTail
      <4> QED
        BY <2>1, <3>2, <4>1, HasNone
    <3> QED
      BY <3>1, <3>2, <3>3
  <2>3. ~Works(worker[o]) /\ (op[o].kind \notin Archives /\ op[o].left > 0 => o \in told)
    BY <2>1, <2>2 DEF Reports, Works
  <2>4. CallsBack(op[o].done, op[o].lastError)
    <3>1. Hundred(op[o].done, down[o]) => op[o].done
      BY <2>1, <2>2, HundredTail, HasNone
    <3> QED
      BY <2>1, <2>2, <3>1 DEF Reports, Settled, CallsBack
  <2>5. op[o].lastError \in BOOLEAN
    BY DEF OpType
  <2> QED
    BY <2>1, <2>3, <2>4, <2>5, FinishKeeps
<1>2. CASE OnArchiveError(o)
  <2>1. /\ op[o].step = "running" /\ down[o] # <<>> /\ Head(down[o]) = "error"
        /\ down' = [down EXCEPT ![o] = Tail(@)] /\ UNCHANGED <<worker, up, accepted, told>>
        /\ Finish(o, TRUE) /\ op[o].kind \in Archives
    BY <1>2 DEF OnArchiveError, Listening, Event
  <2>2. Has(down[o], "error")
    BY <2>1, HasTail
  <2>3. ~Works(worker[o]) /\ CallsBack(op[o].done, TRUE)
    BY <2>1, <2>2 DEF Reports, CallsBack
  <2> QED
    BY <2>1, <2>3, FinishKeeps
<1> QED
  BY <1>1, <1>2

\* The dialog opens when there is nothing more to hear from a worker that waits.
LEMMA OnErrorKeeps ==
  ASSUME OpInv, NEW o \in Ops, OnError(o)
  PROVE  OpInv'
<1> USE Parts
<1> DEFINE p == [op[o] EXCEPT !.lastError = TRUE, !.confirm = TRUE]
           d == Tail(down[o])
<1>1. /\ op[o].step = "running" /\ down[o] # <<>> /\ Head(down[o]) = "error"
      /\ op[o].kind \notin Archives
  BY DEF OnError, Listening, Event
<1>2. /\ p \in OpType /\ p.step = "running" /\ p.kind = op[o].kind /\ p.left = op[o].left
      /\ p.done = op[o].done /\ p.confirm = TRUE /\ p.calls = op[o].calls
      /\ p.lastError = TRUE /\ p.progress = op[o].progress
  BY <1>1 DEF OpType
<1>3. Becomes(o, p, worker[o], d, up[o])
  BY <1>1 DEF OnError, Event, Becomes
<1>4. /\ d \in Seq(Events) /\ \A x : Has(down[o], x) <=> "error" = x \/ Has(d, x)
      /\ \A x : OnlyLast(down[o], x) => OnlyLast(d, x)
      /\ OnlyLast(down[o], "error") => d = <<>>
  BY <1>1, HasTail
<1>5. Hundred(op[o].done, down[o]) <=> Hundred(op[o].done, d)
  BY <1>1, HundredTail
<1>6. told' = told
  BY DEF OnError
<1> HIDE DEF p, d
<1>7. Before(p, worker[o], d, up[o]) /\ After(p, worker[o], o, told')
  BY <1>1, <1>2 DEF Before, After
<1>8. Reports(p, worker[o], d, o, told')
  BY <1>1, <1>2, <1>4, <1>5, <1>6 DEF Reports, Works, Settled
<1>9. Replies(p, worker[o], d, up[o], o, told')
  BY <1>1, <1>2, <1>4, <1>6 DEF Replies, Works
<1> QED
  BY <1>2, <1>3, <1>4, <1>7, <1>8, <1>9, OthersAlone

\* The order of messages when one more is sent.
LEMMA OrderlyAppend ==
  ASSUME NEW s \in Seq(Messages), NEW m \in Messages
  PROVE  /\ Orderly(s) /\ (m = "abort" \/ s = <<>> \/ s[1] = "abort") => Orderly(Append(s, m))
         /\ s # <<>> => Append(s, m)[1] = s[1]
         /\ s = <<>> => Append(s, m)[1] = m
<1> DEFINE t == Append(s, m)
<1>1. /\ Len(t) = Len(s) + 1 /\ Len(s) \in Nat
      /\ t[Len(s) + 1] = m /\ \A i \in 1..Len(s) : t[i] = s[i]
  OBVIOUS
<1>2. (s = <<>> <=> Len(s) = 0)
  BY EmptySeq
<1> HIDE DEF t
<1>3. s # <<>> => t[1] = s[1]
  BY <1>1, <1>2
<1>4. s = <<>> => t[1] = m
  BY <1>1, <1>2
<1>5. ASSUME Orderly(s), m = "abort" \/ s = <<>> \/ s[1] = "abort"
      PROVE  Orderly(t)
  <2>1. CASE Len(s) >= 2
    <3>1. t[2] = s[2] /\ t[1] = s[1]
      BY <1>1, <2>1
    <3> QED
      BY <1>5, <2>1, <3>1 DEF Orderly
  <2>2. CASE Len(s) = 1
    <3>1. t[2] = m /\ t[1] = s[1]
      BY <1>1, <2>2
    <3> QED
      BY <1>2, <1>5, <2>2, <3>1 DEF Orderly
  <2>3. CASE Len(s) = 0
    BY <1>1, <2>3 DEF Orderly
  <2>4. Len(s) >= 2 \/ Len(s) = 1 \/ Len(s) = 0
    <3>1. \A n \in Nat : n >= 2 \/ n = 1 \/ n = 0
      OBVIOUS
    <3>2. Len(s) \in Nat
      BY <1>1
    <3> QED
      BY <3>1, <3>2, Zenon
  <2> QED
    BY <2>1, <2>2, <2>3, <2>4
<1> QED
  BY <1>3, <1>4, <1>5 DEF t

\* A message is sent to a worker that may not be there any more.
LEMMA Sent ==
  ASSUME OpInv, NEW o \in Ops, NEW m \in Messages, Send(o, m)
  PROVE  \E u \in Seq(Messages) :
           /\ up' = [up EXCEPT ![o] = u]
           /\ \A x : Has(u, x) => Has(up[o], x) \/ x = m
           /\ Orderly(up[o]) /\ (m = "abort" \/ up[o] = <<>> \/ up[o][1] = "abort") => Orderly(u)
           /\ u # <<>> => u[1] = IF up[o] = <<>> THEN m ELSE up[o][1]
<1>1. up \in [Ops -> Seq(Messages)] /\ up[o] \in Seq(Messages)
  BY Parts
<1>2. up' = [up EXCEPT ![o] = up[o]] \/ up' = [up EXCEPT ![o] = Append(up[o], m)]
  BY <1>1 DEF Send
<1>3. CASE up' = [up EXCEPT ![o] = up[o]]
  BY <1>1, <1>3
<1>4. CASE up' = [up EXCEPT ![o] = Append(up[o], m)]
  <2>1. /\ Append(up[o], m) \in Seq(Messages)
        /\ \A x : Has(Append(up[o], m), x) => Has(up[o], x) \/ x = m
    BY <1>1, HasAppend
  <2>2. Orderly(up[o]) /\ (m = "abort" \/ up[o] = <<>> \/ up[o][1] = "abort")
          => Orderly(Append(up[o], m))
    BY <1>1, OrderlyAppend
  <2>3. Append(up[o], m)[1] = IF up[o] = <<>> THEN m ELSE up[o][1]
    BY <1>1, OrderlyAppend
  <2> QED
    BY <1>4, <2>1, <2>2, <2>3
<1> QED
  BY <1>2, <1>3, <1>4

\* The dialog is answered when nothing more is on its way from the worker that waits: an
\* abort that the user did not mean finds no name left.
LEMMA AnswerErrorKeeps ==
  ASSUME OpInv, NEW o \in Ops, NEW cancel \in BOOLEAN, AnswerError(o, cancel)
  PROVE  OpInv'
<1> USE Parts
<1> DEFINE m == Reply(op[o].done, cancel)
           g == op[o].progress /\ m = "continue"
           p == [op[o] EXCEPT !.confirm = FALSE, !.progress = g]
<1>1. m \in Messages /\ (m = "abort" => op[o].done \/ cancel)
  BY DEF Reply, Messages
<1>2. /\ op[o].confirm /\ op' = [op EXCEPT ![o] = p] /\ Send(o, m)
      /\ told \subseteq told' /\ told' \subseteq told \cup {o} /\ (cancel => o \in told')
      /\ UNCHANGED <<worker, down, accepted>>
  BY DEF AnswerError, SendReply
<1>3. op[o].step \in {"running", "ended"}
  BY <1>2 DEF Before
<1>4. g \in BOOLEAN /\ (g => op[o].progress)
  BY DEF OpType
<1> HIDE DEF m, g
<1>5. /\ p \in OpType /\ p.step = op[o].step /\ p.kind = op[o].kind /\ p.left = op[o].left
      /\ p.done = op[o].done /\ p.confirm = FALSE /\ p.calls = op[o].calls
      /\ p.lastError = op[o].lastError /\ (p.progress => op[o].progress)
  BY <1>4 DEF OpType
<1>6. PICK u \in Seq(Messages) :
        /\ up' = [up EXCEPT ![o] = u]
        /\ \A x : Has(u, x) => Has(up[o], x) \/ x = m
        /\ Orderly(up[o]) /\ (m = "abort" \/ up[o] = <<>> \/ up[o][1] = "abort") => Orderly(u)
        /\ u # <<>> => u[1] = IF up[o] = <<>> THEN m ELSE up[o][1]
  BY <1>1, <1>2, Sent
<1> HIDE DEF p
<1>7. Becomes(o, p, worker[o], down[o], u)
  BY <1>2, <1>6 DEF Becomes
<1>8. Before(p, worker[o], down[o], u) /\ After(p, worker[o], o, told')
  BY <1>2, <1>3, <1>5 DEF Before, After
<1>9. Reports(p, worker[o], down[o], o, told')
  BY <1>2, <1>5 DEF Reports, Settled
<1>10. Replies(p, worker[o], down[o], u, o, told')
  <2> SUFFICES ASSUME op[o].step = "running"
               PROVE  Replies(p, worker[o], down[o], u, o, told')
    BY <1>5 DEF Replies
  <2>1. worker[o] # "works" /\ op[o].lastError
    BY <1>2 DEF Replies
  <2>2. CASE worker[o] = "waits"
    <3>1. down[o] = <<>> /\ ~Has(down[o], "error") /\ OnlyLast(down[o], "error")
      BY <1>2, <2>2, HasNone DEF Replies
    <3>2. op[o].done => op[o].left = 0
      BY <2>2, <3>1, HasNone DEF Reports
    <3>3. up[o] = <<>> \/ up[o][1] = "abort"
      <4>1. up[o] # <<>> => up[o][1] \in Messages
        BY HasTail
      <4> QED
        BY <1>2, <2>2, <4>1 DEF Replies, Works, Messages
    <3>4. Orderly(u)
      BY <1>6, <2>2, <3>3 DEF Replies, Works
    <3>5. Has(u, "abort") => o \in told' \/ op[o].left = 0
      BY <1>1, <1>2, <1>6, <2>2, <3>2 DEF Replies, Works
    <3> QED
      BY <1>5, <2>1, <2>2, <3>1, <3>4, <3>5 DEF Replies
  <2>3. CASE worker[o] # "waits"
    BY <1>5, <2>1, <2>3 DEF Replies, Works
  <2> QED
    BY <2>2, <2>3
<1> QED
  BY <1>5, <1>6, <1>7, <1>8, <1>9, <1>10, OthersAlone

\* An abort from the progress dialog is noted as an error before the end can come.
LEMMA AbortKeeps ==
  ASSUME OpInv, NEW o \in Ops, Abort(o)
  PROVE  OpInv'
<1> USE Parts
<1> DEFINE p == [op[o] EXCEPT !.progress = FALSE, !.lastError = TRUE]
<1>1. /\ op' = [op EXCEPT ![o] = p]
      /\ told' = told \cup {o} /\ UNCHANGED <<worker, down, accepted>>
      /\ \E m \in Messages : m = "abort" /\ Send(o, m)
  BY DEF Abort, Messages
<1>2. op[o].step = "running"
  BY DEF Abort, Before, Operations, Archives, Uploads
<1>3. /\ p \in OpType /\ p.step = "running" /\ p.kind = op[o].kind /\ p.left = op[o].left
      /\ p.done = op[o].done /\ p.confirm = op[o].confirm /\ p.calls = op[o].calls
      /\ p.lastError = TRUE /\ p.progress = FALSE
  BY <1>2 DEF OpType
<1> PICK m \in Messages : m = "abort" /\ Send(o, m)
  BY <1>1
<1>4. PICK u \in Seq(Messages) :
        /\ up' = [up EXCEPT ![o] = u]
        /\ \A x : Has(u, x) => Has(up[o], x) \/ x = m
        /\ Orderly(up[o]) /\ (m = "abort" \/ up[o] = <<>> \/ up[o][1] = "abort") => Orderly(u)
        /\ u # <<>> => u[1] = IF up[o] = <<>> THEN m ELSE up[o][1]
  BY Sent
<1> HIDE DEF p
<1>5. Becomes(o, p, worker[o], down[o], u)
  BY <1>1, <1>4 DEF Becomes
<1>6. Before(p, worker[o], down[o], u) /\ After(p, worker[o], o, told')
  BY <1>2, <1>3 DEF Before, After
<1>7. Reports(p, worker[o], down[o], o, told')
  BY <1>1, <1>2, <1>3 DEF Reports, Settled
<1>8. Replies(p, worker[o], down[o], u, o, told')
  BY <1>1, <1>2, <1>3, <1>4 DEF Replies
<1> QED
  BY <1>3, <1>4, <1>5, <1>6, <1>7, <1>8, OthersAlone

-----------------------------------------------------------------------------
(* Uploads.                                                                *)

\* The series has no worker: only its place and its name count.
LEMMA Series ==
  ASSUME OpInv, NEW o \in Ops, NEW p \in OpType, op' = [op EXCEPT ![o] = p],
         op[o].step \in {"uploading", "stuck"}, UNCHANGED <<wires, accepted>>,
         told \subseteq told', told' \subseteq told \cup {o},
         p.kind = op[o].kind, p.confirm = op[o].confirm,
         p.calls = IF p.step = "ended" THEN 1 ELSE 0,
         p.left <= MaxNames, p.progress => op[o].progress,
         \/ p.step = "uploading" /\ p.left > 0
         \/ p.step = "stuck"
         \/ p.step = "ended" /\ ~p.progress /\ (p.left = 0 \/ o \in told')
  PROVE  OpInv'
<1> USE Parts
<1>1. worker[o] = "none" /\ down[o] = <<>> /\ up[o] = <<>> /\ ~p.confirm
      /\ p.kind \in Uploads
  BY DEF Before
<1>2. Becomes(o, p, worker[o], down[o], up[o])
  BY DEF Becomes, wires
<1>3. Before(p, worker[o], down[o], up[o])
  BY <1>1 DEF Before
<1>4. After(p, worker[o], o, told')
  BY <1>1 DEF After, Works
<1>5. /\ Reports(p, worker[o], down[o], o, told')
      /\ Replies(p, worker[o], down[o], up[o], o, told')
  BY DEF Reports, Replies
<1> QED
  BY <1>2, <1>3, <1>4, <1>5, OthersAlone

\* A file arrived: the next one, or the end of the series.
LEMMA PutEndsKeeps ==
  ASSUME OpInv, NEW o \in Ops, PutEnds(o)
  PROVE  OpInv'
<1> USE Parts
<1> DEFINE n == op[o].left - 1
           s == IF n > 0 THEN "uploading" ELSE "ended"
           g == op[o].progress /\ n > 0
           c == IF n > 0 THEN 0 ELSE 1
           p == [op[o] EXCEPT !.left = n, !.progress = g, !.step = s, !.calls = c]
<1>1. op[o].step = "uploading" /\ op[o].left > 0 /\ op[o].calls = 0
  BY DEF PutEnds, Before
<1>2. n \in Nat /\ n <= op[o].left /\ op[o].left <= MaxNames
  BY <1>1, TransfersAssumption DEF Before
<1>3. n <= MaxNames
  BY <1>2, TransfersAssumption
<1>4. op' = [op EXCEPT ![o] = p] /\ UNCHANGED <<wires, accepted, told>>
  <2>1. op' = [op EXCEPT ![o].left = n, ![o].progress = g, ![o].step = s,
                         ![o].calls = IF n > 0 THEN @ ELSE @ + 1]
    BY DEF PutEnds, AfterUpload
  <2>2. c = IF n > 0 THEN op[o].calls ELSE op[o].calls + 1
    BY <1>1
  <2>3. UNCHANGED <<wires, accepted, told>>
    BY DEF PutEnds
  <2> HIDE DEF n, s, g, c
  <2> QED
    BY <2>1, <2>2, <2>3
<1>5. /\ s \in OpSteps /\ g \in BOOLEAN /\ (g => op[o].progress) /\ c \in Nat
      /\ (n > 0 /\ s = "uploading" /\ c = 0) \/ (n = 0 /\ s = "ended" /\ ~g /\ c = 1)
  BY <1>2 DEF OpSteps, OpType
<1> HIDE DEF n, s, g, c
<1>6. /\ p \in OpType /\ p.step = s /\ p.kind = op[o].kind /\ p.left = n
      /\ p.confirm = op[o].confirm /\ p.calls = c /\ p.progress = g
  BY <1>2, <1>5 DEF OpType
<1> HIDE DEF p
<1>7. \/ p.step = "uploading" /\ p.left > 0
      \/ p.step = "ended" /\ ~p.progress /\ p.left = 0
  BY <1>5, <1>6
<1>8. p.calls = IF p.step = "ended" THEN 1 ELSE 0
  BY <1>5, <1>6
<1> QED
  BY <1>1, <1>3, <1>4, <1>5, <1>6, <1>7, <1>8, Series

\* A file failed, and nothing follows.
LEMMA PutFailsKeeps ==
  ASSUME OpInv, NEW o \in Ops, PutFails(o)
  PROVE  OpInv'
<1> USE Parts
<1> DEFINE p == [op[o] EXCEPT !.step = "stuck"]
<1>1. /\ op[o].step = "uploading" /\ op' = [op EXCEPT ![o] = p] /\ op[o].left <= MaxNames
      /\ UNCHANGED <<wires, accepted, told>> /\ op[o].calls = 0
  BY DEF PutFails, Step, Before
<1>2. /\ p \in OpType /\ p.step = "stuck" /\ p.kind = op[o].kind /\ p.left = op[o].left
      /\ p.confirm = op[o].confirm /\ p.calls = op[o].calls /\ p.progress = op[o].progress
  BY DEF OpType, OpSteps
<1> HIDE DEF p
<1> QED
  BY <1>1, <1>2, Series

\* The series is aborted, with or without an end.
LEMMA AbortUploadKeeps ==
  ASSUME OpInv, NEW o \in Ops, AbortUpload(o)
  PROVE  OpInv'
<1> USE Parts
<1>1. op[o].calls = 0 /\ op[o].left <= MaxNames /\ op[o].step \in {"uploading", "stuck"}
  BY DEF AbortUpload, Before
<1>2. PICK s \in {"stuck", "ended"}, c \in {0, 1} :
        /\ op' = [op EXCEPT ![o].progress = FALSE, ![o].step = s, ![o].calls = c]
        /\ c = IF s = "ended" THEN 1 ELSE 0
  <2>1. CASE op' = [op EXCEPT ![o].progress = FALSE, ![o].step = "stuck"]
    <3>1. op' = [op EXCEPT ![o].progress = FALSE, ![o].step = "stuck", ![o].calls = 0]
      BY <1>1, <2>1 DEF OpType
    <3> QED
      BY <3>1
  <2>2. CASE op' = [op EXCEPT ![o].progress = FALSE, ![o].step = "ended", ![o].calls = @ + 1]
    <3>1. op' = [op EXCEPT ![o].progress = FALSE, ![o].step = "ended", ![o].calls = 1]
      BY <1>1, <2>2 DEF OpType
    <3> QED
      BY <3>1
  <2> QED
    BY <2>1, <2>2 DEF AbortUpload
<1> DEFINE p == [op[o] EXCEPT !.progress = FALSE, !.step = s, !.calls = c]
<1>3. /\ op' = [op EXCEPT ![o] = p] /\ UNCHANGED <<wires, accepted>>
      /\ told' = told \cup {o}
  BY <1>2 DEF AbortUpload
<1>4. /\ p \in OpType /\ p.step = s /\ p.kind = op[o].kind /\ p.left = op[o].left
      /\ p.confirm = op[o].confirm /\ p.calls = c /\ p.progress = FALSE
  <2>1. s \in OpSteps /\ c \in Nat /\ op[o] \in OpType
    BY DEF OpSteps
  <2> QED
    BY <2>1 DEF OpType
<1> HIDE DEF p
<1>5. o \in told' /\ told \subseteq told' /\ told' \subseteq told \cup {o}
  BY <1>3
<1>6. p.step = "stuck" \/ (p.step = "ended" /\ ~p.progress /\ o \in told')
  BY <1>2, <1>4, <1>5
<1> QED
  BY <1>1, <1>2, <1>3, <1>4, <1>5, <1>6, Series

-----------------------------------------------------------------------------
(* The specification.                                                      *)

\* No transfer has been asked for.
LEMMA InitOpInv == Init => OpInv
<1> SUFFICES ASSUME Init PROVE OpInv
  OBVIOUS
<1>1. TypeInv
  BY NoOpFields, EmptySeq DEF Init, TypeInv, Workers
<1>2. ASSUME NEW o \in Ops PROVE InvOf(o)
  <2>1. op[o] = NoOp /\ worker[o] = "none" /\ down[o] = <<>> /\ up[o] = <<>>
    BY DEF Init
  <2>2. Before(NoOp, "none", <<>>, <<>>)
    BY NoOpFields, TransfersAssumption DEF Before
  <2> QED
    BY <2>1, <2>2, NoOpFields DEF InvOf, Reports, Replies, After
<1> QED
  BY <1>1, <1>2 DEF OpInv

\* Every step keeps OpInv.
LEMMA NextOpInv == OpInv /\ [Next]_vars => OpInv'
<1> SUFFICES ASSUME OpInv, [Next]_vars PROVE OpInv'
  OBVIOUS
<1>1. CASE UNCHANGED vars
  BY <1>1 DEF vars, wires, OpInv, TypeInv, InvOf, Before, Reports, Replies, After
<1>2. CASE BackendDies
  BY <1>2, DiesKeeps
<1>3. ASSUME NEW o \in Ops, NEW n \in 1..MaxNames, NEW asks \in BOOLEAN, NEW kind \in Operations,
             Operate(o, kind, n, asks)
      PROVE  OpInv'
  BY <1>3, OperateKeeps
<1>4. ASSUME NEW o \in Ops, NEW n \in 1..MaxNames, Drop(o, n) \/ ChooseFiles(o, n)
      PROVE  OpInv'
  <2>1. CASE \E kind \in Uploads : Upload(o, "free", kind, n)
    BY <2>1, UploadKeeps
  <2>2. CASE Operate(o, "copy", n, TRUE)
    <3>1. "copy" \in Operations /\ TRUE \in BOOLEAN
      BY DEF Operations
    <3> QED
      BY <2>2, <3>1, OperateKeeps
  <2>3. CASE ChooseFiles(o, n)
    <3>1. "files" \in Uploads
      BY DEF Uploads
    <3> QED
      BY <2>3, <3>1, UploadKeeps DEF ChooseFiles
  <2> QED
    BY <1>4, <2>1, <2>2, <2>3 DEF Drop
<1>5. ASSUME NEW o \in Ops,
             \/ ShowUpload(o) \/ Dismiss(o) \/ Overwrite(o)
             \/ \E exists \in BOOLEAN : Answer(o, exists)
      PROVE  OpInv'
  BY <1>5, AnswerKeeps, DismissKeeps
<1>6. ASSUME NEW o \in Ops, Listen(o) \/ Work(o)
      PROVE  OpInv'
  BY <1>6, ListenKeeps, NameDoneKeeps, NameFailsKeeps, WorkEndsKeeps, ObeyKeeps DEF Work
<1>7. ASSUME NEW o \in Ops, Hear(o)
      PROVE  OpInv'
  BY <1>7, UnheardKeeps, OnProgressKeeps, OnEndKeeps, OnErrorKeeps DEF Hear
<1>8. ASSUME NEW o \in Ops, React(o) \/ Abort(o)
      PROVE  OpInv'
  BY <1>8, AnswerErrorKeeps, AbortKeeps DEF React
<1>9. ASSUME NEW o \in Ops, Put(o) \/ AbortUpload(o)
      PROVE  OpInv'
  BY <1>9, PutEndsKeeps, PutFailsKeeps, AbortUploadKeeps DEF Put
<1>10. ASSUME NEW o \in Ops, Reread(o)
       PROVE  OpInv'
  <2>1. UNCHANGED <<op, wires, accepted, told>>
    BY <1>10 DEF Reread, ReadDir, RefreshFails, ShowTable, Refreshes
  <2> QED
    BY <2>1 DEF wires, OpInv, TypeInv, InvOf, Before, Reports, Replies, After
<1> QED
  BY <1>1, <1>2, <1>3, <1>4, <1>5, <1>6, <1>7, <1>8, <1>9, <1>10 DEF Next

-----------------------------------------------------------------------------
(* The panel.                                                              *)

Stages == {"none", "asked", "read", "shown", "overtaken", "alerted"}

\* The directory is asked for at the end of a transfer, after its last change: no read
\* of its own, and no table that shows it, is without one.
PanelInv ==
    /\ refresh \in [Ops -> Stages] /\ missed \in [Ops -> SUBSET Ops] /\ unread \subseteq Ops
    /\ \A o \in Ops :
          /\ refresh[o] = "none" <=> op[o].step # "ended"
          /\ missed[o] # {} => refresh[o] = "read" /\ o \notin missed[o]
          /\ refresh[o] = "shown" => o \notin unread

\* No table is on its way at first.
LEMMA InitPanel == Init => PanelInv
<1> SUFFICES ASSUME Init PROVE PanelInv
  OBVIOUS
<1>1. \A o \in Ops : op[o].step = "free"
  BY NoOpFields DEF Init
<1> QED
  BY <1>1 DEF Init, PanelInv, Stages

\* A step between the beginning and the end of a transfer, or after it, that changes
\* no file.
LEMMA PanelStill ==
  ASSUME PanelInv, UNCHANGED panel,
         \A q \in Ops : op'[q].step = "ended" <=> op[q].step = "ended"
  PROVE  PanelInv'
BY DEF PanelInv, panel

\* A transfer that has not ended may change files, and asks for the table as it ends.
LEMMA PanelMoves ==
  ASSUME PanelInv, NEW o \in Ops, op[o].step # "ended", MayChange(o),
         \A q \in Ops \ {o} : op'[q] = op[q],
         \/ refresh' = refresh /\ op'[o].step # "ended"
         \/ AsksRefresh(o) /\ op'[o].step = "ended"
  PROVE  PanelInv'
<1>1. /\ refresh \in [Ops -> Stages] /\ missed \in [Ops -> SUBSET Ops] /\ unread \subseteq Ops
      /\ refresh[o] = "none"
  BY DEF PanelInv
<1>2. /\ refresh' \in [Ops -> Stages]
      /\ \A q \in Ops \ {o} : refresh'[q] = refresh[q]
      /\ refresh'[o] \in {"none", "asked"} /\ (refresh'[o] = "none" <=> op'[o].step # "ended")
  <2>1. CASE refresh' = refresh /\ op'[o].step # "ended"
    BY <1>1, <2>1
  <2>2. CASE AsksRefresh(o) /\ op'[o].step = "ended"
    BY <1>1, <2>2 DEF AsksRefresh, Stages
  <2> QED
    BY <2>1, <2>2
<1>3. /\ unread' \subseteq Ops /\ missed' \in [Ops -> SUBSET Ops]
      /\ \A q \in Ops \ {o} : (q \in unread' <=> q \in unread) /\ (q \in missed'[q] <=> q \in missed[q])
      /\ \A q \in Ops : refresh[q] # "read" => missed'[q] = missed[q]
  <2>1. CASE Changes(o)
    BY <1>1, <2>1 DEF Changes
  <2>2. CASE UNCHANGED <<unread, missed>>
    BY <1>1, <2>2
  <2> QED
    BY <2>1, <2>2 DEF MayChange
<1>4. ASSUME NEW q \in Ops
      PROVE  /\ refresh'[q] = "none" <=> op'[q].step # "ended"
             /\ missed'[q] # {} => refresh'[q] = "read" /\ q \notin missed'[q]
             /\ refresh'[q] = "shown" => q \notin unread'
  BY <1>2, <1>3 DEF PanelInv
<1> QED
  BY <1>2, <1>3, <1>4 DEF PanelInv

\* A table is read, and comes or does not come; where it is shown the transfers whose
\* changes it does not have are not.
LEMMA RereadKeeps ==
  ASSUME OpInv, PanelInv, NEW o \in Ops, Reread(o)
  PROVE  PanelInv'
<1>1. /\ refresh \in [Ops -> Stages] /\ missed \in [Ops -> SUBSET Ops] /\ unread \subseteq Ops
      /\ op' = op
  BY DEF PanelInv, Reread, ReadDir, RefreshFails, ShowTable, Refreshes
<1>2. CASE ShowTable(o)
  <2>1. /\ refresh[o] = "read" /\ refresh'[o] = "shown" /\ unread' = missed[o]
        /\ missed' = [missed EXCEPT ![o] = {}]
        /\ \A q \in Ops \ {o} :
              refresh'[q] = IF refresh[q] = "shown" /\ q \in missed[o] THEN "overtaken" ELSE refresh[q]
    BY <1>1, <1>2 DEF ShowTable
  <2>2. refresh' \in [Ops -> Stages]
    <3>1. ASSUME NEW q \in Ops
          PROVE  (IF q = o THEN "shown"
                  ELSE IF refresh[q] = "shown" /\ q \in missed[o] THEN "overtaken"
                  ELSE refresh[q]) \in Stages
      BY <1>1 DEF Stages
    <3> QED
      BY <1>2, <3>1 DEF ShowTable
  <2>3. missed' \in [Ops -> SUBSET Ops] /\ unread' \subseteq Ops
    BY <1>1, <2>1
  <2>4. ASSUME NEW q \in Ops
        PROVE  /\ refresh'[q] = "none" <=> op'[q].step # "ended"
               /\ missed'[q] # {} => refresh'[q] = "read" /\ q \notin missed'[q]
               /\ refresh'[q] = "shown" => q \notin unread'
    <3>1. CASE q = o
      BY <1>1, <2>1, <3>1 DEF PanelInv
    <3>2. CASE q # o
      BY <1>1, <2>1, <3>2 DEF PanelInv
    <3> QED
      BY <3>1, <3>2
  <2> QED
    BY <2>2, <2>3, <2>4 DEF PanelInv
<1>3. CASE ReadDir(o) \/ RefreshFails(o)
  <2>1. PICK s \in {"read", "alerted"} :
          /\ refresh[o] = "asked" /\ refresh' = [refresh EXCEPT ![o] = s]
          /\ missed' = missed /\ unread' = unread
    BY <1>3 DEF ReadDir, RefreshFails, Refreshes
  <2>2. refresh' \in [Ops -> Stages]
    BY <1>1, <2>1 DEF Stages
  <2> QED
    BY <1>1, <2>1, <2>2 DEF PanelInv
<1> QED
  BY <1>2, <1>3 DEF Reread

\* Every step keeps PanelInv: only its end asks for a transfer's table, and after its end
\* it changes nothing.
LEMMA NextPanel == OpInv /\ OpInv' /\ PanelInv /\ [Next]_vars => PanelInv'
<1> SUFFICES ASSUME OpInv, OpInv', PanelInv, [Next]_vars PROVE PanelInv'
  OBVIOUS
<1>1. CASE UNCHANGED vars \/ BackendDies
  BY <1>1, PanelStill DEF vars, BackendDies
<1>2. ASSUME NEW o \in Ops PROVE op[o] \in OpType /\ op \in [Ops -> OpType]
  BY <1>2, Parts
<1>3. ASSUME NEW o \in Ops, UNCHANGED panel, NEW p, op' = [op EXCEPT ![o] = p],
             p.step = "ended" <=> op[o].step = "ended"
      PROVE  PanelInv'
  BY <1>2, <1>3, PanelStill
<1>4. ASSUME NEW o \in Ops, NEW n \in 1..MaxNames,
             \/ \E kind \in Operations, asks \in BOOLEAN : Operate(o, kind, n, asks)
             \/ \E kind \in Uploads, from \in {"free", "choosing"} : Upload(o, from, kind, n)
      PROVE  PanelInv'
  <2>1. ASSUME NEW kind \in Operations, NEW asks \in BOOLEAN, Operate(o, kind, n, asks)
        PROVE  PanelInv'
    <3> DEFINE s == IF asks THEN "prompt" ELSE "sent"
               p == [NoOp EXCEPT !.kind = kind, !.left = n, !.step = s]
    <3>1. op' = [op EXCEPT ![o] = p] /\ op[o].step = "free" /\ UNCHANGED panel
      BY <2>1 DEF Operate
    <3>2. s # "ended"
      OBVIOUS
    <3> HIDE DEF s
    <3>3. p.step = s
      BY NoOpFields DEF OpType
    <3> HIDE DEF p
    <3> QED
      BY <1>3, <3>1, <3>2, <3>3
  <2>2. ASSUME NEW kind \in Uploads, NEW from \in {"free", "choosing"}, Upload(o, from, kind, n)
        PROVE  PanelInv'
    <3> DEFINE g == kind = "entries"
               p == [NoOp EXCEPT !.kind = kind, !.left = n, !.step = "uploading", !.progress = g]
    <3>1. op' = [op EXCEPT ![o] = p] /\ op[o].step = from /\ UNCHANGED panel
      BY <2>2 DEF Upload
    <3> HIDE DEF g
    <3>2. p.step = "uploading"
      BY NoOpFields DEF OpType
    <3> HIDE DEF p
    <3> QED
      BY <1>3, <3>1, <3>2
  <2> QED
    BY <1>4, <2>1, <2>2
<1>5. ASSUME NEW o \in Ops,
             \/ ShowUpload(o) \/ Dismiss(o) \/ Overwrite(o) \/ Listen(o)
             \/ \E exists \in BOOLEAN : Answer(o, exists)
      PROVE  PanelInv'
  <2>1. op[o].step # "ended" /\ UNCHANGED panel /\ \A q \in Ops \ {o} : op'[q] = op[q]
    BY <1>2, <1>5 DEF ShowUpload, Dismiss, Overwrite, Listen, Answer, Step
  <2>2. op'[o].step # "ended"
    BY <1>2, <1>5, NoOpFields DEF ShowUpload, Dismiss, Overwrite, Listen, Answer, Step, OpType
  <2> QED
    BY <2>1, <2>2, PanelStill
<1>6. ASSUME NEW o \in Ops, WorkEnds(o) \/ Obey(o) \/ Unheard(o)
      PROVE  PanelInv'
  BY <1>6, PanelStill DEF WorkEnds, Obey, Unheard
<1>7. ASSUME NEW o \in Ops, NameDone(o) \/ NameFails(o)
      PROVE  PanelInv'
  <2>1. /\ op[o].step = "running" /\ MayChange(o) /\ refresh' = refresh
        /\ op' = [op EXCEPT ![o].left = @ - 1]
    BY <1>7, Parts DEF NameDone, NameFails, MayChange, Works
  <2>2. op'[o].step = "running" /\ \A q \in Ops \ {o} : op'[q] = op[q]
    BY <1>2, <2>1 DEF OpType
  <2> QED
    BY <2>1, <2>2, PanelMoves
<1>8. ASSUME NEW o \in Ops,
             \/ OnProgress(o) \/ OnError(o) \/ Abort(o)
             \/ \E cancel \in BOOLEAN : AnswerError(o, cancel)
      PROVE  PanelInv'
  <2>1. UNCHANGED panel /\ \A q \in Ops \ {o} : op'[q] = op[q]
    BY <1>2, <1>8 DEF OnProgress, OnError, Abort, AnswerError
  <2>2. op'[o].step = op[o].step
    BY <1>2, <1>8 DEF OnProgress, OnError, Abort, AnswerError, OpType
  <2> QED
    BY <2>1, <2>2, PanelStill
<1>9. ASSUME NEW o \in Ops, OnEnd(o) \/ OnArchiveError(o)
      PROVE  PanelInv'
  <2>1. PICK l \in BOOLEAN : Finish(o, l) /\ op[o].step = "running"
    BY <1>2, <1>9 DEF OnEnd, OnArchiveError, Listening, OpType
  <2>2. op[o].calls = 0
    BY <2>1, Parts DEF Before
  <2>3. /\ \A q \in Ops \ {o} : op'[q] = op[q]
        /\ op'[o].step = "ended" /\ (~CallsBack(op[o].done, l) => op'[o].calls = 0)
    BY <1>2, <2>1, <2>2 DEF Finish, AfterEnd, OpType
  <2>4. op'[o].calls = 1
    BY <2>3 DEF OpInv, InvOf, After
  <2>5. AsksRefresh(o) /\ MayChange(o)
    BY <2>1, <2>3, <2>4 DEF Finish, MayChange
  <2> QED
    BY <2>1, <2>3, <2>5, PanelMoves
<1>10. ASSUME NEW o \in Ops, Put(o) \/ AbortUpload(o)
       PROVE  PanelInv'
  <2>1. /\ op[o].step \in {"uploading", "stuck"} /\ MayChange(o)
        /\ \A q \in Ops \ {o} : op'[q] = op[q]
    BY <1>2, <1>10 DEF Put, PutEnds, PutFails, AbortUpload, MayChange, Step
  <2>2. \/ refresh' = refresh /\ op'[o].step # "ended"
        \/ AsksRefresh(o) /\ op'[o].step = "ended"
    BY <1>2, <1>10, <2>1 DEF Put, PutEnds, PutFails, AbortUpload, AfterUpload, Step, OpType
  <2> QED
    BY <2>1, <2>2, PanelMoves
<1>11. ASSUME NEW o \in Ops, NEW n \in 1..MaxNames, Drop(o, n) \/ ChooseFiles(o, n)
       PROVE  PanelInv'
  <2>1. /\ "copy" \in Operations /\ TRUE \in BOOLEAN /\ "files" \in Uploads
        /\ "free" \in {"free", "choosing"} /\ "choosing" \in {"free", "choosing"}
    BY DEF Operations, Uploads
  <2> QED
    BY <1>4, <1>11, <2>1 DEF Drop, ChooseFiles
<1>12. ASSUME NEW o \in Ops, Reread(o)
       PROVE  PanelInv'
  BY <1>12, RereadKeeps
<1> QED
  BY <1>1, <1>4, <1>5, <1>6, <1>7, <1>8, <1>9, <1>10, <1>11, <1>12 DEF Next, Work, Hear, React

\* OpInv and PanelInv hold throughout.
THEOREM Inductive == Spec => [](OpInv /\ PanelInv)
<1> QED
  BY InitOpInv, NextOpInv, InitPanel, NextPanel, PTL DEF Spec

\* The types of the state; a transfer calls back at most once, and has no progress
\* dialog at its end (set-listeners.js:55).
THEOREM TypeCorrect == Spec => []TransfersTypeOK
<1>1. OpInv /\ PanelInv => TransfersTypeOK
  <2> SUFFICES ASSUME OpInv, PanelInv PROVE TransfersTypeOK
    OBVIOUS
  <2>1. TypeInv
    BY DEF OpInv
  <2> DEFINE T == [kind : {"none"} \cup Operations \cup Uploads,
                   step : {"free", "prompt", "exists", "choosing", "sent", "running", "uploading",
                           "stuck", "ended"},
                   left : 0..MaxNames, progress : BOOLEAN, done : BOOLEAN,
                   lastError : BOOLEAN, confirm : BOOLEAN, calls : 0..1]
  <2>2. ASSUME NEW o \in Ops PROVE op[o] \in T /\ (op[o].step = "ended" => ~op[o].progress)
    <3>1. op[o] \in OpType /\ op[o].left <= MaxNames /\ op[o].calls <= 1
      BY Parts DEF Before
    <3>2. op[o].left \in 0..MaxNames /\ op[o].calls \in 0..1
      BY <3>1, TransfersAssumption DEF OpType
    <3>3. op[o] \in T
      BY <3>1, <3>2 DEF OpType, Kinds, OpSteps
    <3>4. op[o].step = "ended" => ~op[o].progress
      BY Parts DEF Before
    <3> QED
      BY <3>3, <3>4
  <2>3. op \in [Ops -> T]
    <3> HIDE DEF T
    <3> QED
      BY <2>1, <2>2 DEF TypeInv
  <2> QED
    BY <2>1, <2>2, <2>3 DEF TransfersTypeOK, TypeInv, Workers, PanelInv, Stages
<1> QED
  BY <1>1, Inductive, PTL

\* However a transfer of any number of files ends, the directory on display is asked
\* for, and the table that is shown has its last change (set-listeners.js:60,
\* upload-files.js:36).
THEOREM Shown == Spec => []ChangesShown
<1>1. PanelInv => ChangesShown
  BY DEF PanelInv, ChangesShown
<1> QED
  BY <1>1, Inductive, PTL

\* Names are left out only because the user said so (set-listeners.js:74), whatever
\* of the progress, errors and aborts crosses on the way.
THEOREM LeavesOut == Spec => []LeavesOutOnlyWhenTold
<1>1. OpInv => LeavesOutOnlyWhenTold
  BY DEF OpInv, InvOf, After, LeavesOutOnlyWhenTold
<1> QED
  BY <1>1, Inductive, PTL
=============================================================================
