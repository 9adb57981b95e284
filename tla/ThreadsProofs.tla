--------------------------- MODULE ThreadsProofs ---------------------------
(***************************************************************************)
(* Theorems about the threads at a stop.  ThreadStacks: what is pushed of  *)
(* the threads' stacks is what may hold pointers, for any number of        *)
(* threads, any depth of nesting and any number of suspensions.            *)
(* DarwinStop: all threads are suspended, each is resumed, and no write    *)
(* fault is missed.                                                        *)
(***************************************************************************)
EXTENDS ThreadStacks, DarwinStop, ListProofs

-----------------------------------------------------------------------------
(* The stacks. *)
\* Suspensions count up: odd while the thread is suspended.
LEMMA Parity ==
  ASSUME NEW n \in Nat
  PROVE  /\ Odd(n) => ~Odd(n + 1) /\ n >= 1
         /\ ~Odd(n) => Odd(n + 1)
BY DEF Odd

-----------------------------------------------------------------------------
(* The invariant of one thread, of the values its variables have: stack s,   *)
(* stack_ptr p, stack_end e, DO_BLOCKING b, sections ss, ext_suspend_cnt x,  *)
(* inHandler h.                                                              *)
Sect == [at : Nat, saved : Nat]
Typed(t, s, p, e, b, ss, x, h) ==
  /\ s \in Seq(FrameKinds) /\ Len(s) \in 1..MaxFrames[t] /\ p \in 1..MaxFrames[t]
  /\ e \in 0..1 /\ b \in BOOLEAN /\ ss \in Seq(Sect)
  /\ x \in 0..MaxSuspend + 1 /\ h \in NotWaiting..MaxSuspend
Ordered(s, p, b, ss) ==
  /\ \A k \in 1..Len(ss) :
       /\ 2 <= ss[k].saved /\ ss[k].saved < ss[k].at /\ ss[k].at <= Len(s)
       /\ b => ss[k].at < p
  /\ \A k, l \in 1..Len(ss) : k < l => ss[l].at < ss[k].saved
Told(s, p, b, ss) ==
  \A j \in 1..Len(s) :
    /\ s[j] = "active" <=> \E k \in 1..Len(ss) : ss[k].at = j
    /\ s[j] = "inside" <=> \/ b /\ p < j
                           \/ \E k \in 1..Len(ss) : ss[k].saved < j /\ j < ss[k].at
    /\ b /\ j = p => s[j] = "blocking"
    /\ (\E k \in 1..Len(ss) : ss[k].saved = j) => s[j] = "blocking"
Plausible(s, p, b, ss) ==
  /\ b => 2 <= p /\ p <= Len(s)
  /\ ~b /\ ss # <<>> => p = ss[1].saved \/ p >= ss[1].at
Holds(s, p, b, x, h) ==
  /\ Odd(x) => x <= MaxSuspend
  /\ Odd(x) /\ ~b => h = x /\ p = Len(s)
Ok(t, s, p, e, b, ss, x, h) ==
  /\ Typed(t, s, p, e, b, ss, x, h) /\ Ordered(s, p, b, ss) /\ Told(s, p, b, ss)
  /\ Plausible(s, p, b, ss) /\ Holds(s, p, b, x, h)

\* A thread that runs client code, or code inside of GC_do_blocking, was not
\* suspended in the handler.
NotHeld(b, x) == ~(Odd(x) /\ ~b)

\* The parts of Ok, and the types that follow from them.
LEMMA OkParts ==
  ASSUME NEW t \in StackThread, NEW s, NEW p, NEW e, NEW b, NEW ss, NEW x, NEW h,
         Ok(t, s, p, e, b, ss, x, h)
  PROVE  /\ Typed(t, s, p, e, b, ss, x, h) /\ MaxFrames[t] \in Nat /\ MaxSuspend \in Nat
         /\ Ordered(s, p, b, ss) /\ Told(s, p, b, ss)
         /\ Plausible(s, p, b, ss) /\ Holds(s, p, b, x, h)
         /\ s \in Seq(FrameKinds) /\ Len(s) \in Nat /\ Len(s) >= 1 /\ p \in Nat /\ p >= 1
         /\ b \in BOOLEAN /\ ss \in Seq(Sect) /\ Len(ss) \in Nat /\ x \in Nat /\ h \in Int
         /\ \A k \in 1..Len(ss) : ss[k].at \in Nat /\ ss[k].saved \in Nat /\ ss[k] \in Sect
         /\ \A k \in 1..Len(ss) : 2 <= ss[k].saved /\ ss[k].saved < ss[k].at /\ ss[k].at <= Len(s)
         /\ \A k, l \in 1..Len(ss) : k < l => ss[l].at < ss[k].saved
<1>1. /\ Typed(t, s, p, e, b, ss, x, h) /\ MaxFrames[t] \in Nat /\ MaxSuspend \in Nat
      /\ Ordered(s, p, b, ss) /\ Told(s, p, b, ss)
      /\ Plausible(s, p, b, ss) /\ Holds(s, p, b, x, h)
  BY StacksAssumption DEF Ok
<1>2. /\ s \in Seq(FrameKinds) /\ Len(s) \in Nat /\ Len(s) >= 1 /\ p \in Nat /\ p >= 1
      /\ b \in BOOLEAN /\ ss \in Seq(Sect) /\ Len(ss) \in Nat /\ x \in Nat /\ h \in Int
  BY <1>1 DEF Typed, NotWaiting
<1>3. \A k \in 1..Len(ss) : ss[k] \in Sect
  BY <1>2
<1>4. \A k \in 1..Len(ss) : ss[k].at \in Nat /\ ss[k].saved \in Nat
  BY <1>3 DEF Sect
<1>5. /\ \A k \in 1..Len(ss) : 2 <= ss[k].saved /\ ss[k].saved < ss[k].at /\ ss[k].at <= Len(s)
      /\ \A k, l \in 1..Len(ss) : k < l => ss[l].at < ss[k].saved
  BY <1>1 DEF Ordered
<1> QED
  BY <1>1, <1>2, <1>3, <1>4, <1>5

\* A call, inside of GC_do_blocking or not.
LEMMA OkCall ==
  ASSUME NEW t \in StackThread, NEW s, NEW p, NEW e, NEW b, NEW ss, NEW x, NEW h,
         Ok(t, s, p, e, b, ss, x, h), NotHeld(b, x), Len(s) < MaxFrames[t]
  PROVE  Ok(t, Append(s, IF b THEN "inside" ELSE "client"), p, e, b, ss, x, h)
<1> DEFINE f == IF b THEN "inside" ELSE "client"
           s2 == Append(s, f)
<1>t. Typed(t, s, p, e, b, ss, x, h) /\ MaxFrames[t] \in Nat
  BY OkParts
<1>o. Ordered(s, p, b, ss) /\ Told(s, p, b, ss) /\ Plausible(s, p, b, ss) /\ Holds(s, p, b, x, h)
  BY OkParts
<1>a. /\ s2 \in Seq(FrameKinds) /\ Len(s2) = Len(s) + 1 /\ s2[Len(s) + 1] = f
      /\ \A j \in 1..Len(s) : s2[j] = s[j]
  BY <1>t, AppendIs DEF Typed, FrameKinds
<1>n. Len(s) \in Nat /\ p \in Nat /\ \A k \in 1..Len(ss) : ss[k].at \in Nat /\ ss[k].saved \in Nat
  BY OkParts
<1> HIDE DEF s2
<1>1. Typed(t, s2, p, e, b, ss, x, h)
  BY <1>t, <1>a, <1>n DEF Typed
<1>2. Ordered(s2, p, b, ss)
  BY <1>o, <1>a, <1>n DEF Ordered
<1>3. Told(s2, p, b, ss)
  <2> SUFFICES ASSUME NEW j \in 1..Len(s) + 1
      PROVE /\ s2[j] = "active" <=> \E k \in 1..Len(ss) : ss[k].at = j
            /\ s2[j] = "inside" <=> \/ b /\ p < j
                                    \/ \E k \in 1..Len(ss) : ss[k].saved < j /\ j < ss[k].at
            /\ b /\ j = p => s2[j] = "blocking"
            /\ (\E k \in 1..Len(ss) : ss[k].saved = j) => s2[j] = "blocking"
    BY <1>a DEF Told
  <2>1. CASE j \in 1..Len(s)
    BY <2>1, <1>a, <1>o DEF Told
  <2>2. CASE j = Len(s) + 1
    <3>1. \A k \in 1..Len(ss) : ss[k].at < j /\ ss[k].saved < j
      BY <2>2, <1>o, <1>n DEF Ordered
    <3>2. b => p < j
      BY <2>2, <1>o, <1>n DEF Plausible
    <3>3. s2[j] = f /\ f # "active" /\ (f = "inside" <=> b)
      BY <2>2, <1>a, <1>t DEF Typed
    <3>4. ~\E k \in 1..Len(ss) : ss[k].at = j \/ ss[k].saved = j \/ j < ss[k].at
      BY <3>1, <1>n, <2>2
    <3> QED
      BY <3>2, <3>3, <3>4, <2>2, <1>n
  <2> QED
    BY <2>1, <2>2, <1>n
<1>4. Plausible(s2, p, b, ss)
  BY <1>o, <1>a, <1>n DEF Plausible
<1>5. Holds(s2, p, b, x, h)
  BY <1>o DEF Holds, NotHeld
<1> QED
  BY <1>1, <1>2, <1>3, <1>4, <1>5 DEF Ok, s2

\* A return from a frame of the client.
LEMMA OkReturn ==
  ASSUME NEW t \in StackThread, NEW s, NEW p, NEW e, NEW b, NEW ss, NEW x, NEW h,
         Ok(t, s, p, e, b, ss, x, h), NotHeld(b, x), Len(s) > 1, s[Len(s)] \in {"client", "inside"}
  PROVE  Ok(t, Front(s), p, e, b, ss, x, h)
<1> DEFINE s2 == Front(s)
<1>t. Typed(t, s, p, e, b, ss, x, h) /\ MaxFrames[t] \in Nat /\ MaxSuspend \in Nat
  BY OkParts
<1>o. Ordered(s, p, b, ss) /\ Told(s, p, b, ss) /\ Plausible(s, p, b, ss) /\ Holds(s, p, b, x, h)
  BY OkParts
<1>n. /\ Len(s) \in Nat /\ Len(s) >= 1 /\ p \in Nat /\ p >= 1 /\ Len(ss) \in Nat /\ x \in Nat
      /\ \A k \in 1..Len(ss) : ss[k].at \in Nat /\ ss[k].saved \in Nat
  BY OkParts
<1>s. /\ \A k \in 1..Len(ss) : 2 <= ss[k].saved /\ ss[k].saved < ss[k].at /\ ss[k].at <= Len(s)
      /\ \A k, l \in 1..Len(ss) : k < l => ss[l].at < ss[k].saved
  BY OkParts
<1>a. /\ s2 \in Seq(FrameKinds) /\ Len(s2) = Len(s) - 1
      /\ \A j \in 1..Len(s) - 1 : s2[j] = s[j]
  BY <1>t, <1>n, FrontIs DEF Typed
<1> HIDE DEF s2
<1>b. Len(s) \in 1..Len(s) /\ s[Len(s)] # "active" /\ s[Len(s)] # "blocking"
  BY <1>n
<1>c. /\ b => p < Len(s)
      /\ \A k \in 1..Len(ss) : ss[k].at < Len(s)
  BY <1>b, <1>n, <1>o DEF Told, Plausible, Ordered
<1>1. Typed(t, s2, p, e, b, ss, x, h)
  BY <1>t, <1>a, <1>n DEF Typed
<1>2. Ordered(s2, p, b, ss)
  BY <1>o, <1>a, <1>n, <1>c DEF Ordered
<1>3. Told(s2, p, b, ss)
  <2>1. ASSUME NEW j \in 1..Len(s2) PROVE j \in 1..Len(s) /\ s2[j] = s[j]
    BY <1>a, <1>n
  <2>2. \A j \in 1..Len(s) :
          /\ s[j] = "active" <=> \E k \in 1..Len(ss) : ss[k].at = j
          /\ s[j] = "inside" <=> \/ b /\ p < j
                                 \/ \E k \in 1..Len(ss) : ss[k].saved < j /\ j < ss[k].at
          /\ b /\ j = p => s[j] = "blocking"
          /\ (\E k \in 1..Len(ss) : ss[k].saved = j) => s[j] = "blocking"
    BY <1>o DEF Told
  <2> QED
    BY <2>1, <2>2 DEF Told
<1>4. Plausible(s2, p, b, ss)
  BY <1>o, <1>a, <1>n, <1>c DEF Plausible
<1>5. Holds(s2, p, b, x, h)
  BY <1>o DEF Holds, NotHeld
<1> QED
  BY <1>1, <1>2, <1>3, <1>4, <1>5 DEF Ok, s2

\* do_blocking_enter, for whatever suspension count y.
LEMMA OkEnter ==
  ASSUME NEW t \in StackThread, NEW s, NEW p, NEW e, NEW b, NEW ss, NEW x, NEW h, NEW y,
         y \in 0..MaxSuspend + 1,
         Ok(t, s, p, e, b, ss, x, h), b = FALSE, Len(s) < MaxFrames[t], Odd(y) => y <= MaxSuspend
  PROVE  Ok(t, Append(s, "blocking"), Len(s) + 1, e, TRUE, ss, y, h)
<1> DEFINE s2 == Append(s, "blocking")
<1>t. Typed(t, s, p, e, b, ss, x, h) /\ MaxFrames[t] \in Nat /\ MaxSuspend \in Nat
  BY OkParts
<1>o. Ordered(s, p, b, ss) /\ Told(s, p, b, ss) /\ Plausible(s, p, b, ss) /\ Holds(s, p, b, x, h)
  BY OkParts
<1>n. /\ Len(s) \in Nat /\ Len(s) >= 1 /\ p \in Nat /\ p >= 1 /\ Len(ss) \in Nat /\ x \in Nat
      /\ \A k \in 1..Len(ss) : ss[k].at \in Nat /\ ss[k].saved \in Nat
  BY OkParts
<1>s. /\ \A k \in 1..Len(ss) : 2 <= ss[k].saved /\ ss[k].saved < ss[k].at /\ ss[k].at <= Len(s)
      /\ \A k, l \in 1..Len(ss) : k < l => ss[l].at < ss[k].saved
  BY OkParts
<1>a. /\ s2 \in Seq(FrameKinds) /\ Len(s2) = Len(s) + 1 /\ s2[Len(s) + 1] = "blocking"
      /\ \A j \in 1..Len(s) : s2[j] = s[j]
  BY <1>t, AppendIs DEF Typed, FrameKinds
<1> HIDE DEF s2
<1>c. ASSUME NEW k \in 1..Len(ss)
      PROVE  ss[k].at < Len(s) + 1 /\ ss[k].saved < Len(s) + 1
  <2>1. /\ ss[k].saved < ss[k].at /\ ss[k].at <= Len(s)
        /\ ss[k].at \in Nat /\ ss[k].saved \in Nat /\ Len(s) \in Nat
    BY <1>s, <1>n
  <2> QED
    BY <2>1
<1>1. Typed(t, s2, Len(s) + 1, e, TRUE, ss, y, h)
  BY <1>t, <1>a, <1>n DEF Typed
<1>2. Ordered(s2, Len(s) + 1, TRUE, ss)
  <2>1. \A k \in 1..Len(ss) : ss[k].at <= Len(s2)
    BY <1>s, <1>a, <1>n
  <2> QED
    BY <2>1, <1>s, <1>c DEF Ordered
<1>3. Told(s2, Len(s) + 1, TRUE, ss)
  <2> SUFFICES ASSUME NEW j \in 1..Len(s) + 1
      PROVE /\ s2[j] = "active" <=> \E k \in 1..Len(ss) : ss[k].at = j
            /\ s2[j] = "inside" <=>
                 \/ TRUE /\ (Len(s) + 1) < j
                 \/ \E k \in 1..Len(ss) : ss[k].saved < j /\ j < ss[k].at
            /\ TRUE /\ j = (Len(s) + 1) => s2[j] = "blocking"
            /\ (\E k \in 1..Len(ss) : ss[k].saved = j) => s2[j] = "blocking"
    BY <1>a DEF Told
  <2>1. CASE j \in 1..Len(s)
    BY <2>1, <1>a, <1>o, <1>n DEF Told
  <2>2. CASE j = Len(s) + 1
    <3>1. ~\E k \in 1..Len(ss) : ss[k].at = j \/ j < ss[k].at
      BY <1>c, <1>n, <2>2
    <3> QED
      BY <3>1, <2>2, <1>a, <1>n
  <2>3. j \in 1..Len(s) \/ j = Len(s) + 1
    BY <1>n
  <2> QED
    BY <2>1, <2>2, <2>3
<1>4. Plausible(s2, Len(s) + 1, TRUE, ss)
  BY <1>a, <1>n DEF Plausible
<1>5. Holds(s2, Len(s) + 1, TRUE, y, h)
  BY DEF Holds
<1> QED
  BY <1>1, <1>2, <1>3, <1>4, <1>5 DEF Ok, s2

\* The function called by GC_do_blocking has returned.
LEMMA OkLeave ==
  ASSUME NEW t \in StackThread, NEW s, NEW p, NEW e, NEW b, NEW ss, NEW x, NEW h,
         Ok(t, s, p, e, b, ss, x, h), b = TRUE, ~Odd(x), s[Len(s)] = "blocking"
  PROVE  Ok(t, Front(s), p, e, FALSE, ss, x, h)
<1> DEFINE s2 == Front(s)
<1>t. Typed(t, s, p, e, b, ss, x, h) /\ MaxFrames[t] \in Nat /\ MaxSuspend \in Nat
  BY OkParts
<1>o. Ordered(s, p, b, ss) /\ Told(s, p, b, ss) /\ Plausible(s, p, b, ss) /\ Holds(s, p, b, x, h)
  BY OkParts
<1>n. /\ Len(s) \in Nat /\ Len(s) >= 1 /\ p \in Nat /\ p >= 1 /\ Len(ss) \in Nat /\ x \in Nat
      /\ \A k \in 1..Len(ss) : ss[k].at \in Nat /\ ss[k].saved \in Nat
  BY OkParts
<1>s. /\ \A k \in 1..Len(ss) : 2 <= ss[k].saved /\ ss[k].saved < ss[k].at /\ ss[k].at <= Len(s)
      /\ \A k, l \in 1..Len(ss) : k < l => ss[l].at < ss[k].saved
  BY OkParts
<1>a. /\ s2 \in Seq(FrameKinds) /\ Len(s2) = Len(s) - 1
      /\ \A j \in 1..Len(s) - 1 : s2[j] = s[j]
  BY <1>t, <1>n, FrontIs DEF Typed
<1> HIDE DEF s2
<1>c. p = Len(s) /\ Len(s) >= 2 /\ \A k \in 1..Len(ss) : ss[k].at < Len(s)
  <2>1. Len(s) \in 1..Len(s) /\ s[Len(s)] # "inside"
    BY <1>n
  <2>2. ~(p < Len(s))
    BY <2>1, <1>o DEF Told
  <2> QED
    BY <2>2, <1>n, <1>o DEF Plausible, Ordered
<1>1. Typed(t, s2, p, e, FALSE, ss, x, h)
  BY <1>t, <1>a, <1>n, <1>c DEF Typed
<1>2. Ordered(s2, p, FALSE, ss)
  BY <1>o, <1>a, <1>n, <1>c DEF Ordered
<1>3. Told(s2, p, FALSE, ss)
  <2> SUFFICES ASSUME NEW j \in 1..Len(s) - 1
      PROVE /\ s2[j] = "active" <=> \E k \in 1..Len(ss) : ss[k].at = j
            /\ s2[j] = "inside" <=>
                 \/ FALSE /\ p < j
                 \/ \E k \in 1..Len(ss) : ss[k].saved < j /\ j < ss[k].at
            /\ FALSE /\ j = p => s2[j] = "blocking"
            /\ (\E k \in 1..Len(ss) : ss[k].saved = j) => s2[j] = "blocking"
    BY <1>a DEF Told
  <2>1. j \in 1..Len(s) /\ ~(p < j) /\ s2[j] = s[j]
    BY <1>a, <1>c, <1>n
  <2> QED
    BY <2>1, <1>o DEF Told
<1>4. Plausible(s2, p, FALSE, ss)
  <2>1. ss # <<>> => 1 \in 1..Len(ss)
    BY <1>t, <1>n DEF Typed
  <2> QED
    BY <2>1, <1>c, <1>n DEF Plausible
<1>5. Holds(s2, p, FALSE, x, h)
  BY DEF Holds
<1> QED
  BY <1>1, <1>2, <1>3, <1>4, <1>5 DEF Ok, s2

\* GC_call_with_gc_active from inside of GC_do_blocking.
LEMMA OkActive ==
  ASSUME NEW t \in StackThread, NEW s, NEW p, NEW e, NEW b, NEW ss, NEW x, NEW h,
         Ok(t, s, p, e, b, ss, x, h), b = TRUE, ~Odd(x), Len(s) < MaxFrames[t]
  PROVE  Ok(t, Append(s, "active"), p, e, FALSE, <<[at |-> Len(s) + 1, saved |-> p]>> \o ss, x, h)
<1> DEFINE s2 == Append(s, "active")
           new == [at |-> Len(s) + 1, saved |-> p]
           ss2 == <<new>> \o ss
<1>t. Typed(t, s, p, e, b, ss, x, h) /\ MaxFrames[t] \in Nat /\ MaxSuspend \in Nat
  BY OkParts
<1>o. Ordered(s, p, b, ss) /\ Told(s, p, b, ss) /\ Plausible(s, p, b, ss) /\ Holds(s, p, b, x, h)
  BY OkParts
<1>n. /\ Len(s) \in Nat /\ Len(s) >= 1 /\ p \in Nat /\ p >= 1 /\ Len(ss) \in Nat /\ x \in Nat
      /\ \A k \in 1..Len(ss) : ss[k].at \in Nat /\ ss[k].saved \in Nat
  BY OkParts
<1>s. /\ \A k \in 1..Len(ss) : 2 <= ss[k].saved /\ ss[k].saved < ss[k].at /\ ss[k].at <= Len(s)
      /\ \A k, l \in 1..Len(ss) : k < l => ss[l].at < ss[k].saved
  BY OkParts
<1>a. /\ s2 \in Seq(FrameKinds) /\ Len(s2) = Len(s) + 1 /\ s2[Len(s) + 1] = "active"
      /\ \A j \in 1..Len(s) : s2[j] = s[j]
  BY <1>t, AppendIs DEF Typed, FrameKinds
<1>w. new \in Sect /\ new.at = Len(s) + 1 /\ new.saved = p
  BY <1>n DEF Sect
<1> HIDE DEF new
<1>d. /\ ss2 \in Seq(Sect) /\ Len(ss2) = Len(ss) + 1 /\ ss2[1] = new
      /\ \A k \in 1..Len(ss) : ss2[k + 1] = ss[k]
      /\ \A k \in 2..Len(ss) + 1 : ss2[k] = ss[k - 1]
  BY <1>t, <1>w, ConsIs DEF Typed
<1> HIDE DEF s2, ss2
<1>c. /\ \A k \in 1..Len(ss) : ss[k].at < p /\ ss[k].saved < ss[k].at
      /\ 2 <= p /\ p <= Len(s)
  BY <1>o, <1>n DEF Ordered, Plausible
<1>k. \A k \in 1..Len(ss2) : k = 1 \/ (k - 1 \in 1..Len(ss) /\ ss2[k] = ss[k - 1])
  BY <1>d, <1>n
<1>l. 1 \in 1..Len(ss2) /\ \A k \in 1..Len(ss) : k + 1 \in 1..Len(ss2) /\ ss2[k + 1] = ss[k]
  BY <1>d, <1>n
<1>1. Typed(t, s2, p, e, FALSE, ss2, x, h)
  BY <1>t, <1>a, <1>n, <1>d DEF Typed
<1>2. Ordered(s2, p, FALSE, ss2)
  <2>1. ASSUME NEW k \in 1..Len(ss2)
        PROVE  2 <= ss2[k].saved /\ ss2[k].saved < ss2[k].at /\ ss2[k].at <= Len(s2)
    <3>1. CASE k = 1
      <4>1. ss2[k].at = Len(s) + 1 /\ ss2[k].saved = p
        BY <3>1, <1>d, <1>w
      <4> QED
        BY <4>1, <1>c, <1>a, <1>n
    <3>2. CASE k # 1
      <4>1. k - 1 \in 1..Len(ss) /\ ss2[k] = ss[k - 1]
        BY <3>2, <1>k
      <4>2. 2 <= ss[k - 1].saved /\ ss[k - 1].saved < ss[k - 1].at /\ ss[k - 1].at <= Len(s)
        BY <4>1, <1>s
      <4>3. ss[k - 1].at \in Nat
        BY <4>1, <1>n
      <4> QED
        BY <4>1, <4>2, <4>3, <1>a, <1>n
    <3> QED
      BY <3>1, <3>2
  <2>2. ASSUME NEW k \in 1..Len(ss2), NEW l \in 1..Len(ss2), k < l
        PROVE  ss2[l].at < ss2[k].saved
    <3>1. l # 1 /\ l - 1 \in 1..Len(ss) /\ ss2[l] = ss[l - 1]
      BY <2>2, <1>k, <1>d, <1>n
    <3>2. CASE k = 1
      BY <3>1, <3>2, <1>d, <1>w, <1>c
    <3>3. CASE k # 1
      <4>1. k - 1 \in 1..Len(ss) /\ ss2[k] = ss[k - 1] /\ k - 1 < l - 1
        BY <3>3, <2>2, <1>k, <1>n
      <4> QED
        BY <4>1, <3>1, <1>o DEF Ordered
    <3> QED
      BY <3>2, <3>3
  <2> QED
    BY <2>1, <2>2 DEF Ordered
<1>3. Told(s2, p, FALSE, ss2)
  <2> SUFFICES ASSUME NEW j \in 1..Len(s) + 1
      PROVE /\ s2[j] = "active" <=> \E k \in 1..Len(ss2) : ss2[k].at = j
            /\ s2[j] = "inside" <=>
                 \/ FALSE /\ p < j
                 \/ \E k \in 1..Len(ss2) : ss2[k].saved < j /\ j < ss2[k].at
            /\ FALSE /\ j = p => s2[j] = "blocking"
            /\ (\E k \in 1..Len(ss2) : ss2[k].saved = j) => s2[j] = "blocking"
    BY <1>a DEF Told
  <2>1. (\E k \in 1..Len(ss2) : ss2[k].at = j)
          <=> j = Len(s) + 1 \/ \E k \in 1..Len(ss) : ss[k].at = j
    BY <1>k, <1>l, <1>d, <1>w
  <2>2. (\E k \in 1..Len(ss2) : ss2[k].saved < j /\ j < ss2[k].at)
          <=> \/ p < j /\ j < Len(s) + 1
              \/ \E k \in 1..Len(ss) : ss[k].saved < j /\ j < ss[k].at
    BY <1>k, <1>l, <1>d, <1>w
  <2>3. (\E k \in 1..Len(ss2) : ss2[k].saved = j)
          <=> j = p \/ \E k \in 1..Len(ss) : ss[k].saved = j
    <3>1. ASSUME NEW k \in 1..Len(ss2), ss2[k].saved = j
          PROVE  j = p \/ \E i \in 1..Len(ss) : ss[i].saved = j
      BY <3>1, <1>k, <1>d, <1>w
    <3>2. ASSUME j = p PROVE ss2[1].saved = j
      BY <3>2, <1>d, <1>w
    <3>3. ASSUME NEW k \in 1..Len(ss), ss[k].saved = j
          PROVE  k + 1 \in 1..Len(ss2) /\ ss2[k + 1].saved = j
      BY <3>3, <1>l
    <3> QED
      BY <3>1, <3>2, <3>3, <1>l
  <2>4. CASE j \in 1..Len(s)
    <3>1. s2[j] = s[j] /\ j < Len(s) + 1 /\ j # Len(s) + 1
      BY <2>4, <1>a, <1>n
    <3> QED
      BY <3>1, <2>1, <2>2, <2>3, <2>4, <1>o DEF Told
  <2>5. CASE j = Len(s) + 1
    <3>1. ~\E k \in 1..Len(ss) : ss[k].saved = j \/ j < ss[k].at
      BY <2>5, <1>c, <1>n
    <3>2. j # p /\ ~(j < Len(s) + 1) /\ s2[j] = "active"
      BY <2>5, <1>c, <1>n, <1>a
    <3> QED
      BY <3>1, <3>2, <2>1, <2>2, <2>3, <2>5
  <2> QED
    BY <2>4, <2>5, <1>n
<1>4. Plausible(s2, p, FALSE, ss2)
  BY <1>d, <1>w DEF Plausible
<1>5. Holds(s2, p, FALSE, x, h)
  BY DEF Holds
<1> QED
  BY <1>1, <1>2, <1>3, <1>4, <1>5 DEF Ok, s2, ss2, new

\* A frame of GC_call_with_gc_active is the hottest: it belongs to the first
\* section, and the thread is not inside of GC_do_blocking.
LEMMA ActiveIsFirst ==
  ASSUME NEW t \in StackThread, NEW s, NEW p, NEW e, NEW b, NEW ss, NEW x, NEW h,
         Ok(t, s, p, e, b, ss, x, h), s[Len(s)] = "active"
  PROVE  ~b /\ ss # <<>> /\ 1 \in 1..Len(ss) /\ ss[1].at = Len(s)
<1>t. Typed(t, s, p, e, b, ss, x, h) /\ MaxFrames[t] \in Nat /\ MaxSuspend \in Nat
  BY OkParts
<1>o. Ordered(s, p, b, ss) /\ Told(s, p, b, ss) /\ Plausible(s, p, b, ss) /\ Holds(s, p, b, x, h)
  BY OkParts
<1>n. /\ Len(s) \in Nat /\ Len(s) >= 1 /\ p \in Nat /\ p >= 1 /\ Len(ss) \in Nat /\ x \in Nat
      /\ \A k \in 1..Len(ss) : ss[k].at \in Nat /\ ss[k].saved \in Nat
  BY OkParts
<1>s. /\ \A k \in 1..Len(ss) : 2 <= ss[k].saved /\ ss[k].saved < ss[k].at /\ ss[k].at <= Len(s)
      /\ \A k, l \in 1..Len(ss) : k < l => ss[l].at < ss[k].saved
  BY OkParts
<1>1. PICK k \in 1..Len(ss) : ss[k].at = Len(s)
  BY <1>n, <1>o DEF Told
<1>2. ~b
  BY <1>1, <1>o, <1>n DEF Ordered, Plausible
<1>3. k = 1
  <2>1. 1 \in 1..Len(ss)
    BY <1>1, <1>n
  <2>2. ASSUME 1 < k PROVE FALSE
    <3>1. ss[k].at < ss[1].saved /\ ss[1].saved < ss[1].at /\ ss[1].at <= Len(s)
      BY <2>1, <2>2, <1>s
    <3> QED
      BY <3>1, <2>1, <1>1, <1>n
  <2> QED
    BY <2>2, <1>1, <1>n
<1> QED
  BY <1>1, <1>2, <1>3, <1>t DEF Typed

\* GC_call_with_gc_active returns: the thread is inside of GC_do_blocking again, with the
\* stack pointer that was saved.
LEMMA OkLeaveActive ==
  ASSUME NEW t \in StackThread, NEW s, NEW p, NEW e, NEW b, NEW ss, NEW x, NEW h,
         Ok(t, s, p, e, b, ss, x, h), ~Odd(x), s[Len(s)] = "active"
  PROVE  Ok(t, Front(s), Head(ss).saved, e, TRUE, Tail(ss), x, h)
<1> DEFINE s2 == Front(s)
           q == Head(ss).saved
           ss2 == Tail(ss)
<1>t. Typed(t, s, p, e, b, ss, x, h) /\ MaxFrames[t] \in Nat /\ MaxSuspend \in Nat
  BY OkParts
<1>o. Ordered(s, p, b, ss) /\ Told(s, p, b, ss) /\ Plausible(s, p, b, ss) /\ Holds(s, p, b, x, h)
  BY OkParts
<1>n. /\ Len(s) \in Nat /\ Len(s) >= 1 /\ p \in Nat /\ p >= 1 /\ Len(ss) \in Nat /\ x \in Nat
      /\ \A k \in 1..Len(ss) : ss[k].at \in Nat /\ ss[k].saved \in Nat
  BY OkParts
<1>s. /\ \A k \in 1..Len(ss) : 2 <= ss[k].saved /\ ss[k].saved < ss[k].at /\ ss[k].at <= Len(s)
      /\ \A k, l \in 1..Len(ss) : k < l => ss[l].at < ss[k].saved
  BY OkParts
<1>a. /\ s2 \in Seq(FrameKinds) /\ Len(s2) = Len(s) - 1
      /\ \A j \in 1..Len(s) - 1 : s2[j] = s[j]
  BY <1>t, <1>n, FrontIs DEF Typed
<1>f. ~b /\ ss # <<>> /\ 1 \in 1..Len(ss) /\ ss[1].at = Len(s)
  BY ActiveIsFirst
<1>d. /\ ss2 \in Seq(Sect) /\ Len(ss2) = Len(ss) - 1 /\ Len(ss) >= 1 /\ q = ss[1].saved
      /\ \A k \in 1..Len(ss) - 1 : ss2[k] = ss[k + 1]
  BY <1>t, <1>f, TailIs DEF Typed
<1> HIDE DEF s2, ss2, q
<1>k. \A k \in 1..Len(ss2) : k + 1 \in 1..Len(ss) /\ ss2[k] = ss[k + 1] /\ 1 < k + 1
  BY <1>d, <1>n
<1>l. ASSUME NEW k \in 1..Len(ss), k # 1 PROVE k - 1 \in 1..Len(ss2) /\ ss2[k - 1] = ss[k]
  <2>1. k - 1 \in 1..Len(ss) - 1 /\ (k - 1) + 1 = k
    BY <1>l, <1>n
  <2> QED
    BY <2>1, <1>d
<1>q. q \in Nat /\ 2 <= q /\ q < Len(s) /\ q = ss[1].saved
  BY <1>d, <1>f, <1>s, <1>n
<1>c. \A k \in 1..Len(ss2) : ss2[k].at < q /\ 2 <= ss2[k].saved /\ ss2[k].saved < ss2[k].at
  BY <1>k, <1>f, <1>q, <1>s
<1>1. Typed(t, s2, q, e, TRUE, ss2, x, h)
  <2>1. /\ Len(s) \in 1..MaxFrames[t] /\ e \in 0..1
        /\ x \in 0..MaxSuspend + 1 /\ h \in NotWaiting..MaxSuspend
    BY <1>t DEF Typed
  <2>2. Len(s2) \in 1..MaxFrames[t] /\ q \in 1..MaxFrames[t]
    BY <2>1, <1>t, <1>a, <1>n, <1>q
  <2> QED
    BY <2>1, <2>2, <1>a, <1>d DEF Typed
<1>2. Ordered(s2, q, TRUE, ss2)
  <2>1. ASSUME NEW k \in 1..Len(ss2)
        PROVE  ss2[k].at <= Len(s2)
    <3>1. ss2[k].at < q /\ ss2[k].at \in Nat
      BY <1>c, <1>k, <1>n
    <3> QED
      BY <3>1, <1>q, <1>a, <1>n
  <2>2. ASSUME NEW k \in 1..Len(ss2), NEW l \in 1..Len(ss2), k < l
        PROVE  ss2[l].at < ss2[k].saved
    <3>1. k + 1 < l + 1
      BY <2>2, <1>d, <1>n
    <3> QED
      BY <3>1, <1>k, <1>o DEF Ordered
  <2> QED
    BY <2>1, <2>2, <1>c DEF Ordered
<1>3. Told(s2, q, TRUE, ss2)
  <2> SUFFICES ASSUME NEW j \in 1..Len(s) - 1
      PROVE /\ s2[j] = "active" <=> \E k \in 1..Len(ss2) : ss2[k].at = j
            /\ s2[j] = "inside" <=>
                 \/ TRUE /\ q < j
                 \/ \E k \in 1..Len(ss2) : ss2[k].saved < j /\ j < ss2[k].at
            /\ TRUE /\ j = q => s2[j] = "blocking"
            /\ (\E k \in 1..Len(ss2) : ss2[k].saved = j) => s2[j] = "blocking"
    BY <1>a DEF Told
  <2>0. j \in 1..Len(s) /\ s2[j] = s[j] /\ j < ss[1].at
    BY <1>a, <1>f, <1>n
  <2>1. (\E k \in 1..Len(ss) : ss[k].at = j) <=> \E k \in 1..Len(ss2) : ss2[k].at = j
    <3>1. ASSUME NEW k \in 1..Len(ss), ss[k].at = j
          PROVE  k - 1 \in 1..Len(ss2) /\ ss2[k - 1].at = j
      <4>1. k # 1
        BY <3>1, <2>0, <1>f, <1>n
      <4> QED
        BY <4>1, <3>1, <1>l
    <3>2. ASSUME NEW k \in 1..Len(ss2), ss2[k].at = j
          PROVE  k + 1 \in 1..Len(ss) /\ ss[k + 1].at = j
      BY <3>2, <1>k
    <3> QED
      BY <3>1, <3>2
  <2>2. (\E k \in 1..Len(ss) : ss[k].saved < j /\ j < ss[k].at)
          <=> q < j \/ \E k \in 1..Len(ss2) : ss2[k].saved < j /\ j < ss2[k].at
    BY <1>k, <1>l, <2>0, <1>f, <1>q
  <2>3. (\E k \in 1..Len(ss) : ss[k].saved = j)
          <=> j = q \/ \E k \in 1..Len(ss2) : ss2[k].saved = j
    BY <1>k, <1>l, <1>f, <1>q
  <2> QED
    BY <2>0, <2>1, <2>2, <2>3, <1>o, <1>f DEF Told
<1>4. Plausible(s2, q, TRUE, ss2)
  BY <1>q, <1>a, <1>n DEF Plausible
<1>5. Holds(s2, q, TRUE, x, h)
  BY DEF Holds
<1> QED
  BY <1>1, <1>2, <1>3, <1>4, <1>5 DEF Ok, s2, ss2, q

\* The stack pointer is that of the handler.
LEMMA OkStored ==
  ASSUME NEW t \in StackThread, NEW s, NEW p, NEW e, NEW b, NEW ss, NEW x, NEW h, NEW y, NEW g,
         y \in 0..MaxSuspend + 1, g \in NotWaiting..MaxSuspend,
         Ok(t, s, p, e, b, ss, x, h), b = FALSE, Odd(y) => y <= MaxSuspend /\ g = y
  PROVE  Ok(t, s, Len(s), e, b, ss, y, g)
<1>t. Typed(t, s, p, e, b, ss, x, h) /\ MaxFrames[t] \in Nat /\ MaxSuspend \in Nat
  BY OkParts
<1>o. Ordered(s, p, b, ss) /\ Told(s, p, b, ss) /\ Plausible(s, p, b, ss) /\ Holds(s, p, b, x, h)
  BY OkParts
<1>n. /\ Len(s) \in Nat /\ Len(s) >= 1 /\ p \in Nat /\ p >= 1 /\ Len(ss) \in Nat /\ x \in Nat
      /\ \A k \in 1..Len(ss) : ss[k].at \in Nat /\ ss[k].saved \in Nat
  BY OkParts
<1>s. /\ \A k \in 1..Len(ss) : 2 <= ss[k].saved /\ ss[k].saved < ss[k].at /\ ss[k].at <= Len(s)
      /\ \A k, l \in 1..Len(ss) : k < l => ss[l].at < ss[k].saved
  BY OkParts
<1>1. Typed(t, s, Len(s), e, b, ss, y, g)
  BY <1>t, <1>n DEF Typed
<1>2. Ordered(s, Len(s), b, ss) /\ Told(s, Len(s), b, ss)
  BY <1>o DEF Ordered, Told
<1>3. Plausible(s, Len(s), b, ss)
  <2>1. ss # <<>> => 1 \in 1..Len(ss)
    BY <1>t, <1>n DEF Typed
  <2> QED
    BY <2>1, <1>o, <1>n DEF Plausible, Ordered
<1>4. Holds(s, Len(s), b, y, g)
  BY DEF Holds
<1> QED
  BY <1>1, <1>2, <1>3, <1>4 DEF Ok

\* The counts of suspensions alone, and the end of the stack.
LEMMA OkCounts ==
  ASSUME NEW t \in StackThread, NEW s, NEW p, NEW e, NEW b, NEW ss, NEW x, NEW h, NEW y, NEW g,
         y \in 0..MaxSuspend + 1, g \in NotWaiting..MaxSuspend,
         Ok(t, s, p, e, b, ss, x, h), NEW d \in 0..1,
         Odd(y) => y <= MaxSuspend, NotHeld(b, y) \/ (g = y /\ p = Len(s))
  PROVE  Ok(t, s, p, d, b, ss, y, g)
<1>t. Typed(t, s, p, e, b, ss, x, h) /\ MaxFrames[t] \in Nat /\ MaxSuspend \in Nat
  BY OkParts
<1>o. Ordered(s, p, b, ss) /\ Told(s, p, b, ss) /\ Plausible(s, p, b, ss) /\ Holds(s, p, b, x, h)
  BY OkParts
<1>n. /\ Len(s) \in Nat /\ Len(s) >= 1 /\ p \in Nat /\ p >= 1 /\ Len(ss) \in Nat /\ x \in Nat
      /\ \A k \in 1..Len(ss) : ss[k].at \in Nat /\ ss[k].saved \in Nat
  BY OkParts
<1>s. /\ \A k \in 1..Len(ss) : 2 <= ss[k].saved /\ ss[k].saved < ss[k].at /\ ss[k].at <= Len(s)
      /\ \A k, l \in 1..Len(ss) : k < l => ss[l].at < ss[k].saved
  BY OkParts
<1>1. Typed(t, s, p, d, b, ss, y, g)
  BY <1>t DEF Typed
<1>2. Holds(s, p, b, y, g)
  BY DEF Holds, NotHeld
<1> QED
  BY <1>1, <1>2, <1>o DEF Ok

-----------------------------------------------------------------------------
(* The invariant of all threads, and the steps. *)
ThreadOk(t) ==
  Ok(t, stk[t], stackPtr[t], stackEnd[t], blocking[t], sects[t], extCnt[t], inHandler[t])
SInv ==
  /\ StacksTypeOK /\ StopHolds
  /\ \A t \in StackThread : ThreadOk(t)

\* The types, for use by SMT.
LEMMA SInvTypes ==
  ASSUME SInv
  PROVE  /\ stk \in [StackThread -> Seq(FrameKinds)]
         /\ stackPtr \in [StackThread -> Nat] /\ stackEnd \in [StackThread -> Nat]
         /\ sects \in [StackThread -> Seq(Sect)]
         /\ blocking \in [StackThread -> BOOLEAN]
         /\ extCnt \in [StackThread -> 0..MaxSuspend + 1]
         /\ inHandler \in [StackThread -> NotWaiting..MaxSuspend]
         /\ selfWait \in [StackThread -> NotWaiting..MaxSuspend]
         /\ stacksStopper \in StackThread \cup {NoThread}
         /\ \A t \in StackThread : Len(stk[t]) \in Nat
         /\ MaxSuspend \in Nat /\ NoThread \notin StackThread
BY StacksAssumption DEF SInv, StacksTypeOK, Sect

\* What a thread's Ok says of types.
LEMMA OkTypes ==
  ASSUME NEW t \in StackThread, NEW s, NEW p, NEW e, NEW b, NEW ss, NEW x, NEW h,
         Ok(t, s, p, e, b, ss, x, h)
  PROVE  /\ s \in Seq(FrameKinds) /\ Len(s) \in 1..MaxFrames[t] /\ p \in 1..MaxFrames[t] /\ p \in Nat
         /\ e \in Nat /\ e \in 0..1 /\ b \in BOOLEAN /\ ss \in Seq([at : Nat, saved : Nat])
         /\ x \in 0..MaxSuspend + 1 /\ h \in NotWaiting..MaxSuspend
<1>1. Typed(t, s, p, e, b, ss, x, h) /\ MaxFrames[t] \in Nat
  BY OkParts
<1> QED
  BY <1>1 DEF Typed, Sect

\* A step that changes the variables of one thread only.
LEMMA Lift ==
  ASSUME SInv, NEW t \in StackThread, ThreadOk(t)',
         stk' = [stk EXCEPT ![t] = stk'[t]], stackPtr' = [stackPtr EXCEPT ![t] = stackPtr'[t]],
         stackEnd' = [stackEnd EXCEPT ![t] = stackEnd'[t]],
         blocking' = [blocking EXCEPT ![t] = blocking'[t]],
         sects' = [sects EXCEPT ![t] = sects'[t]], extCnt' = [extCnt EXCEPT ![t] = extCnt'[t]],
         inHandler' = [inHandler EXCEPT ![t] = inHandler'[t]],
         selfWait' \in [StackThread -> NotWaiting..MaxSuspend],
         stacksStopper' \in StackThread \cup {NoThread},
         StopHolds'
  PROVE  SInv'
<1>t. /\ stk \in [StackThread -> Seq(FrameKinds)]
      /\ stackPtr \in [StackThread -> Nat] /\ stackEnd \in [StackThread -> Nat]
      /\ sects \in [StackThread -> Seq([at : Nat, saved : Nat])]
      /\ blocking \in [StackThread -> BOOLEAN]
      /\ extCnt \in [StackThread -> 0..MaxSuspend + 1]
      /\ inHandler \in [StackThread -> NotWaiting..MaxSuspend]
  BY DEF SInv, StacksTypeOK
<1>o. /\ stk'[t] \in Seq(FrameKinds) /\ Len(stk'[t]) \in 1..MaxFrames[t]
      /\ stackPtr'[t] \in 1..MaxFrames[t] /\ stackPtr'[t] \in Nat
      /\ stackEnd'[t] \in Nat /\ blocking'[t] \in BOOLEAN
      /\ sects'[t] \in Seq([at : Nat, saved : Nat])
      /\ extCnt'[t] \in 0..MaxSuspend + 1 /\ inHandler'[t] \in NotWaiting..MaxSuspend
  <2>1. Ok(t, stk'[t], stackPtr'[t], stackEnd'[t], blocking'[t], sects'[t], extCnt'[t], inHandler'[t])
    BY DEF ThreadOk
  <2> QED
    BY <2>1, OkTypes
<1>1. /\ stk' \in [StackThread -> Seq(FrameKinds)]
      /\ stackPtr' \in [StackThread -> Nat] /\ stackEnd' \in [StackThread -> Nat]
      /\ sects' \in [StackThread -> Seq([at : Nat, saved : Nat])]
      /\ blocking' \in [StackThread -> BOOLEAN]
      /\ extCnt' \in [StackThread -> 0..MaxSuspend + 1]
      /\ inHandler' \in [StackThread -> NotWaiting..MaxSuspend]
  BY <1>t, <1>o
<1>2. ASSUME NEW u \in StackThread, u # t
      PROVE  /\ stk'[u] = stk[u] /\ stackPtr'[u] = stackPtr[u] /\ stackEnd'[u] = stackEnd[u]
             /\ blocking'[u] = blocking[u] /\ sects'[u] = sects[u]
             /\ extCnt'[u] = extCnt[u] /\ inHandler'[u] = inHandler[u]
  BY <1>2, <1>t
<1>4. ASSUME NEW u \in StackThread
      PROVE  /\ ThreadOk(u)'
             /\ Len(stk'[u]) \in 1..MaxFrames[u] /\ stackPtr'[u] \in 1..MaxFrames[u]
  <2>1. CASE u = t
    BY <2>1, <1>o
  <2>2. CASE u # t
    <3>1. ThreadOk(u) /\ Len(stk[u]) \in 1..MaxFrames[u] /\ stackPtr[u] \in 1..MaxFrames[u]
      BY DEF SInv, StacksTypeOK, Sp
    <3> QED
      BY <2>2, <1>2, <3>1 DEF ThreadOk
  <2> QED
    BY <2>1, <2>2
<1>5. StacksTypeOK'
  BY <1>1, <1>4 DEF StacksTypeOK, Sp
<1> QED
  BY <1>4, <1>5 DEF SInv

\* A thread that runs: what it may be doing.
LEMMA RunsIs ==
  ASSUME SInv, NEW t \in StackThread, Runs(t)
  PROVE  /\ NotHeld(blocking[t], extCnt[t])
         /\ ~blocking[t] => ~Odd(extCnt[t]) /\ inHandler[t] = NotWaiting /\ stacksStopper = NoThread
         /\ stacksStopper # NoThread => blocking[t] /\ t # stacksStopper
<1>1. ThreadOk(t) /\ StopHolds
  BY DEF SInv
<1>2. Holds(stk[t], stackPtr[t], blocking[t], extCnt[t], inHandler[t]) /\ extCnt[t] \in Nat
  BY <1>1, OkParts DEF ThreadOk
<1>3. blocking[t] \/ (stacksStopper = NoThread /\ inHandler[t] = NotWaiting)
  BY DEF Runs
<1>4. ASSUME ~blocking[t], Odd(extCnt[t]) PROVE FALSE
  BY <1>2, <1>3, <1>4 DEF Holds, NotWaiting
<1> QED
  BY <1>1, <1>3, <1>4 DEF NotHeld, StopHolds

\* With the lock free there is nothing to hold; and a step of a thread inside
\* of GC_do_blocking that stays there leaves a stopped world stopped.
LEMMA StopLifts ==
  ASSUME SInv, NEW t \in StackThread, stacksStopper' = stacksStopper,
         \/ stacksStopper = NoThread
         \/ /\ blocking[t] /\ blocking' = blocking
            /\ \A u \in StackThread \ {t} : stackPtr'[u] = stackPtr[u] /\ stk'[u] = stk[u]
  PROVE  StopHolds'
<1>1. StopHolds
  BY DEF SInv
<1>2. CASE stacksStopper = NoThread
  BY <1>2 DEF StopHolds
<1>3. CASE stacksStopper # NoThread
  BY <1>1, <1>3 DEF StopHolds, Sp
<1> QED
  BY <1>2, <1>3

\* What becomes of the variables of a thread to which values are assigned.
LEMMA Assigned ==
  ASSUME NEW S, NEW f \in [StackThread -> S], NEW g, NEW v, NEW t \in StackThread,
         g = [f EXCEPT ![t] = v]
  PROVE  g[t] = v /\ g = [f EXCEPT ![t] = g[t]]
OBVIOUS
LEMMA Kept ==
  ASSUME NEW S, NEW f \in [StackThread -> S], NEW g, NEW t \in StackThread, g = f
  PROVE  g[t] = f[t] /\ g = [f EXCEPT ![t] = g[t]]
OBVIOUS

\* One lemma for each action: it changes one thread, by a step above.
LEMMA CallKeeps ==
  ASSUME SInv, NEW t \in StackThread, Call(t)
  PROVE  SInv'
<1>0. Ok(t, stk[t], stackPtr[t], stackEnd[t], blocking[t], sects[t], extCnt[t], inHandler[t])
  BY DEF SInv, ThreadOk
<1>1. NotHeld(blocking[t], extCnt[t]) /\ Len(stk[t]) < MaxFrames[t]
  BY RunsIs DEF Call, Sp
<1>2. Ok(t, Append(stk[t], IF blocking[t] THEN "inside" ELSE "client"), stackPtr[t], stackEnd[t], blocking[t], sects[t], extCnt[t], inHandler[t])
  BY <1>0, <1>1, OkCall
<1>3. /\ stk' = [stk EXCEPT ![t] = Append(stk[t], IF blocking[t] THEN "inside" ELSE "client")]
      /\ UNCHANGED <<stackPtr, stackEnd, blocking, sects, extCnt, inHandler, selfWait, stacksStopper>>
  BY DEF Call, suspension
<1>4. /\ stk'[t] = Append(stk[t], IF blocking[t] THEN "inside" ELSE "client") /\ stk' = [stk EXCEPT ![t] = stk'[t]]
      /\ stackPtr'[t] = stackPtr[t] /\ stackPtr' = [stackPtr EXCEPT ![t] = stackPtr'[t]]
      /\ stackEnd'[t] = stackEnd[t] /\ stackEnd' = [stackEnd EXCEPT ![t] = stackEnd'[t]]
      /\ blocking'[t] = blocking[t] /\ blocking' = [blocking EXCEPT ![t] = blocking'[t]]
      /\ sects'[t] = sects[t] /\ sects' = [sects EXCEPT ![t] = sects'[t]]
      /\ extCnt'[t] = extCnt[t] /\ extCnt' = [extCnt EXCEPT ![t] = extCnt'[t]]
      /\ inHandler'[t] = inHandler[t] /\ inHandler' = [inHandler EXCEPT ![t] = inHandler'[t]]
  BY <1>3, SInvTypes
<1>5. ThreadOk(t)'
  BY <1>2, <1>4 DEF ThreadOk
<1>6. StopHolds'
  <2>1. stacksStopper = NoThread \/ blocking[t]
    BY RunsIs DEF Call
  <2>2. \A u \in StackThread \ {t} : stk'[u] = stk[u]
    BY <1>3, SInvTypes
  <2> QED
    BY <1>3, <2>1, <2>2, StopLifts
<1>7. /\ selfWait' \in [StackThread -> NotWaiting..MaxSuspend]
      /\ stacksStopper' \in StackThread \cup {NoThread}
  BY <1>3, SInvTypes
<1> QED
  BY <1>4, <1>5, <1>6, <1>7, Lift

LEMMA ReturnKeeps ==
  ASSUME SInv, NEW t \in StackThread, Return(t)
  PROVE  SInv'
<1>0. Ok(t, stk[t], stackPtr[t], stackEnd[t], blocking[t], sects[t], extCnt[t], inHandler[t])
  BY DEF SInv, ThreadOk
<1>1. /\ NotHeld(blocking[t], extCnt[t]) /\ Len(stk[t]) > 1
      /\ stk[t][Len(stk[t])] \in {"client", "inside"}
  BY RunsIs DEF Return, Sp, Hottest
<1>2. Ok(t, Front(stk[t]), stackPtr[t], stackEnd[t], blocking[t], sects[t], extCnt[t], inHandler[t])
  BY <1>0, <1>1, OkReturn
<1>3. /\ stk' = [stk EXCEPT ![t] = Front(stk[t])]
      /\ UNCHANGED <<stackPtr, stackEnd, blocking, sects, extCnt, inHandler, selfWait, stacksStopper>>
  BY DEF Return, suspension
<1>4. /\ stk'[t] = Front(stk[t]) /\ stk' = [stk EXCEPT ![t] = stk'[t]]
      /\ stackPtr'[t] = stackPtr[t] /\ stackPtr' = [stackPtr EXCEPT ![t] = stackPtr'[t]]
      /\ stackEnd'[t] = stackEnd[t] /\ stackEnd' = [stackEnd EXCEPT ![t] = stackEnd'[t]]
      /\ blocking'[t] = blocking[t] /\ blocking' = [blocking EXCEPT ![t] = blocking'[t]]
      /\ sects'[t] = sects[t] /\ sects' = [sects EXCEPT ![t] = sects'[t]]
      /\ extCnt'[t] = extCnt[t] /\ extCnt' = [extCnt EXCEPT ![t] = extCnt'[t]]
      /\ inHandler'[t] = inHandler[t] /\ inHandler' = [inHandler EXCEPT ![t] = inHandler'[t]]
  BY <1>3, SInvTypes
<1>5. ThreadOk(t)'
  BY <1>2, <1>4 DEF ThreadOk
<1>6. StopHolds'
  <2>1. stacksStopper = NoThread \/ blocking[t]
    BY RunsIs DEF Return
  <2>2. \A u \in StackThread \ {t} : stk'[u] = stk[u]
    BY <1>3, SInvTypes
  <2> QED
    BY <1>3, <2>1, <2>2, StopLifts
<1>7. /\ selfWait' \in [StackThread -> NotWaiting..MaxSuspend]
      /\ stacksStopper' \in StackThread \cup {NoThread}
  BY <1>3, SInvTypes
<1> QED
  BY <1>4, <1>5, <1>6, <1>7, Lift

LEMMA DoBlockingKeeps ==
  ASSUME SInv, NEW t \in StackThread, GC_do_blocking(t)
  PROVE  SInv'
<1>0. Ok(t, stk[t], stackPtr[t], stackEnd[t], blocking[t], sects[t], extCnt[t], inHandler[t])
  BY DEF SInv, ThreadOk
<1>1. blocking[t] = FALSE /\ Len(stk[t]) < MaxFrames[t] /\ stacksStopper = NoThread
  BY SInvTypes DEF GC_do_blocking, Sp, LockFree
<1>a. extCnt[t] \in 0..MaxSuspend + 1 /\ (Odd(extCnt[t]) => extCnt[t] <= MaxSuspend)
  <2>1. Holds(stk[t], stackPtr[t], blocking[t], extCnt[t], inHandler[t])
    BY <1>0, OkParts
  <2> QED
    BY <2>1, SInvTypes DEF Holds
<1>2. Ok(t, Append(stk[t], "blocking"), Len(stk[t]) + 1, stackEnd[t], TRUE,
         sects[t], extCnt[t], inHandler[t])
  BY <1>0, <1>1, <1>a, OkEnter
<1>3. /\ stk' = [stk EXCEPT ![t] = Append(stk[t], "blocking")]
      /\ stackPtr' = [stackPtr EXCEPT ![t] = Len(stk[t]) + 1]
      /\ blocking' = [blocking EXCEPT ![t] = TRUE]
      /\ UNCHANGED <<stackEnd, sects, extCnt, inHandler, selfWait, stacksStopper>>
  BY DEF GC_do_blocking, do_blocking_enter, SaveSp, Sp, suspension
<1>4. /\ stk'[t] = Append(stk[t], "blocking") /\ stk' = [stk EXCEPT ![t] = stk'[t]]
      /\ stackPtr'[t] = Len(stk[t]) + 1 /\ stackPtr' = [stackPtr EXCEPT ![t] = stackPtr'[t]]
      /\ stackEnd'[t] = stackEnd[t] /\ stackEnd' = [stackEnd EXCEPT ![t] = stackEnd'[t]]
      /\ blocking'[t] = TRUE /\ blocking' = [blocking EXCEPT ![t] = blocking'[t]]
      /\ sects'[t] = sects[t] /\ sects' = [sects EXCEPT ![t] = sects'[t]]
      /\ extCnt'[t] = extCnt[t] /\ extCnt' = [extCnt EXCEPT ![t] = extCnt'[t]]
      /\ inHandler'[t] = inHandler[t] /\ inHandler' = [inHandler EXCEPT ![t] = inHandler'[t]]
  BY <1>3, SInvTypes
<1>5. ThreadOk(t)'
  BY <1>2, <1>4 DEF ThreadOk
<1>6. StopHolds'
  BY <1>1, <1>3, StopLifts
<1>7. /\ selfWait' \in [StackThread -> NotWaiting..MaxSuspend]
      /\ stacksStopper' \in StackThread \cup {NoThread}
  BY <1>3, SInvTypes
<1> QED
  BY <1>4, <1>5, <1>6, <1>7, Lift

\* Waiting, and the end of waiting, are no matter of the stack.
LEMMA OnlyWaits ==
  ASSUME SInv, UNCHANGED <<stk, stackPtr, stackEnd, blocking, sects, extCnt, inHandler, stacksStopper>>,
         selfWait' \in [StackThread -> NotWaiting..MaxSuspend]
  PROVE  SInv'
BY DEF SInv, StacksTypeOK, StopHolds, ThreadOk, Sp

\* A suspended thread that would leave GC_do_blocking waits.
LEMMA SelfWaits ==
  ASSUME SInv, NEW t \in StackThread, Odd(extCnt[t]),
         selfWait' = [selfWait EXCEPT ![t] = extCnt[t]],
         UNCHANGED <<stk, stackPtr, stackEnd, blocking, sects, extCnt, inHandler, stacksStopper>>
  PROVE  SInv'
<1>0. Ok(t, stk[t], stackPtr[t], stackEnd[t], blocking[t], sects[t], extCnt[t], inHandler[t])
  BY DEF SInv, ThreadOk
<1>1. Odd(extCnt[t]) => extCnt[t] <= MaxSuspend
  BY <1>0, OkParts DEF Holds
<1>2. extCnt[t] \in NotWaiting..MaxSuspend
  BY <1>1, SInvTypes DEF NotWaiting
<1> QED
  BY <1>2, SInvTypes, OnlyWaits

\* It was resumed.
LEMMA SuspendSelfKeeps ==
  ASSUME SInv, NEW t \in StackThread, GC_suspend_self_inner(t)
  PROVE  SInv'
<1>1. NotWaiting \in NotWaiting..MaxSuspend
  BY SInvTypes DEF NotWaiting
<1> QED
  BY <1>1, SInvTypes, OnlyWaits DEF GC_suspend_self_inner

\* The function called by GC_do_blocking returned and the thread is not suspended.
LEMMA BlockingEnds ==
  ASSUME SInv, NEW t \in StackThread, do_blocking_leave(t), ~Odd(extCnt[t])
  PROVE  SInv'
<1>0. Ok(t, stk[t], stackPtr[t], stackEnd[t], blocking[t], sects[t], extCnt[t], inHandler[t])
  BY DEF SInv, ThreadOk
<1>1. /\ blocking[t] = TRUE /\ stk[t][Len(stk[t])] = "blocking" /\ stacksStopper = NoThread
  BY SInvTypes DEF do_blocking_leave, Hottest, Sp, LockFree
<1>2. Ok(t, Front(stk[t]), stackPtr[t], stackEnd[t], FALSE, sects[t], extCnt[t], inHandler[t])
  BY <1>0, <1>1, OkLeave
<1>3. /\ stk' = [stk EXCEPT ![t] = Front(stk[t])]
      /\ blocking' = [blocking EXCEPT ![t] = FALSE]
      /\ UNCHANGED <<stackPtr, stackEnd, sects, extCnt, inHandler, selfWait, stacksStopper>>
  BY DEF do_blocking_leave
<1>4. /\ stk'[t] = Front(stk[t]) /\ stk' = [stk EXCEPT ![t] = stk'[t]]
      /\ stackPtr'[t] = stackPtr[t] /\ stackPtr' = [stackPtr EXCEPT ![t] = stackPtr'[t]]
      /\ stackEnd'[t] = stackEnd[t] /\ stackEnd' = [stackEnd EXCEPT ![t] = stackEnd'[t]]
      /\ blocking'[t] = FALSE /\ blocking' = [blocking EXCEPT ![t] = blocking'[t]]
      /\ sects'[t] = sects[t] /\ sects' = [sects EXCEPT ![t] = sects'[t]]
      /\ extCnt'[t] = extCnt[t] /\ extCnt' = [extCnt EXCEPT ![t] = extCnt'[t]]
      /\ inHandler'[t] = inHandler[t] /\ inHandler' = [inHandler EXCEPT ![t] = inHandler'[t]]
  BY <1>3, SInvTypes
<1>5. ThreadOk(t)'
  BY <1>2, <1>4 DEF ThreadOk
<1>6. StopHolds'
  BY <1>1, <1>3, StopLifts
<1>7. /\ selfWait' \in [StackThread -> NotWaiting..MaxSuspend]
      /\ stacksStopper' \in StackThread \cup {NoThread}
  BY <1>3, SInvTypes
<1> QED
  BY <1>4, <1>5, <1>6, <1>7, Lift

LEMMA BlockingLeaveKeeps ==
  ASSUME SInv, NEW t \in StackThread, do_blocking_leave(t)
  PROVE  SInv'
<1>1. CASE Odd(extCnt[t])
  BY <1>1, SelfWaits DEF do_blocking_leave
<1> QED
  BY <1>1, BlockingEnds

\* The bottom of the stack is never hotter than the stack is.
LEMMA EndStays ==
  ASSUME SInv, NEW t \in StackThread
  PROVE  stackEnd = [stackEnd EXCEPT ![t] = IF @ > Sp(t) THEN Sp(t) ELSE @]
<1>0. Ok(t, stk[t], stackPtr[t], stackEnd[t], blocking[t], sects[t], extCnt[t], inHandler[t])
  BY DEF SInv, ThreadOk
<1>1. stackEnd[t] \in 0..1 /\ Len(stk[t]) \in Nat /\ Len(stk[t]) >= 1
  BY <1>0, OkParts, OkTypes
<1> QED
  BY <1>1, SInvTypes DEF Sp

\* GC_call_with_gc_active from inside of GC_do_blocking, and as an ordinary call.
LEMMA ActiveInside ==
  ASSUME SInv, NEW t \in StackThread, GC_call_with_gc_active(t), blocking[t] = TRUE, ~Odd(extCnt[t])
  PROVE  SInv'
<1>0. Ok(t, stk[t], stackPtr[t], stackEnd[t], blocking[t], sects[t], extCnt[t], inHandler[t])
  BY DEF SInv, ThreadOk
<1>1. Len(stk[t]) < MaxFrames[t] /\ stacksStopper = NoThread
  BY DEF GC_call_with_gc_active, Sp, LockFree
<1>2. Ok(t, Append(stk[t], "active"), stackPtr[t], stackEnd[t], FALSE, <<[at |-> Len(stk[t]) + 1, saved |-> stackPtr[t]]>> \o sects[t], extCnt[t], inHandler[t])
  BY <1>0, <1>1, OkActive
<1>3. /\ stk' = [stk EXCEPT ![t] = Append(stk[t], "active")]
      /\ blocking' = [blocking EXCEPT ![t] = FALSE]
      /\ sects' = [sects EXCEPT ![t] = <<[at |-> Len(stk[t]) + 1, saved |-> stackPtr[t]]>> \o sects[t]]
      /\ UNCHANGED <<stackPtr, stackEnd, extCnt, inHandler, selfWait, stacksStopper>>
  BY EndStays DEF GC_call_with_gc_active, Resumed, Sp
<1>4. /\ stk'[t] = Append(stk[t], "active") /\ stk' = [stk EXCEPT ![t] = stk'[t]]
      /\ stackPtr'[t] = stackPtr[t] /\ stackPtr' = [stackPtr EXCEPT ![t] = stackPtr'[t]]
      /\ stackEnd'[t] = stackEnd[t] /\ stackEnd' = [stackEnd EXCEPT ![t] = stackEnd'[t]]
      /\ blocking'[t] = FALSE /\ blocking' = [blocking EXCEPT ![t] = blocking'[t]]
      /\ sects'[t] = <<[at |-> Len(stk[t]) + 1, saved |-> stackPtr[t]]>> \o sects[t]
      /\ sects' = [sects EXCEPT ![t] = sects'[t]]
      /\ extCnt'[t] = extCnt[t] /\ extCnt' = [extCnt EXCEPT ![t] = extCnt'[t]]
      /\ inHandler'[t] = inHandler[t] /\ inHandler' = [inHandler EXCEPT ![t] = inHandler'[t]]
  BY <1>3, SInvTypes
<1>5. ThreadOk(t)'
  BY <1>2, <1>4 DEF ThreadOk
<1>6. StopHolds'
  BY <1>1, <1>3, StopLifts
<1>7. /\ selfWait' \in [StackThread -> NotWaiting..MaxSuspend]
      /\ stacksStopper' \in StackThread \cup {NoThread}
  BY <1>3, SInvTypes
<1> QED
  BY <1>4, <1>5, <1>6, <1>7, Lift

LEMMA ActiveOutside ==
  ASSUME SInv, NEW t \in StackThread, GC_call_with_gc_active(t), blocking[t] = FALSE
  PROVE  SInv'
<1>0. Ok(t, stk[t], stackPtr[t], stackEnd[t], blocking[t], sects[t], extCnt[t], inHandler[t])
  BY DEF SInv, ThreadOk
<1>1. NotHeld(blocking[t], extCnt[t]) /\ Len(stk[t]) < MaxFrames[t] /\ stacksStopper = NoThread
  BY RunsIs DEF GC_call_with_gc_active, Sp, LockFree
<1>b. blocking = [blocking EXCEPT ![t] = FALSE]
  BY SInvTypes
<1>c. /\ stackEnd' = [stackEnd EXCEPT ![t] = IF @ > Sp(t) THEN Sp(t) ELSE @]
      /\ stk' = [stk EXCEPT ![t] = Append(@, IF blocking[t] THEN "active" ELSE "client")]
      /\ blocking' = [blocking EXCEPT ![t] = FALSE]
      /\ UNCHANGED <<sects, selfWait, stackPtr, extCnt, inHandler, stacksStopper>>
  BY DEF GC_call_with_gc_active
<1>2. Ok(t, Append(stk[t], IF blocking[t] THEN "inside" ELSE "client"), stackPtr[t], stackEnd[t], blocking[t], sects[t], extCnt[t], inHandler[t])
  BY <1>0, <1>1, OkCall
<1>3. /\ stk' = [stk EXCEPT ![t] = Append(stk[t], IF blocking[t] THEN "inside" ELSE "client")]
      /\ UNCHANGED <<stackPtr, stackEnd, blocking, sects, extCnt, inHandler, selfWait, stacksStopper>>
  BY EndStays, <1>b, <1>c DEF Sp
<1>4. /\ stk'[t] = Append(stk[t], IF blocking[t] THEN "inside" ELSE "client") /\ stk' = [stk EXCEPT ![t] = stk'[t]]
      /\ stackPtr'[t] = stackPtr[t] /\ stackPtr' = [stackPtr EXCEPT ![t] = stackPtr'[t]]
      /\ stackEnd'[t] = stackEnd[t] /\ stackEnd' = [stackEnd EXCEPT ![t] = stackEnd'[t]]
      /\ blocking'[t] = blocking[t] /\ blocking' = [blocking EXCEPT ![t] = blocking'[t]]
      /\ sects'[t] = sects[t] /\ sects' = [sects EXCEPT ![t] = sects'[t]]
      /\ extCnt'[t] = extCnt[t] /\ extCnt' = [extCnt EXCEPT ![t] = extCnt'[t]]
      /\ inHandler'[t] = inHandler[t] /\ inHandler' = [inHandler EXCEPT ![t] = inHandler'[t]]
  BY <1>3, SInvTypes
<1>5. ThreadOk(t)'
  BY <1>2, <1>4 DEF ThreadOk
<1>6. StopHolds'
  BY <1>1, <1>3, StopLifts
<1>7. /\ selfWait' \in [StackThread -> NotWaiting..MaxSuspend]
      /\ stacksStopper' \in StackThread \cup {NoThread}
  BY <1>3, SInvTypes
<1> QED
  BY <1>4, <1>5, <1>6, <1>7, Lift

LEMMA GcActiveKeeps ==
  ASSUME SInv, NEW t \in StackThread, GC_call_with_gc_active(t)
  PROVE  SInv'
<1>1. CASE blocking[t] = TRUE /\ Odd(extCnt[t])
  <2>1. /\ selfWait' = [selfWait EXCEPT ![t] = extCnt[t]]
        /\ UNCHANGED <<stk, stackPtr, stackEnd, blocking, sects, extCnt, inHandler, stacksStopper>>
    BY <1>1, EndStays DEF GC_call_with_gc_active, Resumed
  <2> QED
    BY <1>1, <2>1, SelfWaits
<1>2. CASE blocking[t] = TRUE /\ ~Odd(extCnt[t])
  BY <1>2, ActiveInside
<1>3. CASE blocking[t] = FALSE
  BY <1>3, ActiveOutside
<1> QED
  BY <1>1, <1>2, <1>3, SInvTypes

\* Its end.
LEMMA LeaveActiveKeeps ==
  ASSUME SInv, NEW t \in StackThread, LeaveGcActive(t)
  PROVE  SInv'
<1>0. Ok(t, stk[t], stackPtr[t], stackEnd[t], blocking[t], sects[t], extCnt[t], inHandler[t])
  BY DEF SInv, ThreadOk
<1>1. ~Odd(extCnt[t]) /\ stk[t][Len(stk[t])] = "active" /\ stacksStopper = NoThread
  <2>1. stk[t][Len(stk[t])] = "active" /\ stacksStopper = NoThread
    BY DEF LeaveGcActive, Hottest, Sp, LockFree
  <2>2. ~blocking[t]
    BY <1>0, <2>1, ActiveIsFirst
  <2> QED
    BY <2>1, <2>2, RunsIs DEF LeaveGcActive
<1>2. Ok(t, Front(stk[t]), Head(sects[t]).saved, stackEnd[t], TRUE, Tail(sects[t]), extCnt[t], inHandler[t])
  BY <1>0, <1>1, OkLeaveActive
<1>3. /\ stk' = [stk EXCEPT ![t] = Front(stk[t])]
      /\ stackPtr' = [stackPtr EXCEPT ![t] = Head(sects[t]).saved]
      /\ blocking' = [blocking EXCEPT ![t] = TRUE]
      /\ sects' = [sects EXCEPT ![t] = Tail(sects[t])]
      /\ UNCHANGED <<stackEnd, extCnt, inHandler, selfWait, stacksStopper>>
  BY DEF LeaveGcActive, SavedPtr, suspension
<1>4. /\ stk'[t] = Front(stk[t]) /\ stk' = [stk EXCEPT ![t] = stk'[t]]
      /\ stackPtr'[t] = Head(sects[t]).saved /\ stackPtr' = [stackPtr EXCEPT ![t] = stackPtr'[t]]
      /\ stackEnd'[t] = stackEnd[t] /\ stackEnd' = [stackEnd EXCEPT ![t] = stackEnd'[t]]
      /\ blocking'[t] = TRUE /\ blocking' = [blocking EXCEPT ![t] = blocking'[t]]
      /\ sects'[t] = Tail(sects[t]) /\ sects' = [sects EXCEPT ![t] = sects'[t]]
      /\ extCnt'[t] = extCnt[t] /\ extCnt' = [extCnt EXCEPT ![t] = extCnt'[t]]
      /\ inHandler'[t] = inHandler[t] /\ inHandler' = [inHandler EXCEPT ![t] = inHandler'[t]]
  BY <1>3, SInvTypes
<1>5. ThreadOk(t)'
  BY <1>2, <1>4 DEF ThreadOk
<1>6. StopHolds'
  BY <1>1, <1>3, StopLifts
<1>7. /\ selfWait' \in [StackThread -> NotWaiting..MaxSuspend]
      /\ stacksStopper' \in StackThread \cup {NoThread}
  BY <1>3, SInvTypes
<1> QED
  BY <1>4, <1>5, <1>6, <1>7, Lift

\* GC_set_stackbottom.
LEMMA SetBottomKeeps ==
  ASSUME SInv, NEW t \in StackThread, NEW d, GC_set_stackbottom(t, d)
  PROVE  SInv'
<1>0. Ok(t, stk[t], stackPtr[t], stackEnd[t], blocking[t], sects[t], extCnt[t], inHandler[t])
  BY DEF SInv, ThreadOk
<1>1. d \in 0..1 /\ stacksStopper = NoThread
  BY DEF GC_set_stackbottom, LockFree
<1>a. /\ extCnt[t] \in 0..MaxSuspend + 1 /\ inHandler[t] \in NotWaiting..MaxSuspend
      /\ Odd(extCnt[t]) => extCnt[t] <= MaxSuspend
      /\ NotHeld(blocking[t], extCnt[t]) \/ (inHandler[t] = extCnt[t] /\ stackPtr[t] = Len(stk[t]))
  <2>1. Holds(stk[t], stackPtr[t], blocking[t], extCnt[t], inHandler[t])
    BY <1>0, OkParts
  <2> QED
    BY <2>1, SInvTypes DEF Holds, NotHeld
<1>2. Ok(t, stk[t], stackPtr[t], d, blocking[t], sects[t], extCnt[t], inHandler[t])
  BY <1>0, <1>1, <1>a, OkCounts
<1>3. /\ stackEnd' = [stackEnd EXCEPT ![t] = d]
      /\ UNCHANGED <<stk, stackPtr, blocking, sects, extCnt, inHandler, selfWait, stacksStopper>>
  BY DEF GC_set_stackbottom, suspension
<1>4. /\ stk'[t] = stk[t] /\ stk' = [stk EXCEPT ![t] = stk'[t]]
      /\ stackPtr'[t] = stackPtr[t] /\ stackPtr' = [stackPtr EXCEPT ![t] = stackPtr'[t]]
      /\ stackEnd'[t] = d /\ stackEnd' = [stackEnd EXCEPT ![t] = stackEnd'[t]]
      /\ blocking'[t] = blocking[t] /\ blocking' = [blocking EXCEPT ![t] = blocking'[t]]
      /\ sects'[t] = sects[t] /\ sects' = [sects EXCEPT ![t] = sects'[t]]
      /\ extCnt'[t] = extCnt[t] /\ extCnt' = [extCnt EXCEPT ![t] = extCnt'[t]]
      /\ inHandler'[t] = inHandler[t] /\ inHandler' = [inHandler EXCEPT ![t] = inHandler'[t]]
  BY <1>3, SInvTypes
<1>5. ThreadOk(t)'
  BY <1>2, <1>4 DEF ThreadOk
<1>6. StopHolds'
  BY <1>1, <1>3, StopLifts
<1>7. /\ selfWait' \in [StackThread -> NotWaiting..MaxSuspend]
      /\ stacksStopper' \in StackThread \cup {NoThread}
  BY <1>3, SInvTypes
<1> QED
  BY <1>4, <1>5, <1>6, <1>7, Lift

\* The handler returns after GC_resume_thread.
LEMMA HandlerEndKeeps ==
  ASSUME SInv, NEW t \in StackThread, GC_suspend_handler_inner(t)
  PROVE  SInv'
<1>0. Ok(t, stk[t], stackPtr[t], stackEnd[t], blocking[t], sects[t], extCnt[t], inHandler[t])
  BY DEF SInv, ThreadOk
<1>a. /\ extCnt[t] \in 0..MaxSuspend + 1 /\ inHandler[t] \in NotWaiting..MaxSuspend
      /\ Odd(extCnt[t]) => extCnt[t] <= MaxSuspend
      /\ Odd(extCnt[t]) /\ ~blocking[t] => inHandler[t] = extCnt[t] /\ stackPtr[t] = Len(stk[t])
      /\ stackEnd[t] \in 0..1 /\ MaxSuspend \in Nat
  <2>1. Holds(stk[t], stackPtr[t], blocking[t], extCnt[t], inHandler[t]) /\ stackEnd[t] \in 0..1
    BY <1>0, OkParts, OkTypes
  <2> QED
    BY <2>1, SInvTypes DEF Holds
<1>1. /\ NotWaiting \in NotWaiting..MaxSuspend
      /\ NotHeld(blocking[t], extCnt[t])
  BY <1>a DEF GC_suspend_handler_inner, NotWaiting, NotHeld
<1>2. Ok(t, stk[t], stackPtr[t], stackEnd[t], blocking[t], sects[t], extCnt[t], NotWaiting)
  BY <1>0, <1>a, <1>1, OkCounts
<1>3. /\ inHandler' = [inHandler EXCEPT ![t] = NotWaiting]
      /\ UNCHANGED <<stk, stackPtr, stackEnd, blocking, sects, extCnt, selfWait, stacksStopper>>
  BY DEF GC_suspend_handler_inner
<1>4. /\ stk'[t] = stk[t] /\ stk' = [stk EXCEPT ![t] = stk'[t]]
      /\ stackPtr'[t] = stackPtr[t] /\ stackPtr' = [stackPtr EXCEPT ![t] = stackPtr'[t]]
      /\ stackEnd'[t] = stackEnd[t] /\ stackEnd' = [stackEnd EXCEPT ![t] = stackEnd'[t]]
      /\ blocking'[t] = blocking[t] /\ blocking' = [blocking EXCEPT ![t] = blocking'[t]]
      /\ sects'[t] = sects[t] /\ sects' = [sects EXCEPT ![t] = sects'[t]]
      /\ extCnt'[t] = extCnt[t] /\ extCnt' = [extCnt EXCEPT ![t] = extCnt'[t]]
      /\ inHandler'[t] = NotWaiting /\ inHandler' = [inHandler EXCEPT ![t] = inHandler'[t]]
  BY <1>3, SInvTypes
<1>5. ThreadOk(t)'
  BY <1>2, <1>4 DEF ThreadOk
<1>6. StopHolds'
  BY <1>3 DEF SInv, StopHolds, Sp
<1>7. /\ selfWait' \in [StackThread -> NotWaiting..MaxSuspend]
      /\ stacksStopper' \in StackThread \cup {NoThread}
  BY <1>3, SInvTypes
<1> QED
  BY <1>4, <1>5, <1>6, <1>7, Lift

LEMMA ResumeKeeps ==
  ASSUME SInv, NEW p, NEW t \in StackThread, GC_resume_thread(p, t)
  PROVE  SInv'
<1>0. Ok(t, stk[t], stackPtr[t], stackEnd[t], blocking[t], sects[t], extCnt[t], inHandler[t])
  BY DEF SInv, ThreadOk
<1>a. /\ extCnt[t] \in 0..MaxSuspend + 1 /\ inHandler[t] \in NotWaiting..MaxSuspend
      /\ Odd(extCnt[t]) => extCnt[t] <= MaxSuspend
      /\ Odd(extCnt[t]) /\ ~blocking[t] => inHandler[t] = extCnt[t] /\ stackPtr[t] = Len(stk[t])
      /\ stackEnd[t] \in 0..1 /\ MaxSuspend \in Nat
  <2>1. Holds(stk[t], stackPtr[t], blocking[t], extCnt[t], inHandler[t]) /\ stackEnd[t] \in 0..1
    BY <1>0, OkParts, OkTypes
  <2> QED
    BY <2>1, SInvTypes DEF Holds
<1>1. /\ extCnt[t] + 1 \in 0..MaxSuspend + 1 /\ ~Odd(extCnt[t] + 1) /\ stacksStopper = NoThread
      /\ NotHeld(blocking[t], extCnt[t] + 1)
  <2>1. Odd(extCnt[t]) /\ stacksStopper = NoThread /\ extCnt[t] \in Nat
    BY <1>a DEF GC_resume_thread, LockFree
  <2>2. ~Odd(extCnt[t] + 1)
    BY <2>1, Parity
  <2>3. extCnt[t] + 1 \in 0..MaxSuspend + 1
    BY <2>1, <1>a
  <2> QED
    BY <2>1, <2>2, <2>3 DEF NotHeld
<1>y. PICK y \in Nat : y = extCnt[t] + 1
  BY <1>a
<1>x. /\ y \in 0..MaxSuspend + 1 /\ inHandler[t] \in NotWaiting..MaxSuspend /\ stackEnd[t] \in 0..1
      /\ ~Odd(y) /\ NotHeld(blocking[t], y)
  BY <1>a, <1>1, <1>y
<1>z. Ok(t, stk[t], stackPtr[t], stackEnd[t], blocking[t], sects[t], y, inHandler[t])
  BY <1>0, <1>x, OkCounts
<1>2. Ok(t, stk[t], stackPtr[t], stackEnd[t], blocking[t], sects[t], extCnt[t] + 1, inHandler[t])
  BY <1>y, <1>z
<1>3. /\ extCnt' = [extCnt EXCEPT ![t] = extCnt[t] + 1]
      /\ UNCHANGED <<stk, stackPtr, stackEnd, blocking, sects, inHandler, selfWait, stacksStopper>>
  BY DEF GC_resume_thread
<1>4. /\ stk'[t] = stk[t] /\ stk' = [stk EXCEPT ![t] = stk'[t]]
      /\ stackPtr'[t] = stackPtr[t] /\ stackPtr' = [stackPtr EXCEPT ![t] = stackPtr'[t]]
      /\ stackEnd'[t] = stackEnd[t] /\ stackEnd' = [stackEnd EXCEPT ![t] = stackEnd'[t]]
      /\ blocking'[t] = blocking[t] /\ blocking' = [blocking EXCEPT ![t] = blocking'[t]]
      /\ sects'[t] = sects[t] /\ sects' = [sects EXCEPT ![t] = sects'[t]]
      /\ extCnt'[t] = extCnt[t] + 1 /\ extCnt' = [extCnt EXCEPT ![t] = extCnt'[t]]
      /\ inHandler'[t] = inHandler[t] /\ inHandler' = [inHandler EXCEPT ![t] = inHandler'[t]]
  BY <1>3, SInvTypes
<1>5. ThreadOk(t)'
  BY <1>2, <1>4 DEF ThreadOk
<1>6. StopHolds'
  BY <1>1, <1>3, StopLifts
<1>7. /\ selfWait' \in [StackThread -> NotWaiting..MaxSuspend]
      /\ stacksStopper' \in StackThread \cup {NoThread}
  BY <1>3, SInvTypes
<1> QED
  BY <1>4, <1>5, <1>6, <1>7, Lift

\* GC_suspend_thread of a thread inside of GC_do_blocking, of oneself, of another.
LEMMA SuspendInside ==
  ASSUME SInv, NEW p \in StackThread, NEW t \in StackThread, GC_suspend_thread(p, t), blocking[t] = TRUE
  PROVE  SInv'
<1>0. Ok(t, stk[t], stackPtr[t], stackEnd[t], blocking[t], sects[t], extCnt[t], inHandler[t])
  BY DEF SInv, ThreadOk
<1>a. /\ extCnt[t] \in 0..MaxSuspend + 1 /\ inHandler[t] \in NotWaiting..MaxSuspend
      /\ Odd(extCnt[t]) => extCnt[t] <= MaxSuspend
      /\ Odd(extCnt[t]) /\ ~blocking[t] => inHandler[t] = extCnt[t] /\ stackPtr[t] = Len(stk[t])
      /\ stackEnd[t] \in 0..1 /\ MaxSuspend \in Nat
  <2>1. Holds(stk[t], stackPtr[t], blocking[t], extCnt[t], inHandler[t]) /\ stackEnd[t] \in 0..1
    BY <1>0, OkParts, OkTypes
  <2> QED
    BY <2>1, SInvTypes DEF Holds
<1>1. /\ stacksStopper = NoThread /\ ~Odd(extCnt[t]) /\ extCnt[t] < MaxSuspend
      /\ extCnt[t] + 1 \in 0..MaxSuspend + 1 /\ extCnt[t] + 1 \in NotWaiting..MaxSuspend
      /\ extCnt[t] + 1 <= MaxSuspend
  BY <1>a DEF GC_suspend_thread, LockFree, NotWaiting
<1>y. PICK y \in Nat : y = extCnt[t] + 1
  BY <1>a
<1>f. NotHeld(blocking[t], y)
  BY DEF NotHeld
<1>x. /\ y \in 0..MaxSuspend + 1 /\ inHandler[t] \in NotWaiting..MaxSuspend /\ stackEnd[t] \in 0..1
      /\ y <= MaxSuspend
  BY <1>a, <1>1, <1>y
<1>z. Ok(t, stk[t], stackPtr[t], stackEnd[t], blocking[t], sects[t], y, inHandler[t])
  BY <1>0, <1>x, <1>f, OkCounts
<1>2. Ok(t, stk[t], stackPtr[t], stackEnd[t], blocking[t], sects[t], extCnt[t] + 1, inHandler[t])
  BY <1>y, <1>z
<1>3. /\ extCnt' = [extCnt EXCEPT ![t] = extCnt[t] + 1]
      /\ UNCHANGED <<stk, stackPtr, stackEnd, blocking, sects, inHandler, selfWait, stacksStopper>>
  BY DEF GC_suspend_thread
<1>4. /\ stk'[t] = stk[t] /\ stk' = [stk EXCEPT ![t] = stk'[t]]
      /\ stackPtr'[t] = stackPtr[t] /\ stackPtr' = [stackPtr EXCEPT ![t] = stackPtr'[t]]
      /\ stackEnd'[t] = stackEnd[t] /\ stackEnd' = [stackEnd EXCEPT ![t] = stackEnd'[t]]
      /\ blocking'[t] = blocking[t] /\ blocking' = [blocking EXCEPT ![t] = blocking'[t]]
      /\ sects'[t] = sects[t] /\ sects' = [sects EXCEPT ![t] = sects'[t]]
      /\ extCnt'[t] = extCnt[t] + 1 /\ extCnt' = [extCnt EXCEPT ![t] = extCnt'[t]]
      /\ inHandler'[t] = inHandler[t] /\ inHandler' = [inHandler EXCEPT ![t] = inHandler'[t]]
  BY <1>3, SInvTypes
<1>5. ThreadOk(t)'
  BY <1>2, <1>4 DEF ThreadOk
<1>6. StopHolds'
  BY <1>1, <1>3, StopLifts
<1>7. /\ selfWait' \in [StackThread -> NotWaiting..MaxSuspend]
      /\ stacksStopper' \in StackThread \cup {NoThread}
  BY <1>3, SInvTypes
<1> QED
  BY <1>4, <1>5, <1>6, <1>7, Lift

LEMMA SuspendOneself ==
  ASSUME SInv, NEW p \in StackThread, NEW t \in StackThread, GC_suspend_thread(p, t), blocking[t] = FALSE, p = t
  PROVE  SInv'
<1>0. Ok(t, stk[t], stackPtr[t], stackEnd[t], blocking[t], sects[t], extCnt[t], inHandler[t])
  BY DEF SInv, ThreadOk
<1>a. /\ extCnt[t] \in 0..MaxSuspend + 1 /\ inHandler[t] \in NotWaiting..MaxSuspend
      /\ Odd(extCnt[t]) => extCnt[t] <= MaxSuspend
      /\ Odd(extCnt[t]) /\ ~blocking[t] => inHandler[t] = extCnt[t] /\ stackPtr[t] = Len(stk[t])
      /\ stackEnd[t] \in 0..1 /\ MaxSuspend \in Nat
  <2>1. Holds(stk[t], stackPtr[t], blocking[t], extCnt[t], inHandler[t]) /\ stackEnd[t] \in 0..1
    BY <1>0, OkParts, OkTypes
  <2> QED
    BY <2>1, SInvTypes DEF Holds
<1>1. /\ stacksStopper = NoThread /\ ~Odd(extCnt[t]) /\ extCnt[t] < MaxSuspend
      /\ extCnt[t] + 1 \in 0..MaxSuspend + 1 /\ extCnt[t] + 1 \in NotWaiting..MaxSuspend
      /\ extCnt[t] + 1 <= MaxSuspend
  BY <1>a DEF GC_suspend_thread, LockFree, NotWaiting
<1>b. Len(stk[t]) < MaxFrames[t]
  BY DEF GC_suspend_thread, Sp
<1>2. Ok(t, Append(stk[t], "blocking"), Len(stk[t]) + 1, stackEnd[t], TRUE,
         sects[t], extCnt[t] + 1, inHandler[t])
  BY <1>0, <1>1, <1>b, OkEnter
<1>3. /\ stk' = [stk EXCEPT ![t] = Append(stk[t], "blocking")]
      /\ stackPtr' = [stackPtr EXCEPT ![t] = Len(stk[t]) + 1]
      /\ blocking' = [blocking EXCEPT ![t] = TRUE]
      /\ extCnt' = [extCnt EXCEPT ![t] = extCnt[t] + 1]
      /\ UNCHANGED <<stackEnd, sects, inHandler, selfWait, stacksStopper>>
  BY DEF GC_suspend_thread, do_blocking_enter, SaveSp, Sp
<1>4. /\ stk'[t] = Append(stk[t], "blocking") /\ stk' = [stk EXCEPT ![t] = stk'[t]]
      /\ stackPtr'[t] = Len(stk[t]) + 1 /\ stackPtr' = [stackPtr EXCEPT ![t] = stackPtr'[t]]
      /\ stackEnd'[t] = stackEnd[t] /\ stackEnd' = [stackEnd EXCEPT ![t] = stackEnd'[t]]
      /\ blocking'[t] = TRUE /\ blocking' = [blocking EXCEPT ![t] = blocking'[t]]
      /\ sects'[t] = sects[t] /\ sects' = [sects EXCEPT ![t] = sects'[t]]
      /\ extCnt'[t] = extCnt[t] + 1 /\ extCnt' = [extCnt EXCEPT ![t] = extCnt'[t]]
      /\ inHandler'[t] = inHandler[t] /\ inHandler' = [inHandler EXCEPT ![t] = inHandler'[t]]
  BY <1>3, SInvTypes
<1>5. ThreadOk(t)'
  BY <1>2, <1>4 DEF ThreadOk
<1>6. StopHolds'
  BY <1>1, <1>3, StopLifts
<1>7. /\ selfWait' \in [StackThread -> NotWaiting..MaxSuspend]
      /\ stacksStopper' \in StackThread \cup {NoThread}
  BY <1>3, SInvTypes
<1> QED
  BY <1>4, <1>5, <1>6, <1>7, Lift

LEMMA SuspendOther ==
  ASSUME SInv, NEW p \in StackThread, NEW t \in StackThread, GC_suspend_thread(p, t), blocking[t] = FALSE, p # t
  PROVE  SInv'
<1>0. Ok(t, stk[t], stackPtr[t], stackEnd[t], blocking[t], sects[t], extCnt[t], inHandler[t])
  BY DEF SInv, ThreadOk
<1>a. /\ extCnt[t] \in 0..MaxSuspend + 1 /\ inHandler[t] \in NotWaiting..MaxSuspend
      /\ Odd(extCnt[t]) => extCnt[t] <= MaxSuspend
      /\ Odd(extCnt[t]) /\ ~blocking[t] => inHandler[t] = extCnt[t] /\ stackPtr[t] = Len(stk[t])
      /\ stackEnd[t] \in 0..1 /\ MaxSuspend \in Nat
  <2>1. Holds(stk[t], stackPtr[t], blocking[t], extCnt[t], inHandler[t]) /\ stackEnd[t] \in 0..1
    BY <1>0, OkParts, OkTypes
  <2> QED
    BY <2>1, SInvTypes DEF Holds
<1>1. /\ stacksStopper = NoThread /\ ~Odd(extCnt[t]) /\ extCnt[t] < MaxSuspend
      /\ extCnt[t] + 1 \in 0..MaxSuspend + 1 /\ extCnt[t] + 1 \in NotWaiting..MaxSuspend
      /\ extCnt[t] + 1 <= MaxSuspend
  BY <1>a DEF GC_suspend_thread, LockFree, NotWaiting
<1>b. stackPtr' = [stackPtr EXCEPT ![t] = Len(stk[t])]
  BY SInvTypes DEF GC_suspend_thread, GC_store_stack_ptr, Sp
<1>y. PICK y \in Nat : y = extCnt[t] + 1
  BY <1>a
<1>x. y \in 0..MaxSuspend + 1 /\ y \in NotWaiting..MaxSuspend /\ y <= MaxSuspend /\ blocking[t] = FALSE
  BY <1>a, <1>1, <1>y
<1>z. Ok(t, stk[t], Len(stk[t]), stackEnd[t], blocking[t], sects[t], y, y)
  BY <1>0, <1>x, OkStored
<1>2. Ok(t, stk[t], Len(stk[t]), stackEnd[t], blocking[t], sects[t], extCnt[t] + 1, extCnt[t] + 1)
  BY <1>y, <1>z
<1>3. /\ stackPtr' = [stackPtr EXCEPT ![t] = Len(stk[t])]
      /\ extCnt' = [extCnt EXCEPT ![t] = extCnt[t] + 1]
      /\ inHandler' = [inHandler EXCEPT ![t] = extCnt[t] + 1]
      /\ UNCHANGED <<stk, stackEnd, blocking, sects, selfWait, stacksStopper>>
  BY <1>b DEF GC_suspend_thread
<1>4. /\ stk'[t] = stk[t] /\ stk' = [stk EXCEPT ![t] = stk'[t]]
      /\ stackPtr'[t] = Len(stk[t]) /\ stackPtr' = [stackPtr EXCEPT ![t] = stackPtr'[t]]
      /\ stackEnd'[t] = stackEnd[t] /\ stackEnd' = [stackEnd EXCEPT ![t] = stackEnd'[t]]
      /\ blocking'[t] = blocking[t] /\ blocking' = [blocking EXCEPT ![t] = blocking'[t]]
      /\ sects'[t] = sects[t] /\ sects' = [sects EXCEPT ![t] = sects'[t]]
      /\ extCnt'[t] = extCnt[t] + 1 /\ extCnt' = [extCnt EXCEPT ![t] = extCnt'[t]]
      /\ inHandler'[t] = extCnt[t] + 1 /\ inHandler' = [inHandler EXCEPT ![t] = inHandler'[t]]
  BY <1>3, SInvTypes
<1>5. ThreadOk(t)'
  BY <1>2, <1>4 DEF ThreadOk
<1>6. StopHolds'
  BY <1>1, <1>3, StopLifts
<1>7. /\ selfWait' \in [StackThread -> NotWaiting..MaxSuspend]
      /\ stacksStopper' \in StackThread \cup {NoThread}
  BY <1>3, SInvTypes
<1> QED
  BY <1>4, <1>5, <1>6, <1>7, Lift

LEMMA SuspendKeeps ==
  ASSUME SInv, NEW p \in StackThread, NEW t \in StackThread, GC_suspend_thread(p, t)
  PROVE  SInv'
<1>1. blocking[t] = TRUE \/ blocking[t] = FALSE
  BY SInvTypes
<1> QED
  BY <1>1, SuspendInside, SuspendOneself, SuspendOther

\* The world is stopped: the handlers store the stack pointers of the threads that are not
\* inside of GC_do_blocking; those in the handler of GC_suspend_thread have stored theirs.
LEMMA StopKeeps ==
  ASSUME SInv, NEW s \in StackThread, StopStacks(s)
  PROVE  SInv'
<1>1. /\ stacksStopper' = s /\ ~blocking[s]
      /\ UNCHANGED <<stk, stackEnd, blocking, sects, extCnt, inHandler, selfWait>>
      /\ stackPtr' = [t \in StackThread |->
           IF t # s /\ ~blocking[t] /\ ~Odd(extCnt[t]) THEN Len(stk[t]) ELSE stackPtr[t]]
  BY DEF StopStacks, GC_store_stack_ptr, Sp
<1>2. ASSUME NEW t \in StackThread
      PROVE  /\ ThreadOk(t)' /\ stackPtr'[t] \in Nat
             /\ Len(stk'[t]) \in 1..MaxFrames[t] /\ stackPtr'[t] \in 1..MaxFrames[t]
             /\ t # s /\ ~blocking'[t] => stackPtr'[t] = Len(stk'[t])
  <2>0. Ok(t, stk[t], stackPtr[t], stackEnd[t], blocking[t], sects[t], extCnt[t], inHandler[t])
    BY DEF SInv, ThreadOk
  <2>1. CASE t # s /\ ~blocking[t] /\ ~Odd(extCnt[t])
    <3>1. stackPtr'[t] = Len(stk[t])
      BY <1>1, <2>1
    <3>2. blocking[t] = FALSE /\ extCnt[t] \in 0..MaxSuspend + 1 /\ inHandler[t] \in NotWaiting..MaxSuspend
      BY <2>1, SInvTypes
    <3>3. Ok(t, stk[t], Len(stk[t]), stackEnd[t], blocking[t], sects[t], extCnt[t], inHandler[t])
      BY <2>0, <2>1, <3>2, OkStored
    <3>4. Len(stk[t]) \in 1..MaxFrames[t] /\ Len(stk[t]) \in Nat
      BY <2>0, OkTypes, OkParts
    <3> QED
      BY <3>1, <3>3, <3>4, <1>1 DEF ThreadOk
  <2>2. CASE ~(t # s /\ ~blocking[t] /\ ~Odd(extCnt[t]))
    <3>1. stackPtr'[t] = stackPtr[t]
      BY <1>1, <2>2
    <3>2. Odd(extCnt[t]) /\ ~blocking[t] => stackPtr[t] = Len(stk[t])
      BY <2>0, OkParts DEF Holds
    <3>3. Len(stk[t]) \in 1..MaxFrames[t] /\ stackPtr[t] \in 1..MaxFrames[t] /\ stackPtr[t] \in Nat
      BY <2>0, OkTypes
    <3> QED
      BY <3>1, <3>2, <3>3, <2>0, <2>2, <1>1 DEF ThreadOk
  <2> QED
    BY <2>1, <2>2
<1>3. stackPtr' \in [StackThread -> Nat]
  BY <1>1, <1>2
<1>4. StacksTypeOK'
  BY <1>1, <1>2, <1>3 DEF SInv, StacksTypeOK, Sp
<1>5. StopHolds'
  BY <1>1, <1>2 DEF StopHolds, Sp
<1> QED
  BY <1>2, <1>4, <1>5 DEF SInv

LEMMA StartKeeps ==
  ASSUME SInv, StartStacks
  PROVE  SInv'
BY DEF SInv, StartStacks, StacksTypeOK, StopHolds, ThreadOk, Sp

\* Every step keeps the invariant, which holds at the start.
LEMMA StacksStep ==
  SInv /\ [StacksNext]_stacksVars => SInv'
<1> SUFFICES ASSUME SInv, [StacksNext]_stacksVars PROVE SInv'
  OBVIOUS
<1>1. CASE UNCHANGED stacksVars
  BY <1>1 DEF stacksVars, SInv, StacksTypeOK, StopHolds, ThreadOk, Sp
<1>2. ASSUME NEW t \in StackThread, Call(t) PROVE SInv'
  BY <1>2, CallKeeps
<1>3. ASSUME NEW t \in StackThread, Return(t) PROVE SInv'
  BY <1>3, ReturnKeeps
<1>4. ASSUME NEW t \in StackThread, GC_do_blocking(t) PROVE SInv'
  BY <1>4, DoBlockingKeeps
<1>5. ASSUME NEW t \in StackThread, do_blocking_leave(t) PROVE SInv'
  BY <1>5, BlockingLeaveKeeps
<1>6. ASSUME NEW t \in StackThread, GC_suspend_self_inner(t) PROVE SInv'
  BY <1>6, SuspendSelfKeeps
<1>7. ASSUME NEW t \in StackThread, GC_call_with_gc_active(t) PROVE SInv'
  BY <1>7, GcActiveKeeps
<1>8. ASSUME NEW t \in StackThread, LeaveGcActive(t) PROVE SInv'
  BY <1>8, LeaveActiveKeeps
<1>9. ASSUME NEW t \in StackThread, NEW b \in 0..1, GC_set_stackbottom(t, b) PROVE SInv'
  BY <1>9, SetBottomKeeps
<1>10. ASSUME NEW t \in StackThread, StopStacks(t) PROVE SInv'
  BY <1>10, StopKeeps
<1>11. ASSUME StartStacks PROVE SInv'
  BY <1>11, StartKeeps
<1>12. ASSUME NEW t \in StackThread, GC_suspend_handler_inner(t) PROVE SInv'
  BY <1>12, HandlerEndKeeps
<1>13. ASSUME NEW p \in StackThread, NEW t \in StackThread, GC_suspend_thread(p, t) PROVE SInv'
  BY <1>13, SuspendKeeps
<1>14. ASSUME NEW p \in StackThread, NEW t \in StackThread, GC_resume_thread(p, t) PROVE SInv'
  BY <1>14, ResumeKeeps
<1> QED
  BY <1>1, <1>2, <1>3, <1>4, <1>5, <1>6, <1>7, <1>8, <1>9, <1>10, <1>11, <1>12, <1>13, <1>14 DEF StacksNext

LEMMA StacksStart ==
  StacksInit => SInv
<1> SUFFICES ASSUME StacksInit PROVE SInv
  OBVIOUS
<1>1. /\ stk = [t \in StackThread |-> <<"client">>] /\ stackPtr = [t \in StackThread |-> 1]
      /\ stackEnd = [t \in StackThread |-> 0] /\ blocking = [t \in StackThread |-> FALSE]
      /\ sects = [t \in StackThread |-> <<>>] /\ extCnt = [t \in StackThread |-> 0]
      /\ inHandler = [t \in StackThread |-> NotWaiting]
      /\ selfWait = [t \in StackThread |-> NotWaiting]
      /\ stacksStopper = NoThread /\ MaxSuspend \in Nat
  BY StacksAssumption DEF StacksInit
<1>2. /\ <<"client">> \in Seq(FrameKinds) /\ Len(<<"client">>) = 1 /\ <<"client">>[1] = "client"
      /\ <<>> \in Seq([at : Nat, saved : Nat]) /\ Len(<<>>) = 0
  BY DEF FrameKinds
<1>3. ASSUME NEW t \in StackThread
      PROVE  /\ ThreadOk(t) /\ Len(stk[t]) \in 1..MaxFrames[t] /\ stackPtr[t] \in 1..MaxFrames[t]
  <2>1. 1 \in 1..MaxFrames[t] /\ ~Odd(0) /\ 0 \in 0..MaxSuspend + 1 /\ NotWaiting \in NotWaiting..MaxSuspend
    BY StacksAssumption DEF Odd, NotWaiting
  <2>2. Typed(t, <<"client">>, 1, 0, FALSE, <<>>, 0, NotWaiting)
    BY <1>2, <2>1 DEF Typed, Sect
  <2>3. Ordered(<<"client">>, 1, FALSE, <<>>)
    BY <1>2 DEF Ordered
  <2>4. Told(<<"client">>, 1, FALSE, <<>>)
    BY <1>2 DEF Told
  <2>5. Plausible(<<"client">>, 1, FALSE, <<>>)
    BY DEF Plausible
  <2>6. Holds(<<"client">>, 1, FALSE, 0, NotWaiting)
    BY <2>1 DEF Holds
  <2>7. Ok(t, <<"client">>, 1, 0, FALSE, <<>>, 0, NotWaiting)
    BY <2>2, <2>3, <2>4, <2>5, <2>6 DEF Ok
  <2>8. /\ stk[t] = <<"client">> /\ stackPtr[t] = 1 /\ stackEnd[t] = 0 /\ blocking[t] = FALSE
        /\ sects[t] = <<>> /\ extCnt[t] = 0 /\ inHandler[t] = NotWaiting
    BY <1>1
  <2> QED
    BY <2>7, <2>8, <2>1, <1>2 DEF ThreadOk
<1>4. StacksTypeOK
  <2>1. 0 \in 0..MaxSuspend + 1 /\ NotWaiting \in NotWaiting..MaxSuspend
    BY <1>1 DEF NotWaiting
  <2> QED
    BY <2>1, <1>1, <1>2, <1>3 DEF StacksTypeOK, Sp
<1> QED
  BY <1>1, <1>3, <1>4 DEF SInv, StopHolds
-----------------------------------------------------------------------------
(* What is pushed. *)

\* The hot end of a stack: of what a thread inside of GC_do_blocking has left
\* to scan, or of the stack.
Top(s, p, b) == IF b THEN p ELSE Len(s)

LEMMA TopIs ==
  ASSUME NEW t \in StackThread, NEW s, NEW p, NEW e, NEW b, NEW ss, NEW x, NEW h,
         Ok(t, s, p, e, b, ss, x, h)
  PROVE  /\ Top(s, p, b) \in Nat /\ 1 <= Top(s, p, b) /\ Top(s, p, b) <= Len(s)
         /\ \A k \in 1..Len(ss) : ss[k].at <= Top(s, p, b)
         /\ \A j \in 1..Len(s) : b /\ p < j <=> Top(s, p, b) < j
<1>o. Ordered(s, p, b, ss) /\ Plausible(s, p, b, ss)
  BY OkParts
<1>n. /\ Len(s) \in Nat /\ Len(s) >= 1 /\ p \in Nat /\ p >= 1 /\ b \in BOOLEAN
      /\ \A k \in 1..Len(ss) : ss[k].at \in Nat /\ ss[k].saved \in Nat
  BY OkParts
<1>1. CASE b
  <2>1. Top(s, p, b) = p /\ 2 <= p /\ p <= Len(s)
    BY <1>1, <1>o DEF Top, Plausible
  <2>2. \A k \in 1..Len(ss) : ss[k].at < p
    BY <1>1, <1>o DEF Ordered
  <2> QED
    BY <2>1, <2>2, <1>n, <1>1
<1>2. CASE ~b
  <2>1. Top(s, p, b) = Len(s)
    BY <1>2 DEF Top
  <2>2. \A k \in 1..Len(ss) : ss[k].at <= Len(s)
    BY OkParts
  <2> QED
    BY <2>1, <2>2, <1>n, <1>2
<1> QED
  BY <1>1, <1>2

\* A frame is in a range exactly if it is in the k-th one, for some k.
LEMMA InRanges ==
  ASSUME NEW lo, NEW e, NEW ss, NEW j, Len(ss) \in Nat
  PROVE  j \in Frames(GC_push_all_stack_sections(lo, e, ss)) <=>
           \/ \E k \in 1..Len(ss) : j \in (ss[k].at - 1 + 1)..HotEnd(lo, ss, k)
           \/ j \in (e + 1)..HotEnd(lo, ss, Len(ss) + 1)
<1> DEFINE R == GC_push_all_stack_sections(lo, e, ss)
<1>1. j \in Frames(R) <=> \E r \in R : j \in (r[1] + 1)..r[2]
  BY DEF Frames
<1>2. ASSUME NEW r \in R, j \in (r[1] + 1)..r[2]
      PROVE  \/ \E k \in 1..Len(ss) : j \in (ss[k].at - 1 + 1)..HotEnd(lo, ss, k)
             \/ j \in (e + 1)..HotEnd(lo, ss, Len(ss) + 1)
  <2>1. CASE r = <<e, HotEnd(lo, ss, Len(ss) + 1)>>
    BY <2>1, <1>2
  <2>2. CASE \E k \in 1..Len(ss) : r = <<ss[k].at - 1, HotEnd(lo, ss, k)>>
    BY <2>2, <1>2
  <2> QED
    BY <2>1, <2>2 DEF GC_push_all_stack_sections
<1>3. ASSUME NEW k \in 1..Len(ss), j \in (ss[k].at - 1 + 1)..HotEnd(lo, ss, k)
      PROVE  \E r \in R : j \in (r[1] + 1)..r[2]
  <2>1. <<ss[k].at - 1, HotEnd(lo, ss, k)>> \in R
    BY DEF GC_push_all_stack_sections
  <2> HIDE DEF R
  <2> QED
    BY <2>1, <1>3
<1>4. ASSUME j \in (e + 1)..HotEnd(lo, ss, Len(ss) + 1)
      PROVE  \E r \in R : j \in (r[1] + 1)..r[2]
  <2>1. <<e, HotEnd(lo, ss, Len(ss) + 1)>> \in R
    BY DEF GC_push_all_stack_sections
  <2> HIDE DEF R
  <2> QED
    BY <2>1, <1>4
<1> HIDE DEF R
<1>5. (\E r \in R : j \in (r[1] + 1)..r[2]) <=>
           \/ \E k \in 1..Len(ss) : j \in (ss[k].at - 1 + 1)..HotEnd(lo, ss, k)
           \/ j \in (e + 1)..HotEnd(lo, ss, Len(ss) + 1)
  BY <1>2, <1>3, <1>4
<1> QED
  BY <1>1, <1>5 DEF R

\* The ranges from the hot end hold the frames that are not inside of
\* GC_do_blocking, each and no other.
LEMMA RangesExact ==
  ASSUME NEW t \in StackThread, NEW s, NEW p, NEW e, NEW b, NEW ss, NEW x, NEW h,
         Ok(t, s, p, e, b, ss, x, h)
  PROVE  Frames(GC_push_all_stack_sections(Top(s, p, b), e, ss))
           = {j \in 1..Len(s) : j > e /\ s[j] # "inside"}
<1> DEFINE lo == Top(s, p, b)
           m == Len(ss)
<1>n. /\ Len(s) \in Nat /\ Len(s) >= 1 /\ m \in Nat /\ e \in 0..1
      /\ \A k \in 1..m : ss[k].at \in Nat /\ ss[k].saved \in Nat
  BY OkParts, OkTypes
<1>s. /\ \A k \in 1..m : 2 <= ss[k].saved /\ ss[k].saved < ss[k].at /\ ss[k].at <= Len(s)
      /\ \A k, l \in 1..m : k < l => ss[l].at < ss[k].saved
  BY OkParts
<1>t. /\ lo \in Nat /\ 1 <= lo /\ lo <= Len(s)
      /\ \A k \in 1..m : ss[k].at <= lo
      /\ \A j \in 1..Len(s) : b /\ p < j <=> lo < j
  BY TopIs
<1>i. \A j \in 1..Len(s) :
        s[j] = "inside" <=> \/ lo < j
                            \/ \E k \in 1..m : ss[k].saved < j /\ j < ss[k].at
  BY <1>t, OkParts DEF Told
<1> HIDE DEF lo, m
<1>h. HotEnd(lo, ss, 1) = lo
  BY DEF HotEnd
<1>p. \A k \in 1..m + 1 : k = 1 \/ (k - 1 \in 1..m /\ HotEnd(lo, ss, k) = ss[k - 1].saved)
  BY <1>n DEF HotEnd
\* a frame up to the k-th hot end is not inside of a hotter section's gap
<1>1. ASSUME NEW k \in 1..m + 1, NEW j \in Nat, j <= HotEnd(lo, ss, k)
      PROVE  /\ j <= lo
             /\ \A i \in 1..m : i < k => ~(ss[i].saved < j)
  <2>1. CASE k = 1
    BY <2>1, <1>1, <1>h, <1>n, <1>t
  <2>2. CASE k # 1
    <3>1. k - 1 \in 1..m /\ j <= ss[k - 1].saved
      BY <2>2, <1>1, <1>p
    <3>2. ss[k - 1].saved < ss[k - 1].at /\ ss[k - 1].at <= lo
      BY <3>1, <1>s, <1>t
    <3>3. ASSUME NEW i \in 1..m, i < k PROVE ~(ss[i].saved < j)
      <4>1. CASE i = k - 1
        BY <4>1, <3>1, <1>n
      <4>2. CASE i < k - 1
        <5>1. ss[k - 1].at < ss[i].saved
          BY <4>2, <3>1, <1>s
        <5>2. ss[k - 1].at \in Nat /\ ss[k - 1].saved \in Nat /\ ss[i].saved \in Nat
          BY <3>1, <1>n
        <5> QED
          BY <5>1, <5>2, <3>1, <3>2
      <4>3. i = k - 1 \/ i < k - 1
        BY <3>3, <1>n
      <4> QED
        BY <4>1, <4>2, <4>3
    <3>4. j <= lo
      BY <3>1, <3>2, <1>n, <1>t
    <3> QED
      BY <3>3, <3>4
  <2> QED
    BY <2>1, <2>2
\* every range holds only frames to be scanned
<1>2. ASSUME NEW k \in 1..m, NEW j, j \in (ss[k].at - 1 + 1)..HotEnd(lo, ss, k)
      PROVE  j \in 1..Len(s) /\ j > e /\ s[j] # "inside"
  <2>0. k \in 1..m + 1 /\ HotEnd(lo, ss, k) \in Nat
    BY <1>p, <1>h, <1>n, <1>t
  <2>1. /\ HotEnd(lo, ss, k) \in Nat /\ k \in 1..m + 1
        /\ ss[k].at \in Nat /\ ss[k].saved \in Nat /\ 3 <= ss[k].at
    <3>1. 2 <= ss[k].saved /\ ss[k].saved < ss[k].at /\ ss[k].at \in Nat /\ ss[k].saved \in Nat
      BY <1>s, <1>n
    <3> QED
      BY <2>0, <3>1
  <2>2. j \in Nat /\ j >= ss[k].at /\ j <= HotEnd(lo, ss, k)
    BY <1>2, <2>1
  <2>3. j <= lo /\ \A i \in 1..m : i < k => ~(ss[i].saved < j)
    BY <1>1, <2>1, <2>2
  <2>4. ASSUME NEW i \in 1..m, ~(i < k) PROVE ~(j < ss[i].at)
    <3>1. CASE i = k
      BY <3>1, <2>1, <2>2
    <3>2. CASE k < i
      <4>1. ss[i].at < ss[k].saved /\ ss[k].saved < ss[k].at
        BY <3>2, <1>s
      <4>2. ss[i].at \in Nat
        BY <1>n
      <4> QED
        BY <4>1, <4>2, <2>1, <2>2
    <3>3. i = k \/ k < i
      BY <2>4, <1>n
    <3> QED
      BY <3>1, <3>2, <3>3
  <2>5. j \in 1..Len(s) /\ j > e /\ ~(lo < j)
    <3>1. j >= 3 /\ j <= lo /\ lo \in Nat /\ lo <= Len(s) /\ Len(s) \in Nat /\ e \in 0..1
      BY <2>1, <2>2, <2>3, <1>t, <1>n
    <3> QED
      BY <3>1, <2>2
  <2> QED
    BY <2>3, <2>4, <2>5, <1>i
<1>3. ASSUME NEW j, j \in (e + 1)..HotEnd(lo, ss, m + 1)
      PROVE  j \in 1..Len(s) /\ j > e /\ s[j] # "inside"
  <2>1. HotEnd(lo, ss, m + 1) \in Nat /\ m + 1 \in 1..m + 1
    BY <1>p, <1>h, <1>n, <1>t
  <2>2. j \in Nat /\ j > e /\ j >= 1 /\ j <= HotEnd(lo, ss, m + 1)
    BY <1>3, <2>1, <1>n
  <2>3. j <= lo /\ \A i \in 1..m : i < m + 1 => ~(ss[i].saved < j)
    BY <1>1, <2>1, <2>2
  <2>4. \A i \in 1..m : i < m + 1
    BY <1>n
  <2>5. j \in 1..Len(s) /\ ~(lo < j)
    BY <2>2, <2>3, <1>t, <1>n
  <2> QED
    BY <2>2, <2>3, <2>4, <2>5, <1>i
\* and every such frame is in a range
<1>4. ASSUME NEW j \in 1..Len(s), j > e, s[j] # "inside"
      PROVE  \/ \E k \in 1..m : j \in (ss[k].at - 1 + 1)..HotEnd(lo, ss, k)
             \/ j \in (e + 1)..HotEnd(lo, ss, m + 1)
  <2> DEFINE S == {k \in 1..m + 1 : k = m + 1 \/ ss[k].at <= j}
  <2>1. S \in SUBSET Nat /\ m + 1 \in S
    BY <1>n
  <2>2. PICK k \in S : \A n \in S : k <= n
    BY <2>1, LeastExists
  <2>3. k \in 1..m + 1 /\ (k = m + 1 \/ ss[k].at <= j)
    BY <2>2
  <2>4. j <= HotEnd(lo, ss, k)
    <3>1. CASE k = 1
      BY <3>1, <1>h, <1>4, <1>i, <1>t, <1>n
    <3>2. CASE k # 1
      <4>1. k - 1 \in 1..m /\ HotEnd(lo, ss, k) = ss[k - 1].saved /\ k - 1 \in 1..m + 1
        BY <2>3, <3>2, <1>p, <1>n
      <4>2. k - 1 \notin S
        BY <2>2, <2>3, <1>n
      <4>3. ~(ss[k - 1].at <= j)
        BY <4>1, <4>2
      <4>4. ~(ss[k - 1].saved < j /\ j < ss[k - 1].at)
        BY <4>1, <1>4, <1>i
      <4>5. ss[k - 1].at \in Nat /\ ss[k - 1].saved \in Nat
        BY <4>1, <1>n
      <4> QED
        BY <4>1, <4>3, <4>4, <4>5
    <3> QED
      BY <3>1, <3>2
  <2>5. HotEnd(lo, ss, k) \in Nat
    BY <2>3, <1>p, <1>h, <1>n, <1>t
  <2>6. CASE k = m + 1
    <3>1. j \in (e + 1)..HotEnd(lo, ss, m + 1)
      BY <2>4, <2>5, <2>6, <1>4, <1>n
    <3> QED
      BY <3>1
  <2>7. CASE k # m + 1
    <3>1. k \in 1..m /\ ss[k].at <= j
      BY <2>3, <2>7, <1>n
    <3>2. j \in (ss[k].at - 1 + 1)..HotEnd(lo, ss, k)
      BY <3>1, <2>4, <2>5, <1>n
    <3> QED
      BY <3>1, <3>2
  <2> QED
    BY <2>6, <2>7
<1>5. ASSUME NEW j
      PROVE  j \in Frames(GC_push_all_stack_sections(lo, e, ss))
               <=> j \in 1..Len(s) /\ j > e /\ s[j] # "inside"
  <2>1. j \in Frames(GC_push_all_stack_sections(lo, e, ss)) <=>
           \/ \E k \in 1..m : j \in (ss[k].at - 1 + 1)..HotEnd(lo, ss, k)
           \/ j \in (e + 1)..HotEnd(lo, ss, m + 1)
    BY <1>n, InRanges DEF m
  <2> QED
    BY <2>1, <1>2, <1>3, <1>4
<1> QED
  BY <1>5 DEF lo

\* The invariant in the words of the model.
LEMMA NestedIs ==
  SInv => StacksNested
<1> SUFFICES ASSUME SInv, NEW t \in StackThread
    PROVE  SectsOrdered(t) /\ FramesTold(t) /\ PtrPlausible(t) /\ HandlerHolds(t)
  BY DEF StacksNested, SInv
<1>0. Ok(t, stk[t], stackPtr[t], stackEnd[t], blocking[t], sects[t], extCnt[t], inHandler[t])
  BY DEF SInv, ThreadOk
<1>1. /\ Ordered(stk[t], stackPtr[t], blocking[t], sects[t])
      /\ Told(stk[t], stackPtr[t], blocking[t], sects[t])
      /\ Plausible(stk[t], stackPtr[t], blocking[t], sects[t])
      /\ Holds(stk[t], stackPtr[t], blocking[t], extCnt[t], inHandler[t])
      /\ stackEnd[t] \in 0..1
  BY <1>0, OkParts, OkTypes
<1>2. SectsOrdered(t)
  BY <1>1 DEF SectsOrdered, Ordered, Sp
<1>3. FramesTold(t)
  BY <1>1 DEF FramesTold, Told, Sp
<1>4. PtrPlausible(t)
  BY <1>1 DEF PtrPlausible, Plausible, Sp
<1>5. HandlerHolds(t)
  BY <1>1 DEF HandlerHolds, Holds, Sp
<1> QED
  BY <1>2, <1>3, <1>4, <1>5

\* At a stop the sections are pushed from the hot end, and none is skipped.
LEMMA CoveredIs ==
  SInv => StacksCovered
<1> SUFFICES ASSUME SInv, stacksStopper # NoThread, NEW t \in StackThread
    PROVE  PushedFrames(stacksStopper, t) = Holding(t)
  BY DEF StacksCovered
<1> DEFINE s == stk[t]
           p == stackPtr[t]
           e == stackEnd[t]
           b == blocking[t]
           ss == sects[t]
<1>0. Ok(t, s, p, e, b, ss, extCnt[t], inHandler[t])
  BY DEF SInv, ThreadOk
<1>1. /\ t = stacksStopper => ~b
      /\ t # stacksStopper /\ ~b => p = Len(s)
  BY DEF SInv, StopHolds, Sp
<1>2. b \in BOOLEAN /\ ss \in Seq(Sect) /\ p \in Nat /\ Len(s) \in Nat
  BY <1>0, OkParts
<1>3. Lo(stacksStopper, t) = Top(s, p, b)
  BY <1>1, <1>2 DEF Lo, Top, Sp
<1>4. ASSUME t # stacksStopper, ss # <<>> PROVE Head(ss).saved # p
  <2>1. Head(ss) = ss[1] /\ 1 \in 1..Len(ss)
    BY <1>4, <1>2
  <2>2. ss[1].at <= Top(s, p, b)
    BY <1>0, <2>1, TopIs
  <2>3. /\ ss[1].saved < ss[1].at /\ ss[1].saved \in Nat /\ ss[1].at \in Nat
    BY <1>0, <2>1, OkParts
  <2>4. Top(s, p, b) = p
    BY <1>1, <1>2, <1>4 DEF Top
  <2> HIDE DEF ss, p
  <2> QED
    BY <2>1, <2>2, <2>3, <2>4, <1>2
<1>5. SectsToPush(stacksStopper, t) = ss
  BY <1>4 DEF SectsToPush
<1>6. PushedFrames(stacksStopper, t) = Frames(GC_push_all_stack_sections(Top(s, p, b), e, ss))
  BY <1>3, <1>5 DEF PushedFrames
<1>7. Holding(t) = {j \in 1..Len(s) : j > e /\ s[j] # "inside"}
  BY DEF Holding, Sp
<1> QED
  BY <1>0, <1>6, <1>7, RangesExact

\* Sections that are ordered, from a hot end that is not colder than the first
\* of them, give ranges that are not inverted.
Standing(s, lo, ss) ==
  /\ ss \in Seq(Sect) /\ lo \in Nat /\ 1 <= lo
  /\ \A k \in 1..Len(ss) : /\ 2 <= ss[k].saved /\ ss[k].saved < ss[k].at
                            /\ s[ss[k].at] = "active"
  /\ \A k, l \in 1..Len(ss) : k < l => ss[l].at < ss[k].saved
  /\ ss # <<>> => ss[1].at <= lo
LEMMA RangesStand ==
  ASSUME NEW s, NEW lo, NEW e \in 0..1, NEW ss, Standing(s, lo, ss),
         NEW r \in GC_push_all_stack_sections(lo, e, ss)
  PROVE  r[1] <= r[2] /\ (r[1] = e \/ s[r[1] + 1] = "active")
<1>a. /\ ss \in Seq(Sect) /\ lo \in Nat /\ 1 <= lo /\ e \in 0..1
      /\ \A k \in 1..Len(ss) : /\ 2 <= ss[k].saved /\ ss[k].saved < ss[k].at
                                /\ s[ss[k].at] = "active"
      /\ \A k, l \in 1..Len(ss) : k < l => ss[l].at < ss[k].saved
      /\ ss # <<>> => ss[1].at <= lo
  BY DEF Standing
<1> USE <1>a
<1>n. /\ Len(ss) \in Nat
      /\ \A k \in 1..Len(ss) : ss[k].at \in Nat /\ ss[k].saved \in Nat
  <2>1. \A k \in 1..Len(ss) : ss[k] \in Sect
    OBVIOUS
  <2> QED
    BY <2>1 DEF Sect
<1>p. \A k \in 1..Len(ss) + 1 : k = 1 \/ (k - 1 \in 1..Len(ss) /\ HotEnd(lo, ss, k) = ss[k - 1].saved)
  BY <1>n DEF HotEnd
<1>h. HotEnd(lo, ss, 1) = lo
  BY DEF HotEnd
<1>1. CASE r = <<e, HotEnd(lo, ss, Len(ss) + 1)>>
  <2>1. r[1] = e /\ r[2] = HotEnd(lo, ss, Len(ss) + 1)
    BY <1>1
  <2>2. CASE Len(ss) + 1 = 1
    BY <2>1, <2>2, <1>h
  <2>3. CASE Len(ss) + 1 # 1
    <3>1. Len(ss) \in 1..Len(ss) /\ HotEnd(lo, ss, Len(ss) + 1) = ss[Len(ss)].saved
      BY <2>3, <1>n DEF HotEnd
    <3>2. 2 <= ss[Len(ss)].saved /\ ss[Len(ss)].saved \in Nat
      BY <3>1, <1>n
    <3> QED
      BY <2>1, <3>1, <3>2
  <2> QED
    BY <2>2, <2>3
<1>2. CASE \E k \in 1..Len(ss) : r = <<ss[k].at - 1, HotEnd(lo, ss, k)>>
  <2>1. PICK k \in 1..Len(ss) : r = <<ss[k].at - 1, HotEnd(lo, ss, k)>>
    BY <1>2
  <2>2. r[1] = ss[k].at - 1 /\ r[2] = HotEnd(lo, ss, k) /\ ss[k].at \in Nat
    BY <2>1, <1>n
  <2>3. s[r[1] + 1] = "active"
    <3>1. r[1] + 1 = ss[k].at
      BY <2>2
    <3> QED
      BY <3>1
  <2>4. r[1] <= r[2]
    <3>1. CASE k = 1
      <4>1. ss # <<>>
        BY <3>1
      <4>2. ss[1].at <= lo /\ ss[1].at \in Nat
        BY <4>1, <3>1, <1>n
      <4> QED
        BY <4>2, <3>1, <2>2, <1>h
    <3>2. CASE k # 1
      <4>1. k - 1 \in 1..Len(ss) /\ k - 1 < k /\ HotEnd(lo, ss, k) = ss[k - 1].saved
        BY <3>2, <1>p, <1>n
      <4>2. ss[k].at < ss[k - 1].saved /\ ss[k - 1].saved \in Nat
        BY <4>1, <1>n
      <4> QED
        BY <4>1, <4>2, <2>2
    <3> QED
      BY <3>1, <3>2
  <2> QED
    BY <2>3, <2>4
<1> QED
  BY <1>1, <1>2 DEF GC_push_all_stack_sections

\* The stack pointer of a thread that runs may be old, but not wrong.
LEMMA NeverFailsIs ==
  SInv => PushNeverFails
<1> SUFFICES ASSUME SInv, NEW self \in StackThread, NEW t \in StackThread,
                    NEW r \in GC_push_all_stack_sections(Lo(self, t), stackEnd[t], SectsToPush(self, t)),
                    self = t => ~blocking[t]
    PROVE  /\ r[1] <= r[2]
           /\ r[1] = stackEnd[t] \/ stk[t][r[1] + 1] = "active"
  BY DEF PushNeverFails
<1> DEFINE s == stk[t]
           p == stackPtr[t]
           e == stackEnd[t]
           b == blocking[t]
           ss == sects[t]
           lo == Lo(self, t)
<1>0. Ok(t, s, p, e, b, ss, extCnt[t], inHandler[t])
  BY DEF SInv, ThreadOk
<1>n. /\ b \in BOOLEAN /\ ss \in Seq(Sect) /\ Len(ss) \in Nat /\ p \in Nat /\ p >= 1
      /\ Len(s) \in Nat /\ Len(s) >= 1 /\ e \in 0..1
      /\ \A k \in 1..Len(ss) : ss[k].at \in Nat /\ ss[k].saved \in Nat
  BY <1>0, OkParts, OkTypes
<1>o. /\ Ordered(s, p, b, ss) /\ Told(s, p, b, ss) /\ Plausible(s, p, b, ss)
  BY <1>0, OkParts
<1>s. /\ \A k \in 1..Len(ss) : 2 <= ss[k].saved /\ ss[k].saved < ss[k].at /\ ss[k].at <= Len(s)
      /\ \A k, l \in 1..Len(ss) : k < l => ss[l].at < ss[k].saved
  BY <1>0, OkParts
<1>l. lo = (IF t = self THEN Len(s) ELSE p) /\ lo \in Nat /\ 1 <= lo
  BY <1>n DEF Lo, Sp
<1>f. SectsToPush(self, t) = IF t # self /\ ss # <<>> /\ Head(ss).saved = p THEN Tail(ss) ELSE ss
  BY DEF SectsToPush
<1>r. r \in GC_push_all_stack_sections(lo, e, SectsToPush(self, t))
  OBVIOUS
<1>b. self = t => ~b
  OBVIOUS
<1> HIDE DEF s, p, e, b, ss, lo
<1>a. ASSUME NEW k \in 1..Len(ss) PROVE s[ss[k].at] = "active"
  <2>1. ss[k].at \in 1..Len(s)
    BY <1>s, <1>n
  <2> QED
    BY <2>1, <1>o DEF Told
<1>h. ss # <<>> => Head(ss) = ss[1] /\ 1 \in 1..Len(ss) /\ ss[1].at \in Nat /\ ss[1].saved \in Nat
  BY <1>n
<1>1. CASE t # self /\ ss # <<>> /\ Head(ss).saved = p
  <2> DEFINE tt == Tail(ss)
  <2>1. /\ tt \in Seq(Sect) /\ Len(tt) = Len(ss) - 1 /\ Len(ss) >= 1
        /\ \A k \in 1..Len(ss) - 1 : tt[k] = ss[k + 1]
    BY <1>1, <1>n, TailIs
  <2>2. r \in GC_push_all_stack_sections(lo, e, tt)
    BY <1>1, <1>f, <1>r
  <2> HIDE DEF tt
  <2>3. \A k \in 1..Len(tt) : k + 1 \in 1..Len(ss) /\ tt[k] = ss[k + 1] /\ 1 < k + 1
    BY <2>1, <1>n
  <2>4. \A k \in 1..Len(tt) : /\ 2 <= tt[k].saved /\ tt[k].saved < tt[k].at
                              /\ s[tt[k].at] = "active"
    BY <2>3, <1>s, <1>a
  <2>5. \A k, l \in 1..Len(tt) : k < l => tt[l].at < tt[k].saved
    <3> SUFFICES ASSUME NEW k \in 1..Len(tt), NEW l \in 1..Len(tt), k < l
        PROVE  tt[l].at < tt[k].saved
      OBVIOUS
    <3>1. k + 1 < l + 1
      BY <2>1, <1>n
    <3> QED
      BY <3>1, <2>3, <1>s
  <2>6. tt # <<>> => tt[1].at <= lo
    <3> SUFFICES ASSUME tt # <<>> PROVE tt[1].at <= lo
      OBVIOUS
    <3>1. 1 \in 1..Len(tt) /\ 1 + 1 = 2
      BY <2>1
    <3>2. tt[1] = ss[2] /\ 2 \in 1..Len(ss)
      BY <3>1, <2>3
    <3>3. ss[2].at < ss[1].saved /\ lo = ss[1].saved /\ ss[2].at \in Nat /\ ss[1].saved \in Nat
      BY <3>2, <1>s, <1>h, <1>l, <1>1, <1>n
    <3> QED
      BY <3>2, <3>3
  <2>7. r[1] <= r[2] /\ (r[1] = e \/ s[r[1] + 1] = "active")
    <3>1. Standing(s, lo, tt) /\ e \in 0..1
      BY <2>1, <2>4, <2>5, <2>6, <1>n, <1>l DEF Standing
    <3> QED
      BY <3>1, <2>2, RangesStand
  <2> QED
    BY <2>7 DEF s, e
<1>2. CASE ~(t # self /\ ss # <<>> /\ Head(ss).saved = p)
  <2>1. r \in GC_push_all_stack_sections(lo, e, ss)
    BY <1>2, <1>f, <1>r
  <2>2. ss # <<>> => ss[1].at <= lo
    <3> SUFFICES ASSUME ss # <<>> PROVE ss[1].at <= lo
      OBVIOUS
    <3>1. CASE t = self
      BY <3>1, <1>l, <1>h, <1>s
    <3>2. CASE t # self /\ b
      <4>1. ss[1].at < p
        BY <3>2, <1>h, <1>o DEF Ordered
      <4> QED
        BY <4>1, <3>2, <1>l, <1>h, <1>n
    <3>3. CASE t # self /\ ~b
      <4>1. ss[1].at <= p
        BY <3>3, <1>2, <1>h, <1>o, <1>n DEF Plausible
      <4> QED
        BY <4>1, <3>3, <1>l
    <3> QED
      BY <3>1, <3>2, <3>3, <1>n
  <2>3. \A k \in 1..Len(ss) : /\ 2 <= ss[k].saved /\ ss[k].saved < ss[k].at
                              /\ s[ss[k].at] = "active"
    BY <1>s, <1>a
  <2>4. r[1] <= r[2] /\ (r[1] = e \/ s[r[1] + 1] = "active")
    <3>1. lo \in Nat /\ 1 <= lo /\ e \in 0..1 /\ ss \in Seq(Sect)
      BY <1>n, <1>l
    <3>2. \A k, l \in 1..Len(ss) : k < l => ss[l].at < ss[k].saved
      BY <1>s
    <3>3. Standing(s, lo, ss) /\ e \in 0..1
      BY <3>1, <3>2, <2>2, <2>3 DEF Standing
    <3> QED
      BY <3>3, <2>1, RangesStand
  <2> QED
    BY <2>4 DEF s, e
<1> QED
  BY <1>1, <1>2

\* Only the hottest range ends at the stack pointer, and cold lies in it.
LEMMA EagerIs ==
  SInv => EagerSame
<1> SUFFICES ASSUME SInv, NEW t \in StackThread, NEW cold \in stackEnd[t]..Sp(t),
                    ~blocking[t], sects[t] # <<>> => cold >= Head(sects[t]).at
    PROVE  Frames(GC_push_all_stack_part_eager_sections(Sp(t), stackEnd[t], cold, sects[t]))
             = Frames(GC_push_all_stack_sections(Sp(t), stackEnd[t], sects[t]))
  BY DEF EagerSame
<1> DEFINE s == stk[t]
           e == stackEnd[t]
           ss == sects[t]
           lo == Sp(t)
           R == GC_push_all_stack_sections(lo, e, ss)
           part(r) == IF r[2] = lo THEN {<<r[1], cold>>, <<cold, lo>>} ELSE {r}
           E == UNION {part(r) : r \in R}
<1>0. Ok(t, stk[t], stackPtr[t], stackEnd[t], blocking[t], sects[t], extCnt[t], inHandler[t])
  BY DEF SInv, ThreadOk
<1>n. /\ ss \in Seq(Sect) /\ Len(ss) \in Nat
      /\ lo \in Nat /\ lo >= 1 /\ e \in 0..1 /\ cold \in Nat /\ e <= cold /\ cold <= lo
      /\ \A k \in 1..Len(ss) : ss[k].at \in Nat /\ ss[k].saved \in Nat
  <2>1. /\ ss \in Seq(Sect) /\ Len(ss) \in Nat /\ e \in 0..1 /\ Len(stk[t]) \in Nat /\ Len(stk[t]) >= 1
        /\ \A k \in 1..Len(ss) : ss[k].at \in Nat /\ ss[k].saved \in Nat
    BY <1>0, OkParts, OkTypes
  <2>2. lo = Len(stk[t]) /\ cold \in e..lo
    BY DEF Sp
  <2> HIDE DEF lo, ss, e
  <2> QED
    BY <2>1, <2>2
<1>s. \A k \in 1..Len(ss) : ss[k].saved < ss[k].at /\ ss[k].at <= lo
  BY <1>0, OkParts DEF Sp
<1>c. ss # <<>> => cold >= ss[1].at
  BY <1>n
<1>e. GC_push_all_stack_part_eager_sections(lo, e, cold, ss) = E
  BY DEF GC_push_all_stack_part_eager_sections
<1>r. \A r \in R : \/ r = <<e, HotEnd(lo, ss, Len(ss) + 1)>>
                   \/ \E k \in 1..Len(ss) : r = <<ss[k].at - 1, HotEnd(lo, ss, k)>>
  BY DEF GC_push_all_stack_sections
<1> HIDE DEF s, e, ss, lo, R
<1>1. ASSUME NEW k \in 1..Len(ss) + 1, HotEnd(lo, ss, k) = lo PROVE k = 1
  <2> SUFFICES ASSUME k # 1 PROVE FALSE
    OBVIOUS
  <2>1. k - 1 \in 1..Len(ss) /\ HotEnd(lo, ss, k) = ss[k - 1].saved
    BY <1>n DEF HotEnd
  <2>2. ss[k - 1].saved < ss[k - 1].at /\ ss[k - 1].at <= lo /\ ss[k - 1].at \in Nat /\ ss[k - 1].saved \in Nat
    BY <2>1, <1>s, <1>n
  <2> QED
    BY <2>1, <2>2, <1>1, <1>n
<1>2. ASSUME NEW r \in R, r[2] = lo PROVE r[1] \in Int /\ r[1] <= cold
  <2>1. CASE r = <<e, HotEnd(lo, ss, Len(ss) + 1)>>
    BY <2>1, <1>n
  <2>2. CASE \E k \in 1..Len(ss) : r = <<ss[k].at - 1, HotEnd(lo, ss, k)>>
    <3>1. PICK k \in 1..Len(ss) : r = <<ss[k].at - 1, HotEnd(lo, ss, k)>>
      BY <2>2
    <3>2. r[1] = ss[k].at - 1 /\ HotEnd(lo, ss, k) = lo /\ k \in 1..Len(ss) + 1
      BY <3>1, <1>2, <1>n
    <3>3. k = 1 /\ ss # <<>> /\ ss[k].at \in Nat
      BY <3>2, <1>1, <1>n
    <3> QED
      BY <3>2, <3>3, <1>c, <1>n
  <2> QED
    BY <2>1, <2>2, <1>r
<1>3. ASSUME NEW j, NEW r \in R
      PROVE  (\E q \in part(r) : j \in (q[1] + 1)..q[2]) <=> j \in (r[1] + 1)..r[2]
  <2>1. CASE r[2] = lo
    <3>1. r[1] \in Int /\ r[1] <= cold
      BY <2>1, <1>2
    <3>2. part(r) = {<<r[1], cold>>, <<cold, lo>>}
      BY <2>1
    <3>3. (\E q \in part(r) : j \in (q[1] + 1)..q[2])
            <=> j \in (r[1] + 1)..cold \/ j \in (cold + 1)..lo
      <4> DEFINE u == <<r[1], cold>>
                 v == <<cold, lo>>
      <4>1. u[1] = r[1] /\ u[2] = cold /\ v[1] = cold /\ v[2] = lo /\ part(r) = {u, v}
        BY <3>2
      <4> HIDE DEF u, v, part
      <4> QED
        BY <4>1
    <3>4. j \in (r[1] + 1)..cold \/ j \in (cold + 1)..lo <=> j \in (r[1] + 1)..lo
      BY <3>1, <1>n
    <3> QED
      BY <3>3, <3>4, <2>1
  <2>2. CASE r[2] # lo
    BY <2>2
  <2> QED
    BY <2>1, <2>2
<1>4. ASSUME NEW j
      PROVE  j \in Frames(E) <=> j \in Frames(R)
  <2>1. j \in Frames(E) <=> \E q \in E : j \in (q[1] + 1)..q[2]
    BY DEF Frames
  <2>2. (\E q \in E : j \in (q[1] + 1)..q[2]) <=> \E r \in R : \E q \in part(r) : j \in (q[1] + 1)..q[2]
    <3> HIDE DEF part
    <3> QED
      OBVIOUS
  <2>3. j \in Frames(R) <=> \E r \in R : j \in (r[1] + 1)..r[2]
    BY DEF Frames
  <2> HIDE DEF part, E
  <2> QED
    BY <2>1, <2>2, <2>3, <1>3
<1>5. Frames(E) = Frames(R)
  <2> HIDE DEF E
  <2> QED
    BY <1>4 DEF Frames
<1> HIDE DEF E
<1> QED
  BY <1>5, <1>e DEF R, lo, e, ss

-----------------------------------------------------------------------------
(* The theorems. *)

\* What is pushed of every stack at a stop is what may hold pointers, and the
\* assertions about sections hold at any time (GC_push_all_stacks,
\* GC_push_all_stack_sections), for any number of threads and any depth of
\* GC_do_blocking and GC_call_with_gc_active.
THEOREM StacksArePushedExactly ==
  StacksSpec => []StacksSound
<1>1. SInv => StacksSound
  BY NestedIs, CoveredIs, NeverFailsIs, EagerIs DEF SInv, StacksSound
<1> QED
  BY <1>1, StacksStart, StacksStep, PTL DEF StacksSpec

\* A frame that is appended or dropped inside of GC_do_blocking changes nothing.
LEMMA InsideSame ==
  ASSUME NEW t \in StackThread, SInv, blocking[t], stackEnd'[t] = stackEnd[t],
         \/ stk'[t] = Append(stk[t], "inside")
         \/ stk'[t] = Front(stk[t]) /\ stk[t][Len(stk[t])] = "inside"
  PROVE  Holding(t)' = Holding(t)
<1> DEFINE s == stk[t]
           z == stk'[t]
           e == stackEnd[t]
<1>1. s \in Seq(FrameKinds) /\ "inside" \in FrameKinds /\ Len(s) \in Nat /\ Len(s) >= 1
  BY OkParts DEF SInv, ThreadOk, FrameKinds
<1>2. /\ Holding(t) = {k \in 1..Len(s) : k > e /\ s[k] # "inside"}
      /\ Holding(t)' = {k \in 1..Len(z) : k > e /\ z[k] # "inside"}
  BY DEF Holding, Sp
<1>3. CASE z = Append(s, "inside")
  <2>1. Len(z) = Len(s) + 1 /\ z[Len(s) + 1] = "inside" /\ \A j \in 1..Len(s) : z[j] = s[j]
    BY <1>1, <1>3, AppendIs
  <2> HIDE DEF s, z, e
  <2>2. ASSUME NEW k PROVE k \in 1..Len(z) /\ z[k] # "inside" <=> k \in 1..Len(s) /\ s[k] # "inside"
    BY <2>1, <1>1
  <2> QED
    BY <1>2, <2>2
<1>4. CASE z = Front(s) /\ s[Len(s)] = "inside"
  <2>1. Len(z) = Len(s) - 1 /\ \A j \in 1..Len(s) - 1 : z[j] = s[j]
    BY <1>1, <1>4, FrontIs
  <2>2. s[Len(s)] = "inside"
    BY <1>4
  <2> HIDE DEF s, z, e
  <2>3. ASSUME NEW k PROVE k \in 1..Len(z) /\ z[k] # "inside" <=> k \in 1..Len(s) /\ s[k] # "inside"
    BY <2>1, <2>2, <1>1
  <2> QED
    BY <1>2, <2>3
<1> QED
  BY <1>3, <1>4

\* A thread that stays suspended only calls and returns inside of GC_do_blocking.
LEMMA SuspendedStep ==
  ASSUME SInv, [StacksNext]_stacksVars, NEW t \in StackThread,
         Odd(extCnt[t]), Odd(extCnt'[t]), stackEnd'[t] = stackEnd[t]
  PROVE  Holding(t)' = Holding(t)
<1>0. Ok(t, stk[t], stackPtr[t], stackEnd[t], blocking[t], sects[t], extCnt[t], inHandler[t])
  BY DEF SInv, ThreadOk
<1>s. ASSUME stk'[t] = stk[t] PROVE Holding(t)' = Holding(t)
  BY <1>s DEF Holding, Sp
<1>r. Runs(t) => blocking[t]
  BY RunsIs
<1>u. ASSUME NEW u \in StackThread, u # t, NEW v, stk' = [stk EXCEPT ![u] = v]
      PROVE  stk'[t] = stk[t]
  BY <1>u, SInvTypes
<1>e. ASSUME NEW v, stk' = [stk EXCEPT ![t] = v] PROVE stk'[t] = v
  BY <1>e, SInvTypes
<1>p. extCnt[t] \in Nat /\ ~Odd(extCnt[t] + 1)
  BY <1>0, OkParts, Parity
<1>1. CASE UNCHANGED stacksVars
  BY <1>1, <1>s DEF stacksVars
<1>2. ASSUME NEW u \in StackThread, Call(u) PROVE Holding(t)' = Holding(t)
  <2>1. CASE u = t
    <3>1. blocking[t] /\ stk' = [stk EXCEPT ![t] = Append(stk[t], "inside")]
      BY <1>2, <2>1, <1>r DEF Call
    <3> QED
      BY <3>1, <1>e, InsideSame
  <2>2. CASE u # t
    BY <1>2, <2>2, <1>u, <1>s DEF Call
  <2> QED
    BY <2>1, <2>2
<1>3. ASSUME NEW u \in StackThread, Return(u) PROVE Holding(t)' = Holding(t)
  <2>1. CASE u = t
    <3>1. /\ blocking[t] /\ stk' = [stk EXCEPT ![t] = Front(stk[t])]
          /\ stk[t][Len(stk[t])] \in {"client", "inside"}
      BY <1>3, <2>1, <1>r DEF Return, Hottest, Sp
    <3>2. /\ Told(stk[t], stackPtr[t], blocking[t], sects[t])
          /\ Plausible(stk[t], stackPtr[t], blocking[t], sects[t])
          /\ Len(stk[t]) \in 1..Len(stk[t]) /\ stackPtr[t] \in Nat
      BY <1>0, OkParts
    <3>3. stackPtr[t] <= Len(stk[t]) /\ stackPtr[t] # Len(stk[t])
      BY <3>1, <3>2 DEF Told, Plausible
    <3>4. stk[t][Len(stk[t])] = "inside"
      BY <3>1, <3>2, <3>3 DEF Told
    <3> QED
      BY <3>1, <3>4, <1>e, InsideSame
  <2>2. CASE u # t
    BY <1>3, <2>2, <1>u, <1>s DEF Return
  <2> QED
    BY <2>1, <2>2
<1>4. ASSUME NEW u \in StackThread, GC_do_blocking(u) PROVE Holding(t)' = Holding(t)
  <2>1. u # t
    BY <1>4, <1>r DEF GC_do_blocking
  <2> QED
    BY <1>4, <2>1, <1>u, <1>s DEF GC_do_blocking, do_blocking_enter
<1>5. ASSUME NEW u \in StackThread, do_blocking_leave(u) PROVE Holding(t)' = Holding(t)
  <2>1. CASE u = t
    BY <1>5, <2>1, <1>s DEF do_blocking_leave
  <2>2. CASE u # t
    BY <1>5, <2>2, <1>u, <1>s DEF do_blocking_leave
  <2> QED
    BY <2>1, <2>2
<1>6. ASSUME NEW u \in StackThread, GC_call_with_gc_active(u) PROVE Holding(t)' = Holding(t)
  <2>1. CASE u = t
    <3>1. stk' = stk
      BY <1>6, <2>1, <1>r DEF GC_call_with_gc_active, Resumed
    <3> QED
      BY <3>1, <1>s
  <2>2. CASE u # t
    BY <1>6, <2>2, <1>u, <1>s DEF GC_call_with_gc_active
  <2> QED
    BY <2>1, <2>2
<1>7. ASSUME NEW u \in StackThread, LeaveGcActive(u) PROVE Holding(t)' = Holding(t)
  <2>1. u # t
    <3>1. ASSUME u = t PROVE FALSE
      <4>1. Runs(t) /\ stk[t][Len(stk[t])] = "active"
        BY <1>7, <3>1 DEF LeaveGcActive, Hottest, Sp
      <4>2. ~blocking[t]
        BY <1>0, <4>1, ActiveIsFirst
      <4> QED
        BY <4>1, <4>2, <1>r
    <3> QED
      BY <3>1
  <2> QED
    BY <1>7, <2>1, <1>u, <1>s DEF LeaveGcActive
<1>8. ASSUME NEW p \in StackThread, NEW u \in StackThread, GC_suspend_thread(p, u)
      PROVE  Holding(t)' = Holding(t)
  <2>1. u # t
    <3>1. ASSUME u = t PROVE FALSE
      BY <1>8, <3>1 DEF GC_suspend_thread
    <3> QED
      BY <3>1
  <2> QED
    BY <1>8, <2>1, <1>u, <1>s DEF GC_suspend_thread, do_blocking_enter
<1>9. ASSUME stk' = stk PROVE Holding(t)' = Holding(t)
  BY <1>9, <1>s
<1>10. \/ UNCHANGED stacksVars \/ stk' = stk
       \/ \E u \in StackThread :
            \/ Call(u) \/ Return(u) \/ GC_do_blocking(u) \/ do_blocking_leave(u)
            \/ GC_call_with_gc_active(u) \/ LeaveGcActive(u)
            \/ \E p \in StackThread : GC_suspend_thread(p, u)
  BY DEF StacksNext, GC_suspend_self_inner, GC_set_stackbottom, StopStacks, StartStacks,
         GC_suspend_handler_inner, GC_resume_thread
<1> QED
  BY <1>1, <1>2, <1>3, <1>4, <1>5, <1>6, <1>7, <1>8, <1>9, <1>10

\* Between GC_suspend_thread and GC_resume_thread the frames of a thread that
\* may hold pointers stay as they are, whatever the others do.
THEOREM SuspendedThreadsStay ==
  StacksSpec => SuspendedStays
<1>1. SInv /\ [StacksNext]_stacksVars =>
        [\A t \in StackThread : Odd(extCnt[t]) /\ Odd(extCnt'[t]) => Holding(t)' = Holding(t)
                                \/ stackEnd'[t] # stackEnd[t]]_stacksVars
  BY SuspendedStep
<1> QED
  BY <1>1, StacksStart, StacksStep, PTL DEF StacksSpec, SuspendedStays

-----------------------------------------------------------------------------
(* Stopping the world on Darwin: lists of threads, and the invariant.        *)

\* new keeps the order of old: what comes before an element of old in new is an
\* element of old and comes before it there too.  So new has what is left of
\* old first, and the rest behind.
Follows(old, new) ==
  \A k, l \in 1..Len(new), i \in 1..Len(old) :
    k < l /\ new[l] = old[i] => \E n \in 1..Len(old) : n < i /\ new[k] = old[n]
InList(s, x) == \E i \in 1..Len(s) : s[i] = x

DPhases == {"idle", "list", "suspend", "mprotect_stop", "stopping", "stopped",
            "mprotect_resume", "resuming", "resume"}
DLists == [act : Seq(DThread), prev : Seq(DThread), at : Nat, j : Nat, changed : BOOLEAN]
DRecord == [thread : DThread, suspended : BOOLEAN]
DTypes ==
  /\ GC_query_task_threads \in BOOLEAN /\ tasks \in Seq(DThread)
  /\ suspCount \in [DThread -> 0..1]
  /\ ctl \in [DThread -> {"run", "fault", "blocking", "none", "gone"}]
  /\ gp \in DPhases /\ lists \in DLists /\ lists.at \in 1..Len(lists.act) + 1
  /\ machThreads \in Seq(DRecord) /\ port \in Seq(DThread \cup {STOP, RESUME})
  /\ ack \in BOOLEAN /\ mpState \in {"normal", "discarding", "stopped", "abort"}
  /\ mp \in [on : DThread \cup {NoThr}, step : 0..4]
  /\ isProt \in BOOLEAN /\ isDirty \in BOOLEAN /\ wasStored \in BOOLEAN /\ lost \in BOOLEAN
  /\ dirtyLock \in BOOLEAN /\ nCycles \in 0..MaxCycles

\* Threads: who exists is listed, who is suspended exists.
DThreads ==
  /\ IsInjective(tasks)
  /\ \A t \in DThread : InList(tasks, t) <=> ctl[t] \in {"run", "fault", "blocking"}
  /\ \A t \in DThread : suspCount[t] = 1 => t # Me /\ ctl[t] \in {"run", "fault"} /\ gp # "idle"
  /\ \A t \in DThread : ctl[t] = "blocking" => ~GC_query_task_threads
\* The faults: each is in the port or is being handled.
DFaults ==
  /\ IsInjective(port) /\ ctl[Me] # "fault"
  /\ \A t \in DThread : InList(port, t) <=> ctl[t] = "fault" /\ mp.on # t
  /\ mp.on # NoThr => ctl[mp.on] = "fault"
  /\ mp.on = NoThr <=> mp.step = 0
  /\ dirtyLock <=> mp.step = 3
\* The messages of the collector and the state of GC_mprotect_thread.
Quiet == port = <<>> /\ mp.step = 0
DMessages ==
  /\ gp \in {"idle", "list", "suspend", "mprotect_stop", "resume"} =>
       mpState = "normal" /\ ~ack /\ ~InList(port, STOP) /\ ~InList(port, RESUME)
  /\ gp = "stopping" =>
       \/ /\ mpState = "normal" /\ ~ack /\ ~InList(port, RESUME)
          /\ port # <<>> /\ port[Len(port)] = STOP
       \/ mpState = "discarding" /\ ~ack /\ Quiet
       \/ mpState = "stopped" /\ ack /\ Quiet
  /\ gp \in {"stopped", "mprotect_resume"} => mpState = "stopped" /\ ~ack /\ Quiet
  /\ gp = "resuming" =>
       \/ mpState = "stopped" /\ ~ack /\ mp.step = 0 /\ Len(port) = 1 /\ port[1] = RESUME
       \/ mpState = "normal" /\ ack /\ Quiet
\* The page.
DPage ==
  /\ ~isProt => isDirty \/ mp.step \in {2, 3}
  /\ wasStored => ~isProt
  /\ ~lost
\* Nothing runs any more.
DStill ==
  gp \in {"mprotect_stop", "stopping", "stopped", "mprotect_resume", "resuming"} =>
    \A t \in DThread : InList(tasks, t) /\ t # Me => suspCount[t] = 1 \/ ctl[t] = "blocking"
\* With the kernel's lists: GC_mach_threads has the suspended threads, once each.
DRecords ==
  GC_query_task_threads =>
    /\ \A i, k \in 1..Len(machThreads) : machThreads[i].thread = machThreads[k].thread => i = k
    /\ gp # "idle" => \A t \in DThread : suspCount[t] = 1 <=>
         \E i \in 1..Len(machThreads) : machThreads[i].thread = t /\ machThreads[i].suspended
Held(t) == suspCount[t] = 1 \/ ctl[t] = "gone"
\* ... whoever was in the previous list is suspended or has quit, ...
DPrev(old) ==
  /\ IsInjective(old)
  /\ \A i \in 1..Len(old) : ctl[old[i]] # "none" /\ (old[i] # Me => Held(old[i]))
DListed ==
  GC_query_task_threads /\ gp = "list" =>
    /\ DPrev(lists.prev) /\ Follows(lists.prev, tasks)
    /\ \A t \in DThread : suspCount[t] = 1 => InList(lists.prev, t)
    /\ \A i \in 1..Len(machThreads) :
         ~machThreads[i].suspended => ctl[machThreads[i].thread] = "gone"
\* ... and of the list gone through now the part before the place reached.
AllOld == \A k \in 1..Len(lists.act) : lists.act[k] # Me => InList(lists.prev, lists.act[k])
DWalk ==
  GC_query_task_threads /\ gp = "suspend" =>
    /\ DPrev(lists.prev) /\ Follows(lists.prev, lists.act)
    /\ IsInjective(lists.act) /\ Follows(lists.act, tasks)
    /\ \A k \in 1..Len(lists.act) : ctl[lists.act[k]] # "none"
    /\ \A k \in 1..Len(lists.act) : k < lists.at /\ lists.act[k] # Me => Held(lists.act[k])
    /\ \A t \in DThread : suspCount[t] = 1 =>
         \E k \in 1..Len(lists.act) : lists.act[k] = t /\ (k < lists.at \/ InList(lists.prev, t))
    /\ \A i \in 1..Len(machThreads) : ~machThreads[i].suspended =>
         /\ ctl[machThreads[i].thread] = "gone"
         /\ \A k \in 1..Len(lists.act) : lists.act[k] = machThreads[i].thread => k < lists.at
    /\ \A k \in 1..Len(lists.act), i \in 1..Len(lists.prev) :
         lists.at <= k /\ lists.act[k] # Me /\ lists.act[k] = lists.prev[i] => lists.j < i
    /\ ~lists.changed => \A k \in 1..Len(lists.act) :
         k < lists.at /\ lists.act[k] # Me => InList(lists.prev, lists.act[k])
    /\ AllOld => \A t \in DThread : InList(tasks, t) /\ t # Me => suspCount[t] = 1
\* The place of the last search in GC_start_world is not that of a thread still
\* to be resumed.
DResume ==
  GC_query_task_threads /\ gp = "resume" =>
    /\ \A t \in DThread : suspCount[t] = 1 => InList(lists.act, t)
    /\ lists.j <= Len(lists.act) + 1
    /\ lists.j \in 1..Len(lists.act) => \A i \in 1..Len(machThreads) :
         machThreads[i].suspended => lists.act[lists.j] # machThreads[i].thread
DInv ==
  /\ DTypes /\ DThreads /\ DFaults /\ DMessages /\ DPage /\ DStill
  /\ DRecords /\ DListed /\ DWalk /\ DResume

-----------------------------------------------------------------------------
(* Lists of threads. *)
LEMMA FollowsNone ==
  ASSUME NEW s
  PROVE  Follows(<<>>, s)
BY DEF Follows

LEMMA FollowsSelf ==
  ASSUME NEW S, NEW s \in Seq(S), IsInjective(s)
  PROVE  Follows(s, s)
<1>1. \A i, j \in 1..Len(s) : s[i] = s[j] => i = j
  BY RangeIs
<1> QED
  BY <1>1 DEF Follows

\* A new element at the end.
LEMMA FollowsAppend ==
  ASSUME NEW S, NEW old \in Seq(S), NEW s \in Seq(S), NEW x \in S,
         Follows(old, s), \A i \in 1..Len(old) : old[i] # x
  PROVE  Follows(old, Append(s, x))
<1> DEFINE z == Append(s, x)
<1>1. /\ Len(z) = Len(s) + 1 /\ Len(s) \in Nat /\ z[Len(s) + 1] = x
      /\ \A j \in 1..Len(s) : z[j] = s[j]
  BY AppendIs
<1> HIDE DEF z
<1>2. ASSUME NEW k \in 1..Len(z), NEW l \in 1..Len(z), NEW i \in 1..Len(old), k < l, z[l] = old[i]
      PROVE  \E n \in 1..Len(old) : n < i /\ z[k] = old[n]
  <2>1. PICK n \in Nat : n = Len(s)
    BY <1>1
  <2>2. k \in 1..n /\ (l \in 1..n \/ l = n + 1)
    <3>1. k \in 1..n + 1 /\ l \in 1..n + 1 /\ k < l
      BY <2>1, <1>1, <1>2
    <3> QED
      BY <3>1
  <2>a. l \in 1..Len(s) /\ k \in 1..Len(s)
    BY <2>1, <2>2, <1>1, <1>2
  <2>3. z[l] = s[l] /\ z[k] = s[k]
    BY <2>a, <1>1
  <2> QED
    BY <2>a, <2>3, <1>2 DEF Follows
<1> QED
  BY <1>2 DEF Follows, z

LEMMA FollowsUnlinked ==
  ASSUME NEW S, NEW old \in Seq(S), NEW s \in Seq(S), NEW x, Follows(old, s)
  PROVE  Follows(old, RemoveFirst(s, x))
<1>1. PICK z : z = RemoveFirst(s, x)
  OBVIOUS
<1>a. \E f \in [1..Len(RemoveFirst(s, x)) -> 1..Len(s)] :
           /\ \A k \in 1..Len(RemoveFirst(s, x)) : RemoveFirst(s, x)[k] = s[f[k]]
           /\ \A k, l \in 1..Len(RemoveFirst(s, x)) : k < l => f[k] < f[l]
  BY UnlinkedOrder
<1>2. PICK f \in [1..Len(z) -> 1..Len(s)] :
           /\ \A k \in 1..Len(z) : z[k] = s[f[k]]
           /\ \A k, l \in 1..Len(z) : k < l => f[k] < f[l]
  BY <1>1, <1>a, Zenon
<1>3. ASSUME NEW k \in 1..Len(z), NEW l \in 1..Len(z), NEW i \in 1..Len(old), k < l, z[l] = old[i]
      PROVE  \E n \in 1..Len(old) : n < i /\ z[k] = old[n]
  <2>1. f[k] \in 1..Len(s) /\ f[l] \in 1..Len(s) /\ f[k] < f[l] /\ z[k] = s[f[k]] /\ s[f[l]] = old[i]
    BY <1>2, <1>3
  <2> QED
    BY <2>1 DEF Follows
<1> QED
  BY <1>3, <1>1 DEF Follows

\* What the lists have: in terms of places, and of the set of the elements.
LEMMA InListIs ==
  ASSUME NEW S, NEW s \in Seq(S)
  PROVE  /\ \A x : InList(s, x) <=> x \in Range(s)
         /\ \A x : InList(s, x) => x \in S
         /\ \A i \in 1..Len(s) : s[i] \in S /\ InList(s, s[i])
         /\ IsInjective(s) <=> \A i, j \in 1..Len(s) : s[i] = s[j] => i = j
         /\ s # <<>> <=> Len(s) >= 1
BY RangeIs DEF InList

LEMMA InAppended ==
  ASSUME NEW S, NEW s \in Seq(S), NEW x \in S
  PROVE  /\ \A y : InList(Append(s, x), y) <=> InList(s, y) \/ y = x
         /\ IsInjective(s) /\ ~InList(s, x) => IsInjective(Append(s, x))
<1> DEFINE z == Append(s, x)
<1>1. /\ z \in Seq(S) /\ Len(z) = Len(s) + 1 /\ Len(s) \in Nat /\ z[Len(s) + 1] = x
      /\ \A j \in 1..Len(s) : z[j] = s[j]
  BY AppendIs
<1> HIDE DEF z
<1>2. ASSUME NEW y PROVE InList(z, y) <=> InList(s, y) \/ y = x
  <2>1. ASSUME NEW i \in 1..Len(z), z[i] = y PROVE InList(s, y) \/ y = x
    BY <2>1, <1>1 DEF InList
  <2>2. ASSUME NEW i \in 1..Len(s), s[i] = y PROVE i \in 1..Len(z) /\ z[i] = y
    BY <2>2, <1>1
  <2>3. Len(s) + 1 \in 1..Len(z)
    BY <1>1
  <2> QED
    BY <2>1, <2>2, <2>3, <1>1 DEF InList
<1>3. ASSUME IsInjective(s), ~InList(s, x) PROVE IsInjective(z)
  <2>1. \A i, j \in 1..Len(s) : s[i] = s[j] => i = j
    BY <1>3, RangeIs
  <2>2. \A i \in 1..Len(s) : s[i] # x
    BY <1>3 DEF InList
  <2>3. \A i, j \in 1..Len(z) : z[i] = z[j] => i = j
    BY <2>1, <2>2, <1>1
  <2> QED
    BY <2>3, <1>1, RangeIs
<1> QED
  BY <1>2, <1>3 DEF z

LEMMA InTail ==
  ASSUME NEW S, NEW s \in Seq(S), s # <<>>, IsInjective(s)
  PROVE  /\ Tail(s) \in Seq(S) /\ IsInjective(Tail(s)) /\ InList(s, Head(s)) /\ Head(s) \in S
         /\ \A y : InList(Tail(s), y) <=> InList(s, y) /\ y # Head(s)
<1> DEFINE z == Tail(s)
<1>1. /\ z \in Seq(S) /\ Len(z) = Len(s) - 1 /\ Len(s) \in Nat /\ Len(s) >= 1
      /\ \A j \in 1..Len(z) : z[j] = s[j + 1] /\ j + 1 \in 1..Len(s)
      /\ Head(s) = s[1]
  BY TailIs
<1> HIDE DEF z
<1>2. \A i, j \in 1..Len(s) : s[i] = s[j] => i = j
  BY RangeIs
<1>3. \A i, j \in 1..Len(z) : z[i] = z[j] => i = j
  BY <1>1, <1>2
<1>4. ASSUME NEW y PROVE InList(z, y) <=> InList(s, y) /\ y # Head(s)
  <2>1. ASSUME NEW i \in 1..Len(z), z[i] = y PROVE InList(s, y) /\ y # Head(s)
    BY <2>1, <1>1, <1>2 DEF InList
  <2>2. ASSUME NEW i \in 1..Len(s), s[i] = y, y # Head(s) PROVE InList(z, y)
    <3>1. i - 1 \in 1..Len(z) /\ (i - 1) + 1 = i
      BY <2>2, <1>1
    <3> QED
      BY <3>1, <2>2, <1>1 DEF InList
  <2> QED
    BY <2>1, <2>2 DEF InList
<1>5. IsInjective(z) /\ InList(s, Head(s)) /\ Head(s) \in S
  <2>1. 1 \in 1..Len(s)
    BY <1>1
  <2> QED
    BY <2>1, <1>1, <1>3, RangeIs DEF InList
<1> QED
  BY <1>1, <1>4, <1>5 DEF z

LEMMA InUnlinked ==
  ASSUME NEW S, NEW s \in Seq(S), NEW x, IsInjective(s)
  PROVE  /\ RemoveFirst(s, x) \in Seq(S) /\ IsInjective(RemoveFirst(s, x))
         /\ \A y : InList(RemoveFirst(s, x), y) <=> InList(s, y) /\ y # x
BY UnlinkedIs, InListIs

-----------------------------------------------------------------------------
(* Stopping the world on Darwin: the invariant, action by action. *)
LEMMA DNames ==
  /\ STOP # RESUME /\ STOP \notin DThread /\ RESUME \notin DThread /\ NoThr \notin DThread
  /\ Me \in DThread /\ NoThr # STOP /\ NoThr # RESUME
BY DarwinAssumption DEF STOP, RESUME, NoThr

LEMMA DFlat ==
  ASSUME DTypes
  PROVE  /\ GC_query_task_threads \in BOOLEAN /\ tasks \in Seq(DThread)
         /\ suspCount \in [DThread -> 0..1]
         /\ ctl \in [DThread -> {"run", "fault", "blocking", "none", "gone"}]
         /\ gp \in DPhases /\ lists \in DLists
         /\ lists.act \in Seq(DThread) /\ lists.prev \in Seq(DThread) /\ lists.j \in Nat
         /\ lists.at \in Nat /\ lists.at \in 1..Len(lists.act) + 1 /\ lists.changed \in BOOLEAN
         /\ Len(lists.act) \in Nat /\ Len(lists.prev) \in Nat
         /\ machThreads \in Seq(DRecord) /\ Len(machThreads) \in Nat
         /\ \A i \in 1..Len(machThreads) :
              machThreads[i].thread \in DThread /\ machThreads[i].suspended \in BOOLEAN
         /\ port \in Seq(DThread \cup {STOP, RESUME}) /\ Len(port) \in Nat
         /\ ack \in BOOLEAN /\ mpState \in {"normal", "discarding", "stopped", "abort"}
         /\ mp \in [on : DThread \cup {NoThr}, step : 0..4]
         /\ mp.on \in DThread \cup {NoThr} /\ mp.step \in 0..4
         /\ isProt \in BOOLEAN /\ isDirty \in BOOLEAN /\ wasStored \in BOOLEAN /\ lost \in BOOLEAN
         /\ dirtyLock \in BOOLEAN /\ nCycles \in 0..MaxCycles
<1>1. /\ lists.act \in Seq(DThread) /\ lists.prev \in Seq(DThread) /\ lists.j \in Nat
      /\ lists.at \in Nat /\ lists.changed \in BOOLEAN
  BY DEF DTypes, DLists
<1>2. \A i \in 1..Len(machThreads) : machThreads[i] \in DRecord
  BY DEF DTypes
<1>3. Len(lists.act) \in Nat /\ Len(lists.prev) \in Nat
  BY <1>1
<1>4. Len(machThreads) \in Nat /\ Len(port) \in Nat
  BY DEF DTypes
<1>5. \A i \in 1..Len(machThreads) :
              machThreads[i].thread \in DThread /\ machThreads[i].suspended \in BOOLEAN
  BY <1>2 DEF DRecord
<1> QED
  BY <1>1, <1>3, <1>4, <1>5 DEF DTypes

\* Steps that only change what threads do, and end none and create none.
LEMMA DFrame ==
  ASSUME DRecords, DListed, DWalk, DResume,
         GC_query_task_threads' = GC_query_task_threads, tasks' = tasks,
         suspCount' = suspCount, gp' = gp, lists' = lists, machThreads' = machThreads,
         DTypes,
         \A t \in DThread : /\ ctl'[t] = "gone" <=> ctl[t] = "gone"
                            /\ ctl'[t] = "none" <=> ctl[t] = "none"
  PROVE  DRecords' /\ DListed' /\ DWalk' /\ DResume'
<1>1. DRecords' /\ DResume'
  BY DEF DRecords, DResume, InList
<1>2. /\ \A i \in 1..Len(lists.prev) : lists.prev[i] \in DThread
      /\ \A i \in 1..Len(lists.act) : lists.act[i] \in DThread
      /\ \A i \in 1..Len(machThreads) : machThreads[i].thread \in DThread
  BY DFlat
<1>3. DPrev(lists.prev) => DPrev(lists.prev)'
  BY <1>2 DEF DPrev, Held
<1>4. Follows(lists.prev, tasks)' <=> Follows(lists.prev, tasks)
  BY DEF Follows
<1>5. /\ Follows(lists.act, tasks)' <=> Follows(lists.act, tasks)
      /\ Follows(lists.prev, lists.act)' <=> Follows(lists.prev, lists.act)
  BY DEF Follows
<1>6. \A x : /\ InList(lists.prev, x)' <=> InList(lists.prev, x)
             /\ InList(lists.act, x)' <=> InList(lists.act, x)
             /\ InList(tasks, x)' <=> InList(tasks, x)
  BY DEF InList
<1>7. DListed'
  BY <1>2, <1>3, <1>4, <1>6 DEF DListed
<1>8. AllOld' <=> AllOld
  BY <1>6 DEF AllOld
<1>9. \A t \in DThread : Held(t)' <=> Held(t)
  BY DEF Held
<1>10. DWalk'
  BY <1>2, <1>3, <1>5, <1>6, <1>8, <1>9 DEF DWalk
<1> QED
  BY <1>1, <1>7, <1>10

\* Whoever moves is not suspended, so the world is not stopped.
LEMMA DMoves ==
  ASSUME DInv, NEW t \in DThread, Moves(t)
  PROVE  /\ gp \in {"idle", "list", "suspend", "resume"}
         /\ InList(tasks, t) /\ ctl[t] = "run" /\ suspCount[t] = 0 /\ t # Me
         /\ mp.on # t /\ ~InList(port, t)
<1>1. InList(tasks, t) /\ ctl[t] = "run" /\ suspCount[t] = 0 /\ t # Me
  BY DEF DInv, DThreads, Moves
<1>2. gp \notin {"mprotect_stop", "stopping", "stopped", "mprotect_resume", "resuming"}
  BY <1>1 DEF DInv, DStill
<1>3. mp.on # t /\ ~InList(port, t)
  BY <1>1, DNames DEF DInv, DFaults
<1> QED
  BY <1>1, <1>2, <1>3 DEF DInv, DTypes, DPhases

LEMMA StoreWordKeeps ==
  ASSUME DInv, NEW t \in DThread, StoreWord(t)
  PROVE  DInv'
<1>u. /\ GC_query_task_threads' = GC_query_task_threads /\ tasks' = tasks
      /\ suspCount' = suspCount /\ gp' = gp /\ lists' = lists /\ machThreads' = machThreads
      /\ nCycles' = nCycles /\ ack' = ack /\ mpState' = mpState /\ mp' = mp /\ isProt' = isProt
      /\ isDirty' = isDirty /\ lost' = lost /\ dirtyLock' = dirtyLock
  BY DEF StoreWord, stopVars
<1>m. /\ gp \in {"idle", "list", "suspend", "resume"}
      /\ InList(tasks, t) /\ ctl[t] = "run" /\ suspCount[t] = 0 /\ t # Me
      /\ mp.on # t /\ ~InList(port, t)
  BY DMoves DEF StoreWord
<1>t. DTypes
  BY DEF DInv
<1>f. ctl \in [DThread -> {"run", "fault", "blocking", "none", "gone"}]
  BY <1>t, DFlat
<1>p. IsInjective(port) /\ port \in Seq(DThread \cup {STOP, RESUME})
  BY <1>t, DFlat DEF DInv, DFaults
<1>1. CASE isProt
  <2>1. ctl' = [ctl EXCEPT ![t] = "fault"] /\ port' = Append(port, t) /\ wasStored' = wasStored
    BY <1>1 DEF StoreWord
  <2>2. \A x \in DThread : ctl'[x] = IF x = t THEN "fault" ELSE ctl[x]
    BY <2>1, <1>f
  <2>3. /\ \A y : InList(port', y) <=> InList(port, y) \/ y = t
        /\ IsInjective(port') /\ port' \in Seq(DThread \cup {STOP, RESUME})
    BY <2>1, <1>p, <1>m, InAppended, AppendIs
  <2>a. ctl' \in [DThread -> {"run", "fault", "blocking", "none", "gone"}]
    BY <2>1, <1>f
  <2>4. DTypes'
    BY <2>a, <2>1, <2>3, <1>u, <1>t DEF DTypes
  <2>5. DThreads'
    BY <2>2, <1>u, <1>m DEF DInv, DThreads
  <2>6. DFaults'
    <3>1. ctl'[Me] # "fault"
      BY <2>2, <1>m, DNames DEF DInv, DFaults
    <3>2. \A x \in DThread : InList(port', x) <=> ctl'[x] = "fault" /\ mp.on # x
      BY <2>2, <2>3, <1>m DEF DInv, DFaults
    <3>3. mp.on # NoThr => ctl'[mp.on] = "fault"
      BY <2>2, <1>m, <1>t, DFlat DEF DInv, DFaults
    <3>4. (mp.on = NoThr <=> mp.step = 0) /\ (dirtyLock <=> mp.step = 3)
      BY DEF DInv, DFaults
    <3> QED
      BY <3>1, <3>2, <3>3, <3>4, <2>3, <1>u DEF DFaults
  <2>7. DMessages'
    BY <2>3, <1>u, <1>m, DNames DEF DInv, DMessages
  <2>8. DPage' /\ DStill'
    BY <2>1, <1>u, <1>m DEF DInv, DPage, DStill
  <2>9. \A x \in DThread : /\ ctl'[x] = "gone" <=> ctl[x] = "gone"
                           /\ ctl'[x] = "none" <=> ctl[x] = "none"
    BY <2>2, <1>m
  <2>10. DRecords' /\ DListed' /\ DWalk' /\ DResume'
    BY <2>9, <1>u, <1>t, DFrame DEF DInv
  <2> QED
    BY <2>4, <2>5, <2>6, <2>7, <2>8, <2>10 DEF DInv
<1>2. CASE ~isProt
  <2>1. ctl' = ctl /\ port' = port /\ wasStored' = TRUE
    BY <1>2 DEF StoreWord
  <2>2. DTypes'
    BY <2>1, <1>u, <1>t DEF DTypes
  <2>3. DThreads' /\ DFaults'
    BY <2>1, <1>u DEF DInv, DThreads, DFaults
  <2>4. DMessages'
    BY <2>1, <1>u DEF DInv, DMessages, Quiet
  <2>5. DPage' /\ DStill'
    BY <1>2, <2>1, <1>u DEF DInv, DPage, DStill
  <2>10. DRecords' /\ DListed' /\ DWalk' /\ DResume'
    BY <2>1, <1>u, <1>t, DFrame DEF DInv
  <2> QED
    BY <2>2, <2>3, <2>4, <2>5, <2>10 DEF DInv
<1> QED
  BY <1>1, <1>2

LEMMA DBlockingKeeps ==
  ASSUME DInv, NEW t \in DThread, Blocking(t)
  PROVE  DInv'
<1>u. /\ GC_query_task_threads' = GC_query_task_threads /\ tasks' = tasks
      /\ suspCount' = suspCount /\ gp' = gp /\ lists' = lists /\ machThreads' = machThreads
      /\ nCycles' = nCycles /\ ack' = ack /\ mpState' = mpState /\ mp' = mp /\ isProt' = isProt
      /\ isDirty' = isDirty /\ lost' = lost /\ dirtyLock' = dirtyLock /\ port' = port
      /\ wasStored' = wasStored
  BY DEF Blocking, stopVars, excVars, pageVars
<1>m. t # Me /\ suspCount[t] = 0 /\ ~GC_query_task_threads /\ gp = "idle"
  BY DEF Blocking
<1>t. DTypes
  BY DEF DInv
<1>f. ctl \in [DThread -> {"run", "fault", "blocking", "none", "gone"}]
  BY <1>t, DFlat
<1>1. /\ ctl' \in [DThread -> {"run", "fault", "blocking", "none", "gone"}]
      /\ ctl[t] \in {"run", "blocking"} /\ ctl'[t] \in {"run", "blocking"}
      /\ \A x \in DThread : x # t => ctl'[x] = ctl[x]
  BY <1>f DEF Blocking
<1>2. DTypes'
  BY <1>1, <1>u, <1>t DEF DTypes
<1>3. DThreads'
  BY <1>1, <1>u, <1>m DEF DInv, DThreads
<1>4. DFaults'
  <2>1. ctl'[Me] # "fault"
    BY <1>1, DNames DEF DInv, DFaults
  <2>2. \A x \in DThread : ctl'[x] = "fault" <=> ctl[x] = "fault"
    BY <1>1
  <2> QED
    BY <2>1, <2>2, <1>u, <1>t, DFlat DEF DInv, DFaults
<1>5. DMessages' /\ DPage' /\ DStill'
  BY <1>u, <1>m DEF DInv, DMessages, DPage, DStill
<1>6. DRecords' /\ DListed' /\ DWalk' /\ DResume'
  BY <1>u, <1>m DEF DRecords, DListed, DWalk, DResume
<1> QED
  BY <1>2, <1>3, <1>4, <1>5, <1>6 DEF DInv

\* A thread is created or ends: the lists of the collector keep their order.
LEMMA DTasksChange ==
  ASSUME DInv, NEW t \in DThread, Moves(t),
         GC_query_task_threads' = GC_query_task_threads,
         suspCount' = suspCount, gp' = gp, lists' = lists, machThreads' = machThreads,
         \A x \in DThread : ctl[x] = "gone" => ctl'[x] = "gone",
         \A x \in DThread : ctl'[x] = "none" => ctl[x] = "none",
         \A old \in Seq(DThread) :
           Follows(old, tasks) /\ (\A i \in 1..Len(old) : ctl[old[i]] # "none")
           => Follows(old, tasks')
  PROVE  DStill' /\ DRecords' /\ DListed' /\ DWalk' /\ DResume'
<1>m. /\ gp \in {"idle", "list", "suspend", "resume"}
      /\ InList(tasks, t) /\ ctl[t] = "run" /\ suspCount[t] = 0 /\ t # Me
  BY DMoves
<1>t. DTypes
  BY DEF DInv
<1>0. DStill'
  BY <1>m DEF DStill
<1>1. DRecords' /\ DResume'
  BY DEF DInv, DRecords, DResume, InList
<1>2. /\ \A i \in 1..Len(lists.prev) : lists.prev[i] \in DThread
      /\ \A i \in 1..Len(lists.act) : lists.act[i] \in DThread
      /\ \A i \in 1..Len(machThreads) : machThreads[i].thread \in DThread
      /\ lists.prev \in Seq(DThread) /\ lists.act \in Seq(DThread)
  BY <1>t, DFlat
<1>3. DPrev(lists.prev) => DPrev(lists.prev)'
  BY <1>2 DEF DPrev, Held
<1>4. ASSUME GC_query_task_threads, gp = "list" PROVE Follows(lists.prev, tasks)'
  BY <1>4, <1>2 DEF DInv, DListed, DPrev
<1>5. ASSUME GC_query_task_threads, gp = "suspend" PROVE Follows(lists.act, tasks)'
  BY <1>5, <1>2 DEF DInv, DWalk
<1>6. \A x : /\ InList(lists.prev, x)' <=> InList(lists.prev, x)
             /\ InList(lists.act, x)' <=> InList(lists.act, x)
  BY DEF InList
<1>7. DListed'
  BY <1>2, <1>3, <1>4, <1>6 DEF DInv, DListed
<1>8. ASSUME GC_query_task_threads, gp = "suspend" PROVE ~AllOld'
  <2>1. ~AllOld
    BY <1>8, <1>m DEF DInv, DWalk
  <2> QED
    BY <2>1, <1>6 DEF AllOld
<1>9. \A x \in DThread : Held(x) => Held(x)'
  BY DEF Held
<1>10. DWalk'
  <2>1. SUFFICES ASSUME GC_query_task_threads, gp = "suspend" PROVE DWalk'
    BY DEF DWalk
  <2>2. DWalk
    BY DEF DInv
  <2>3. Follows(lists.prev, lists.act)' <=> Follows(lists.prev, lists.act)
    BY DEF Follows
  <2> QED
    BY <2>1, <2>2, <2>3, <1>2, <1>3, <1>5, <1>6, <1>8, <1>9 DEF DWalk
<1> QED
  BY <1>0, <1>1, <1>7, <1>10

LEMMA DCreateKeeps ==
  ASSUME DInv, NEW t \in DThread, NEW u \in DThread, Create(t, u)
  PROVE  DInv'
<1>u. /\ GC_query_task_threads' = GC_query_task_threads
      /\ suspCount' = suspCount /\ gp' = gp /\ lists' = lists /\ machThreads' = machThreads
      /\ nCycles' = nCycles /\ ack' = ack /\ mpState' = mpState /\ mp' = mp /\ isProt' = isProt
      /\ isDirty' = isDirty /\ lost' = lost /\ dirtyLock' = dirtyLock /\ port' = port
      /\ wasStored' = wasStored
  BY DEF Create, stopVars, excVars, pageVars
<1>a. Moves(t) /\ ctl[u] = "none" /\ tasks' = Append(tasks, u) /\ ctl' = [ctl EXCEPT ![u] = "run"]
  BY DEF Create
<1>t. DTypes
  BY DEF DInv
<1>f. ctl \in [DThread -> {"run", "fault", "blocking", "none", "gone"}] /\ tasks \in Seq(DThread)
  BY <1>t, DFlat
<1>1. /\ ctl' \in [DThread -> {"run", "fault", "blocking", "none", "gone"}]
      /\ \A x \in DThread : ctl'[x] = IF x = u THEN "run" ELSE ctl[x]
  BY <1>a, <1>f
<1>2. IsInjective(tasks) /\ ~InList(tasks, u)
  BY <1>a DEF DInv, DThreads
<1>3. /\ tasks' \in Seq(DThread) /\ IsInjective(tasks')
      /\ \A y : InList(tasks', y) <=> InList(tasks, y) \/ y = u
  BY <1>a, <1>f, <1>2, InAppended, AppendIs
<1>4. DTypes'
  BY <1>1, <1>3, <1>u, <1>t DEF DTypes
<1>5. DThreads'
  BY <1>1, <1>3, <1>a, <1>u DEF DInv, DThreads
<1>6. DFaults'
  <2>1. \A x \in DThread : ctl'[x] = "fault" <=> ctl[x] = "fault"
    BY <1>1, <1>a
  <2> QED
    BY <2>1, <1>u, <1>t, DFlat, DNames DEF DInv, DFaults
<1>7. DMessages' /\ DPage'
  BY <1>u DEF DInv, DMessages, DPage, Quiet
<1>8. ASSUME NEW old \in Seq(DThread), Follows(old, tasks),
             \A i \in 1..Len(old) : ctl[old[i]] # "none"
      PROVE  Follows(old, tasks')
  <2>1. \A i \in 1..Len(old) : old[i] # u
    BY <1>8, <1>a
  <2> QED
    BY <2>1, <1>8, <1>a, <1>f, FollowsAppend
<1>9. DStill' /\ DRecords' /\ DListed' /\ DWalk' /\ DResume'
  <2>1. \A x \in DThread : /\ ctl[x] = "gone" => ctl'[x] = "gone"
                           /\ ctl'[x] = "none" => ctl[x] = "none"
    BY <1>1, <1>a
  <2> QED
    BY <2>1, <1>8, <1>a, <1>u, DTasksChange
<1> QED
  BY <1>4, <1>5, <1>6, <1>7, <1>9 DEF DInv

LEMMA DExitKeeps ==
  ASSUME DInv, NEW t \in DThread, Exit(t)
  PROVE  DInv'
<1>u. /\ GC_query_task_threads' = GC_query_task_threads
      /\ suspCount' = suspCount /\ gp' = gp /\ lists' = lists /\ machThreads' = machThreads
      /\ nCycles' = nCycles /\ ack' = ack /\ mpState' = mpState /\ mp' = mp /\ isProt' = isProt
      /\ isDirty' = isDirty /\ lost' = lost /\ dirtyLock' = dirtyLock /\ port' = port
      /\ wasStored' = wasStored
  BY DEF Exit, stopVars, excVars, pageVars
<1>a. Moves(t) /\ tasks' = RemoveFirst(tasks, t) /\ ctl' = [ctl EXCEPT ![t] = "gone"]
  BY DEF Exit
<1>m. ctl[t] = "run" /\ suspCount[t] = 0 /\ t # Me
  BY <1>a, DMoves
<1>t. DTypes
  BY DEF DInv
<1>f. ctl \in [DThread -> {"run", "fault", "blocking", "none", "gone"}] /\ tasks \in Seq(DThread)
  BY <1>t, DFlat
<1>1. /\ ctl' \in [DThread -> {"run", "fault", "blocking", "none", "gone"}]
      /\ \A x \in DThread : ctl'[x] = IF x = t THEN "gone" ELSE ctl[x]
  BY <1>a, <1>f
<1>2. IsInjective(tasks)
  BY DEF DInv, DThreads
<1>3. /\ tasks' \in Seq(DThread) /\ IsInjective(tasks')
      /\ \A y : InList(tasks', y) <=> InList(tasks, y) /\ y # t
  BY <1>a, <1>f, <1>2, InUnlinked
<1>4. DTypes'
  BY <1>1, <1>3, <1>u, <1>t DEF DTypes
<1>5. DThreads'
  BY <1>1, <1>3, <1>m, <1>u DEF DInv, DThreads
<1>6. DFaults'
  <2>1. \A x \in DThread : ctl'[x] = "fault" <=> ctl[x] = "fault"
    BY <1>1, <1>m
  <2> QED
    BY <2>1, <1>u, <1>t, DFlat, DNames DEF DInv, DFaults
<1>7. DMessages' /\ DPage'
  BY <1>u DEF DInv, DMessages, DPage, Quiet
<1>8. ASSUME NEW old \in Seq(DThread), Follows(old, tasks),
             \A i \in 1..Len(old) : ctl[old[i]] # "none"
      PROVE  Follows(old, tasks')
  BY <1>8, <1>a, <1>f, FollowsUnlinked
<1>9. DStill' /\ DRecords' /\ DListed' /\ DWalk' /\ DResume'
  <2>1. \A x \in DThread : /\ ctl[x] = "gone" => ctl'[x] = "gone"
                           /\ ctl'[x] = "none" => ctl[x] = "none"
    BY <1>1, <1>m
  <2> QED
    BY <2>1, <1>8, <1>a, <1>u, DTasksChange
<1> QED
  BY <1>4, <1>5, <1>6, <1>7, <1>9 DEF DInv

\* The answer to a fault: the thread goes on.
LEMMA DAnswered ==
  ASSUME DInv, NEW t \in DThread, ctl[t] = "fault", ctl' = Answered(t),
         GC_query_task_threads' = GC_query_task_threads, tasks' = tasks,
         suspCount' = suspCount, gp' = gp, lists' = lists, machThreads' = machThreads
  PROVE  /\ \A x \in DThread : ctl'[x] = IF x = t THEN "run" ELSE ctl[x]
         /\ ctl' \in [DThread -> {"run", "fault", "blocking", "none", "gone"}]
         /\ DThreads' /\ DStill' /\ DRecords' /\ DListed' /\ DWalk' /\ DResume'
<1>t. DTypes
  BY DEF DInv
<1>f. ctl \in [DThread -> {"run", "fault", "blocking", "none", "gone"}]
  BY <1>t, DFlat
<1>1. /\ ctl' \in [DThread -> {"run", "fault", "blocking", "none", "gone"}]
      /\ \A x \in DThread : ctl'[x] = IF x = t THEN "run" ELSE ctl[x]
  BY <1>f DEF Answered
<1>2. DThreads'
  BY <1>1 DEF DInv, DThreads
<1>3. DStill'
  <2>1. \A x \in DThread : InList(tasks', x) <=> InList(tasks, x)
    BY DEF InList
  <2> QED
    BY <2>1, <1>1 DEF DInv, DStill
<1>4. \A x \in DThread : /\ ctl'[x] = "gone" <=> ctl[x] = "gone"
                         /\ ctl'[x] = "none" <=> ctl[x] = "none"
  BY <1>1
<1>5. DRecords' /\ DListed' /\ DWalk' /\ DResume'
  BY <1>4, <1>t, DFrame DEF DInv
<1> QED
  BY <1>1, <1>2, <1>3, <1>5

LEMMA DMprotectKeeps ==
  ASSUME DInv, MprotectThread
  PROVE  DInv'
<1>u. /\ GC_query_task_threads' = GC_query_task_threads /\ tasks' = tasks
      /\ suspCount' = suspCount /\ gp' = gp /\ lists' = lists /\ machThreads' = machThreads
      /\ nCycles' = nCycles /\ isProt' = isProt
      /\ isDirty' = isDirty /\ lost' = lost /\ dirtyLock' = dirtyLock /\ wasStored' = wasStored
  BY DEF MprotectThread, stopVars, pageVars
<1>t. DTypes
  BY DEF DInv
<1>f. /\ ctl \in [DThread -> {"run", "fault", "blocking", "none", "gone"}]
      /\ port \in Seq(DThread \cup {STOP, RESUME}) /\ IsInjective(port) /\ Len(port) \in Nat
      /\ mp \in [on : DThread \cup {NoThr}, step : 0..4]
      /\ gp \in DPhases /\ dirtyLock \in BOOLEAN
  BY <1>t, DFlat DEF DInv, DFaults
<1>h. /\ mp.on = NoThr /\ mp.step = 0 /\ dirtyLock = FALSE
  BY <1>f DEF MprotectThread, DInv, DFaults
<1>p. port # <<>> => /\ Tail(port) \in Seq(DThread \cup {STOP, RESUME}) /\ IsInjective(Tail(port))
                     /\ InList(port, Head(port)) /\ Head(port) \in DThread \cup {STOP, RESUME}
                     /\ \A y : InList(Tail(port), y) <=> InList(port, y) /\ y # Head(port)
                     /\ Len(Tail(port)) = Len(port) - 1 /\ Len(port) >= 1 /\ Head(port) = port[1]
                     /\ \A j \in 1..Len(port) - 1 : Tail(port)[j] = port[j + 1]
  BY <1>f, InTail, TailIs
<1>d. ctl' = ctl => DThreads' /\ DStill' /\ DRecords' /\ DListed' /\ DWalk' /\ DResume'
  <2>1. ctl' = ctl => DThreads' /\ DStill'
    BY <1>u DEF DInv, DThreads, DStill
  <2>2. ctl' = ctl => DRecords' /\ DListed' /\ DWalk' /\ DResume'
    BY <1>u, <1>t, DFrame DEF DInv
  <2> QED
    BY <2>1, <2>2
<1>0. port = <<>> => ~InList(port, STOP) /\ ~InList(port, RESUME)
  BY DEF InList
<1>1. CASE /\ mpState = "discarding" /\ port = <<>>
           /\ mpState' = "stopped" /\ Reply /\ UNCHANGED <<port, mp, ctl>>
  <2>1. gp = "stopping" /\ ack' = TRUE
    BY <1>1, <1>f DEF DInv, DMessages, DPhases, Reply
  <2>2. DTypes'
    BY <2>1, <1>1, <1>u, <1>t DEF DTypes
  <2>3. DFaults' /\ DPage'
    BY <1>1, <1>u DEF DInv, DFaults, DPage
  <2>4. DMessages'
    BY <2>1, <1>1, <1>u, <1>h DEF DMessages, Quiet
  <2> QED
    BY <2>2, <2>3, <2>4, <1>1, <1>d DEF DInv
<1>2. CASE /\ port # <<>> /\ Head(port) = STOP
           /\ mpState' = IF mpState = "normal" THEN "discarding" ELSE "abort"
           /\ port' = Tail(port) /\ UNCHANGED <<ack, mp, ctl>>
  <2>1. /\ gp = "stopping" /\ mpState = "normal" /\ ~ack /\ ~InList(port, RESUME)
        /\ port[Len(port)] = STOP
    BY <1>2, <1>p, <1>f, DNames DEF DInv, DMessages, DPhases, Quiet
  <2>2. Len(port) = 1
    <3>1. 1 \in 1..Len(port) /\ Len(port) \in 1..Len(port) /\ port[1] = port[Len(port)]
      BY <2>1, <1>2, <1>p, <1>f
    <3>2. \A i, j \in 1..Len(port) : port[i] = port[j] => i = j
      BY <1>f, InListIs
    <3> QED
      BY <3>1, <3>2
  <2>3. port' = <<>> /\ mpState' = "discarding"
    <3>1. Len(Tail(port)) = 0
      BY <2>2, <1>2, <1>p
    <3> QED
      BY <3>1, <2>1, <1>2, <1>p
  <2>4. DTypes'
    BY <2>3, <1>2, <1>p, <1>u, <1>t DEF DTypes
  <2>5. DFaults'
    <3>1. \A x \in DThread : InList(port', x) <=> InList(port, x)
      BY <1>2, <1>p, DNames
    <3> QED
      BY <3>1, <1>2, <1>p, <1>u DEF DInv, DFaults
  <2>6. DPage'
    BY <1>2, <1>u DEF DInv, DPage
  <2>7. DMessages'
    BY <2>1, <2>3, <1>2, <1>u, <1>h DEF DMessages, Quiet
  <2> QED
    BY <2>4, <2>5, <2>6, <2>7, <1>2, <1>d DEF DInv
<1>3. CASE /\ port # <<>> /\ Head(port) = RESUME
           /\ mpState' = IF mpState = "stopped" THEN "normal" ELSE "abort"
           /\ port' = Tail(port) /\ Reply /\ UNCHANGED <<mp, ctl>>
  <2>1. gp = "resuming" /\ mpState = "stopped" /\ ~ack /\ Len(port) = 1
    BY <1>3, <1>p, <1>f, DNames DEF DInv, DMessages, DPhases, Quiet
  <2>3. port' = <<>> /\ mpState' = "normal" /\ ack' = TRUE
    <3>1. Len(Tail(port)) = 0
      BY <2>1, <1>3, <1>p
    <3> QED
      BY <3>1, <2>1, <1>3, <1>p DEF Reply
  <2>4. DTypes'
    BY <2>3, <1>3, <1>p, <1>u, <1>t DEF DTypes
  <2>5. DFaults'
    <3>1. \A x \in DThread : InList(port', x) <=> InList(port, x)
      BY <1>3, <1>p, DNames
    <3> QED
      BY <3>1, <1>3, <1>p, <1>u DEF DInv, DFaults
  <2>6. DPage'
    BY <1>3, <1>u DEF DInv, DPage
  <2>7. DMessages'
    BY <2>1, <2>3, <1>3, <1>u, <1>h DEF DMessages, Quiet
  <2> QED
    BY <2>4, <2>5, <2>6, <2>7, <1>3, <1>d DEF DInv
<1>4. CASE /\ port # <<>> /\ Head(port) \notin {STOP, RESUME}
           /\ port' = Tail(port) /\ UNCHANGED ack
           /\ \/ mpState = "normal" /\ mp' = [on |-> Head(port), step |-> 1]
                 /\ UNCHANGED <<mpState, ctl>>
              \/ mpState = "discarding" /\ ctl' = Answered(Head(port))
                 /\ UNCHANGED <<mpState, mp>>
              \/ mpState = "stopped" /\ mpState' = "abort" /\ UNCHANGED <<mp, ctl>>
  <2>1. Head(port) \in DThread /\ ctl[Head(port)] = "fault"
    BY <1>4, <1>p DEF DInv, DFaults
  <2>2. mpState = "normal"
    BY <1>4, <2>1, <1>p, <1>f, DNames DEF DInv, DMessages, DPhases, Quiet
  <2>3. mp' = [on |-> Head(port), step |-> 1] /\ mpState' = mpState /\ ctl' = ctl
    BY <1>4, <2>2
  <2>4. mp'.on = Head(port) /\ mp'.step = 1 /\ mp' \in [on : DThread \cup {NoThr}, step : 0..4]
    BY <2>1, <2>3
  <2>5. DTypes'
    BY <2>3, <2>4, <1>4, <1>p, <1>u, <1>t DEF DTypes
  <2>6. DFaults'
    <3>1. \A x \in DThread : InList(port', x) <=> ctl'[x] = "fault" /\ mp'.on # x
      BY <2>1, <2>3, <2>4, <1>4, <1>p, <1>h, DNames DEF DInv, DFaults
    <3> QED
      BY <3>1, <2>1, <2>3, <2>4, <1>4, <1>p, <1>u, <1>h, DNames DEF DInv, DFaults
  <2>7. DPage'
    BY <2>4, <1>u, <1>h DEF DInv, DPage
  <2>8. DMessages'
    <3>1. ASSUME gp = "stopping" PROVE port' # <<>> /\ port'[Len(port')] = STOP
      <4>1. port[Len(port)] = STOP /\ ~InList(port, RESUME)
        BY <3>1, <2>2, <1>4, <1>f DEF DInv, DMessages, Quiet
      <4>2. Len(port) # 1
        BY <4>1, <1>4, <1>p
      <4>3. /\ Len(port) - 1 \in 1..Len(port) - 1 /\ (Len(port) - 1) + 1 = Len(port)
            /\ Len(Tail(port)) = Len(port) - 1 /\ Len(Tail(port)) >= 1
        BY <4>2, <1>4, <1>p, <1>f
      <4>4. Tail(port) # <<>>
        <5>1. Tail(port) \in Seq(DThread \cup {STOP, RESUME})
          BY <1>4, <1>p
        <5> QED
          BY <5>1, <4>3
      <4> QED
        BY <4>1, <4>3, <4>4, <1>4, <1>p
    <3>2. gp # "resuming" /\ gp \notin {"stopped", "mprotect_resume"}
      BY <2>2, <1>4, <1>f DEF DInv, DMessages, Quiet
    <3>3. /\ ~InList(port, RESUME) => ~InList(port', RESUME)
          /\ ~InList(port, STOP) => ~InList(port', STOP)
      BY <1>4, <1>p
    <3> QED
      BY <3>1, <3>2, <3>3, <2>2, <2>3, <1>4, <1>u, <1>f DEF DInv, DMessages, Quiet
  <2> QED
    BY <2>3, <2>5, <2>6, <2>7, <2>8, <1>d DEF DInv
<1> QED
  BY <1>1, <1>2, <1>3, <1>4 DEF MprotectThread

LEMMA DCatchKeeps ==
  ASSUME DInv, catch_exception_raise
  PROVE  DInv'
<1>u. /\ GC_query_task_threads' = GC_query_task_threads /\ tasks' = tasks
      /\ suspCount' = suspCount /\ gp' = gp /\ lists' = lists /\ machThreads' = machThreads
      /\ nCycles' = nCycles /\ lost' = lost /\ wasStored' = wasStored
      /\ port' = port /\ ack' = ack /\ mpState' = mpState
  BY DEF catch_exception_raise, stopVars
<1>t. DTypes
  BY DEF DInv
<1>f. /\ ctl \in [DThread -> {"run", "fault", "blocking", "none", "gone"}]
      /\ mp \in [on : DThread \cup {NoThr}, step : 0..4]
      /\ mp.on \in DThread \cup {NoThr} /\ mp.step \in 0..4
      /\ gp \in DPhases /\ dirtyLock \in BOOLEAN /\ isProt \in BOOLEAN /\ isDirty \in BOOLEAN
  BY <1>t, DFlat
<1>h. mp.on # NoThr /\ mp.on \in DThread /\ mp.step # 0 /\ ctl[mp.on] = "fault"
  BY <1>f DEF catch_exception_raise, DInv, DFaults
<1>d. ctl' = ctl => DThreads' /\ DStill' /\ DRecords' /\ DListed' /\ DWalk' /\ DResume'
  <2>1. ctl' = ctl => DThreads' /\ DStill'
    BY <1>u DEF DInv, DThreads, DStill
  <2>2. ctl' = ctl => DRecords' /\ DListed' /\ DWalk' /\ DResume'
    BY <1>u, <1>t, DFrame DEF DInv
  <2> QED
    BY <2>1, <2>2
<1>g. gp \notin {"stopped", "mprotect_resume", "resuming"} /\ (gp = "stopping" => mpState = "normal")
  BY <1>h DEF DInv, DMessages, Quiet
<1>m. DMessages'
  BY <1>u, <1>g DEF DInv, DMessages, Quiet
<1>1. CASE mp.step \in 1..3
  <2>1. /\ ctl' = ctl /\ mp' = [mp EXCEPT !.step = @ + 1]
        /\ mp.step # 1 => isProt' = isProt
        /\ mp.step = 1 => isProt' = FALSE
        /\ mp.step # 3 => isDirty' = isDirty
        /\ mp.step = 3 => isDirty' = TRUE
        /\ mp.step = 1 => dirtyLock' = dirtyLock
        /\ mp.step = 2 => dirtyLock' = TRUE
        /\ mp.step = 3 => dirtyLock' = FALSE
    BY <1>1, <1>f DEF catch_exception_raise
  <2>2. /\ mp' \in [on : DThread \cup {NoThr}, step : 0..4]
        /\ mp'.on = mp.on /\ mp'.step = mp.step + 1
    BY <2>1, <1>1, <1>f
  <2>3. isProt' \in BOOLEAN /\ isDirty' \in BOOLEAN /\ dirtyLock' \in BOOLEAN
    <3>1. mp.step = 1 \/ mp.step = 2 \/ mp.step = 3
      BY <1>1
    <3>2. isProt' = FALSE \/ isProt' = isProt
      BY <2>1, <3>1
    <3>3. isDirty' = TRUE \/ isDirty' = isDirty
      BY <2>1, <3>1
    <3>4. dirtyLock' = TRUE \/ dirtyLock' = FALSE \/ dirtyLock' = dirtyLock
      BY <2>1, <3>1
    <3> QED
      BY <3>2, <3>3, <3>4, <1>f
  <2>4. DTypes'
    BY <2>1, <2>2, <2>3, <1>u, <1>t DEF DTypes
  <2>5. DFaults'
    <3>1. mp'.step # 0
      BY <2>2, <1>1
    <3>2. dirtyLock' <=> mp'.step = 3
      BY <2>1, <2>2, <1>1, <1>f DEF DInv, DFaults
    <3> QED
      BY <3>1, <3>2, <2>1, <2>2, <1>h, <1>u DEF DInv, DFaults
  <2>6. DPage'
    BY <2>1, <2>2, <1>1, <1>u, <1>f DEF DInv, DPage
  <2> QED
    BY <2>1, <2>4, <2>5, <2>6, <1>d, <1>m DEF DInv
<1>2. CASE mp.step = 4
  <2>1. /\ ctl' = Answered(mp.on) /\ mp' = [on |-> NoThr, step |-> 0]
        /\ isProt' = isProt /\ isDirty' = isDirty /\ dirtyLock' = dirtyLock
    BY <1>2, <1>f DEF catch_exception_raise
  <2>2. mp'.on = NoThr /\ mp'.step = 0 /\ mp' \in [on : DThread \cup {NoThr}, step : 0..4]
    BY <2>1
  <2>3. /\ \A x \in DThread : ctl'[x] = IF x = mp.on THEN "run" ELSE ctl[x]
        /\ ctl' \in [DThread -> {"run", "fault", "blocking", "none", "gone"}]
        /\ DThreads' /\ DStill' /\ DRecords' /\ DListed' /\ DWalk' /\ DResume'
    BY <2>1, <1>h, <1>u, DAnswered
  <2>4. DTypes'
    BY <2>1, <2>2, <2>3, <1>u, <1>t DEF DTypes
  <2>5. DFaults'
    <3>1. \A x \in DThread : InList(port', x) <=> ctl'[x] = "fault" /\ mp'.on # x
      BY <2>2, <2>3, <1>u, <1>h, DNames DEF DInv, DFaults
    <3>2. ctl'[Me] # "fault"
      BY <2>3, DNames DEF DInv, DFaults
    <3>3. dirtyLock' <=> mp'.step = 3
      BY <2>1, <2>2, <1>2 DEF DInv, DFaults
    <3> QED
      BY <3>1, <3>2, <3>3, <2>2, <1>u DEF DInv, DFaults
  <2>6. DPage'
    BY <2>1, <2>2, <1>2, <1>u, <1>f DEF DInv, DPage
  <2> QED
    BY <2>3, <2>4, <2>5, <2>6, <1>m DEF DInv
<1> QED
  BY <1>1, <1>2, <1>f, <1>h

-----------------------------------------------------------------------------
\* Steps of the collector while GC_mprotect_thread has no message from it.
Calm == {"idle", "list", "suspend", "mprotect_stop", "resume"}
LEMMA DExcFrame ==
  ASSUME DInv, gp \in Calm, gp' \in Calm, ctl' = ctl, port' = port, ack' = ack,
         mpState' = mpState, mp' = mp, dirtyLock' = dirtyLock, isProt' = isProt,
         isDirty' = isDirty, wasStored' = wasStored, lost' = lost
  PROVE  DFaults' /\ DMessages' /\ DPage'
<1>1. DFaults' /\ DPage'
  BY DEF DInv, DFaults, DPage
<1>2. mpState = "normal" /\ ~ack /\ ~InList(port, STOP) /\ ~InList(port, RESUME)
  BY DEF DInv, DMessages, Calm
<1> QED
  BY <1>1, <1>2 DEF DMessages, Calm

LEMMA NoListsIs ==
  /\ NoLists \in DLists /\ NoLists.act = <<>> /\ NoLists.prev = <<>> /\ NoLists.at = 1
  /\ NoLists.j = 0 /\ NoLists.changed = FALSE
BY DEF NoLists, DLists

LEMMA DStopKeeps ==
  ASSUME DInv, GC_stop_world_darwin
  PROVE  DInv'
<1>u. /\ GC_query_task_threads' = GC_query_task_threads /\ tasks' = tasks
      /\ suspCount' = suspCount /\ ctl' = ctl /\ port' = port /\ ack' = ack
      /\ mpState' = mpState /\ mp' = mp /\ dirtyLock' = dirtyLock /\ isProt' = isProt
      /\ isDirty' = isDirty /\ wasStored' = wasStored /\ lost' = lost
  BY DEF GC_stop_world_darwin, excVars, pageVars
<1>a. /\ gp = "idle" /\ nCycles < MaxCycles /\ gp' = "list" /\ lists' = NoLists
      /\ machThreads' = <<>> /\ nCycles' = nCycles + 1
  BY DEF GC_stop_world_darwin
<1>t. DTypes
  BY DEF DInv
<1>1. DTypes'
  <2>1. nCycles' \in 0..MaxCycles
    BY <1>a, <1>t, DFlat, DarwinAssumption
  <2>2. lists' \in DLists /\ lists'.at \in 1..Len(lists'.act) + 1 /\ machThreads' \in Seq(DRecord)
    BY <1>a, NoListsIs
  <2>3. gp' \in DPhases
    BY <1>a DEF DPhases
  <2> QED
    BY <2>1, <2>2, <2>3, <1>u, <1>t DEF DTypes
<1>2. DThreads'
  BY <1>u, <1>a DEF DInv, DThreads
<1>3. DFaults' /\ DMessages' /\ DPage'
  BY <1>u, <1>a, DExcFrame DEF Calm
<1>4. \A x \in DThread : suspCount[x] # 1
  BY <1>a DEF DInv, DThreads
<1>5. DStill' /\ DWalk' /\ DResume'
  BY <1>a DEF DStill, DWalk, DResume
<1>6. DRecords'
  BY <1>u, <1>a, <1>4 DEF DRecords
<1>7. DListed'
  <2>1. lists'.prev = <<>> /\ Len(<<>>) = 0
    BY <1>a, NoListsIs
  <2>2. Follows(<<>>, tasks')
    BY FollowsNone
  <2>3. DPrev(lists.prev)'
    <3>1. IsInjective(<<>>)
      BY DEF IsInjective
    <3> QED
      BY <2>1, <3>1 DEF DPrev
  <2> QED
    BY <2>1, <2>2, <2>3, <1>u, <1>a, <1>4 DEF DListed
<1> QED
  BY <1>1, <1>2, <1>3, <1>5, <1>6, <1>7 DEF DInv

LEMMA GetListKeeps ==
  ASSUME DInv, GetList
  PROVE  DInv'
<1>u. /\ GC_query_task_threads' = GC_query_task_threads /\ tasks' = tasks
      /\ suspCount' = suspCount /\ ctl' = ctl /\ port' = port /\ ack' = ack
      /\ mpState' = mpState /\ mp' = mp /\ dirtyLock' = dirtyLock /\ isProt' = isProt
      /\ isDirty' = isDirty /\ wasStored' = wasStored /\ lost' = lost
      /\ machThreads' = machThreads /\ nCycles' = nCycles
  BY DEF GetList, excVars, pageVars
<1>a. gp = "list" /\ gp' = "suspend" /\ lists' = task_threads
  BY DEF GetList
<1>t. DTypes
  BY DEF DInv
<1>f. /\ tasks \in Seq(DThread) /\ Len(tasks) \in Nat /\ lists \in DLists
      /\ machThreads \in Seq(DRecord)
      /\ \A i \in 1..Len(machThreads) : machThreads[i].thread \in DThread
      /\ lists.prev \in Seq(DThread)
  BY <1>t, DFlat
<1>l. /\ lists' \in DLists /\ lists'.act = tasks /\ lists'.at = 1 /\ lists'.j = 0
      /\ lists'.changed = FALSE /\ lists'.prev = lists.prev
  BY <1>a, <1>f DEF task_threads, DLists
<1>1. DTypes'
  <2>1. lists'.at \in 1..Len(lists'.act) + 1
    BY <1>l, <1>f
  <2>2. gp' \in DPhases
    BY <1>a DEF DPhases
  <2> QED
    BY <2>1, <2>2, <1>l, <1>u, <1>t DEF DTypes
<1>2. DThreads'
  BY <1>u, <1>a DEF DInv, DThreads
<1>3. DFaults' /\ DMessages' /\ DPage'
  BY <1>u, <1>a, DExcFrame DEF Calm
<1>4. DStill' /\ DListed' /\ DResume'
  BY <1>a DEF DStill, DListed, DResume
<1>5. DRecords'
  BY <1>u, <1>a DEF DInv, DRecords
<1>6. DWalk'
  <2> SUFFICES ASSUME GC_query_task_threads PROVE DWalk'
    BY <1>u DEF DWalk
  <2>1. /\ DPrev(lists.prev) /\ Follows(lists.prev, tasks)
        /\ \A x \in DThread : suspCount[x] = 1 => InList(lists.prev, x)
        /\ \A i \in 1..Len(machThreads) :
             ~machThreads[i].suspended => ctl[machThreads[i].thread] = "gone"
    BY <1>a DEF DInv, DListed
  <2>2. /\ IsInjective(tasks)
        /\ \A x \in DThread : InList(tasks, x) <=> ctl[x] \in {"run", "fault", "blocking"}
        /\ \A x \in DThread : suspCount[x] = 1 => InList(tasks, x)
    BY DEF DInv, DThreads
  <2>3. DPrev(lists.prev)'
    BY <2>1, <1>l, <1>u DEF DPrev, Held
  <2>4. Follows(lists.prev, lists.act)' /\ Follows(lists.act, tasks)' /\ IsInjective(lists.act')
    BY <2>1, <2>2, <1>l, <1>u, <1>f, FollowsSelf
  <2>5. \A k \in 1..Len(tasks) : tasks[k] \in DThread /\ InList(tasks, tasks[k])
    BY <1>f DEF InList
  <2>6. \A k \in 1..Len(tasks) : ctl[tasks[k]] # "none" /\ ctl[tasks[k]] # "gone"
    BY <2>2, <2>5
  <2>7. \A k \in 1..Len(tasks) : ~(k < 1)
    BY <1>f
  <2>8. ASSUME NEW x \in DThread, suspCount[x] = 1
        PROVE  \E k \in 1..Len(tasks) : tasks[k] = x /\ (k < 1 \/ InList(lists.prev, x))
    BY <2>8, <2>1, <2>2 DEF InList
  <2>9. ASSUME AllOld', NEW x \in DThread, InList(tasks, x), x # Me PROVE suspCount[x] = 1
    <3>1. PICK k \in 1..Len(tasks) : tasks[k] = x
      BY <2>9 DEF InList
    <3>2. InList(lists.prev, x)
      BY <2>9, <3>1, <1>l DEF AllOld
    <3>3. Held(x)
      BY <3>2, <2>1, <2>9 DEF DPrev, InList
    <3> QED
      BY <3>3, <2>6, <3>1 DEF Held
  <2>10. \A i \in 1..Len(lists.prev) : 0 < i
    BY <1>f
  <2>11. \A i \in 1..Len(machThreads) : ~machThreads[i].suspended =>
           \A k \in 1..Len(tasks) : tasks[k] # machThreads[i].thread
    BY <2>1, <2>6
  <2> QED
    BY <2>1, <2>3, <2>4, <2>6, <2>7, <2>8, <2>9, <2>10, <2>11, <1>u, <1>l DEF DWalk
<1> QED
  BY <1>1, <1>2, <1>3, <1>4, <1>5, <1>6 DEF DInv

\* The search for a thread in the previous list, from the last find on.
LEMMA SearchIs ==
  ASSUME NEW old \in Seq(DThread), IsInjective(old), NEW x, NEW j \in Nat
  PROVE  /\ \A i \in 1..Len(old) : old[i] = x /\ j < i =>
              Search(x, old, j) = i /\ FoundAt(x, old, j, Search(x, old, j))
         /\ ~InList(old, x) => Search(x, old, j) \in Nat /\ ~FoundAt(x, old, j, Search(x, old, j))
<1> DEFINE later == {k \in j + 1..Len(old) : old[k] = x}
           earlier == {k \in 1..j - 1 : old[k] = x}
<1>n. Len(old) \in Nat
  OBVIOUS
<1>0. Search(x, old, j) =
        IF later # {} THEN CHOOSE k \in later : \A n \in later : k <= n
        ELSE IF earlier # {} THEN CHOOSE k \in earlier : \A n \in earlier : k <= n
        ELSE IF j = 0 THEN 1 ELSE j
  BY DEF Search
<1>1. ASSUME NEW i \in 1..Len(old), old[i] = x, j < i
      PROVE  Search(x, old, j) = i /\ FoundAt(x, old, j, Search(x, old, j))
  <2>1. \A k, l \in 1..Len(old) : old[k] = old[l] => k = l
    BY InListIs
  <2>2. \A k \in later : k \in 1..Len(old) /\ old[k] = old[i]
    BY <1>1, <1>n
  <2>3. i \in later
    BY <1>1, <1>n
  <2>4. later = {i}
    <3> HIDE DEF later
    <3> QED
      BY <2>1, <2>2, <2>3
  <2>5. (CHOOSE k \in later : \A n \in later : k <= n) = i
    BY <2>4
  <2>6. Search(x, old, j) = i
    <3> HIDE DEF later, earlier
    <3> QED
      BY <2>3, <2>5, <1>0
  <2> QED
    BY <2>6, <1>1 DEF FoundAt
<1>2. ASSUME ~InList(old, x)
      PROVE  Search(x, old, j) \in Nat /\ ~FoundAt(x, old, j, Search(x, old, j))
  <2>1. later = {}
    BY <1>2, <1>n DEF InList
  <2>2. ASSUME earlier # {}
        PROVE  Search(x, old, j) \in Nat
    <3>1. PICK e \in earlier : TRUE
      BY <2>2
    <3>2. earlier \in SUBSET Nat
      OBVIOUS
    <3>3. PICK e2 \in earlier : \A n \in earlier : e2 <= n
      <4> HIDE DEF earlier
      <4> QED
        BY <3>1, <3>2, LeastExists
    <3>4. (CHOOSE k \in earlier : \A n \in earlier : k <= n) \in earlier
      <4> HIDE DEF earlier
      <4> QED
        BY <3>3
    <3>5. Search(x, old, j) \in earlier
      <4> HIDE DEF earlier, later
      <4> QED
        BY <3>4, <2>1, <2>2, <1>0
    <3> QED
      BY <3>5, <3>2
  <2>3. ASSUME earlier = {} PROVE Search(x, old, j) \in Nat
    <3> HIDE DEF earlier, later
    <3> QED
      BY <2>1, <2>3, <1>0
  <2>4. ~FoundAt(x, old, j, Search(x, old, j))
    BY <1>2 DEF FoundAt, InList
  <2> QED
    BY <2>2, <2>3, <2>4
<1> QED
  BY <1>1, <1>2

\* One step of the walk through the list: x at the place a is the collecting
\* thread, was found at the place j of the previous list, or is new.
DWalkStep(a, x, j) ==
  /\ a = lists.at /\ x = lists.act[a]
  /\ \/ /\ x = Me /\ lists' = [lists EXCEPT !.at = a + 1]
        /\ suspCount' = suspCount /\ machThreads' = machThreads
     \/ /\ x # Me /\ j \in 1..Len(lists.prev) /\ lists.prev[j] = x
        /\ lists' = [lists EXCEPT !.at = a + 1, !.j = j]
        /\ suspCount' = suspCount /\ machThreads' = machThreads
     \/ /\ x # Me /\ ~InList(lists.prev, x)
        /\ lists' = [lists EXCEPT !.at = a + 1, !.j = j, !.changed = TRUE]
        /\ machThreads' = Append(machThreads, [thread |-> x, suspended |-> ctl[x] # "gone"])
        /\ suspCount' = [suspCount EXCEPT ![x] = IF ctl[x] = "gone" THEN @ ELSE @ + 1]
LEMMA DWalkStepIs ==
  ASSUME DInv, GC_suspend_thread_list
  PROVE  \E a \in 1..Len(lists.act), x \in DThread, j \in Nat : DWalkStep(a, x, j)
<1>t. DTypes
  BY DEF DInv
<1>f. /\ lists.act \in Seq(DThread) /\ lists.prev \in Seq(DThread) /\ lists.j \in Nat
      /\ lists.at \in Nat /\ lists.at \in 1..Len(lists.act) + 1 /\ Len(lists.act) \in Nat
  BY <1>t, DFlat
<1>g. gp = "suspend" /\ GC_query_task_threads /\ lists.at <= Len(lists.act)
  BY DEF GC_suspend_thread_list
<1>w. /\ IsInjective(lists.prev)
      /\ \A k \in 1..Len(lists.act), i \in 1..Len(lists.prev) :
           lists.at <= k /\ lists.act[k] # Me /\ lists.act[k] = lists.prev[i] => lists.j < i
  BY <1>g DEF DInv, DWalk, DPrev
<1>1. PICK a \in 1..Len(lists.act) : a = lists.at
  BY <1>f, <1>g
<1>2. PICK x \in DThread : x = lists.act[a]
  BY <1>1, <1>f
<1>3. PICK h : h = Search(x, lists.prev, lists.j)
  OBVIOUS
<1>4. \/ /\ x = Me
         /\ lists' = [lists EXCEPT !.at = a + 1]
         /\ UNCHANGED <<suspCount, machThreads>>
      \/ /\ x # Me /\ FoundAt(x, lists.prev, lists.j, h)
         /\ lists' = [lists EXCEPT !.at = a + 1, !.j = h]
         /\ UNCHANGED <<suspCount, machThreads>>
      \/ /\ x # Me /\ ~FoundAt(x, lists.prev, lists.j, h)
         /\ lists' = [lists EXCEPT !.at = a + 1, !.j = h, !.changed = TRUE]
         /\ machThreads' = Append(machThreads, [thread |-> x, suspended |-> ctl[x] # "gone"])
         /\ suspCount' = [suspCount EXCEPT ![x] = IF ctl[x] = "gone" THEN @ ELSE @ + 1]
  BY <1>1, <1>2, <1>3 DEF GC_suspend_thread_list
<1>5. CASE x = Me
  <2>1. /\ lists' = [lists EXCEPT !.at = a + 1]
        /\ suspCount' = suspCount /\ machThreads' = machThreads
    BY <1>4, <1>5
  <2>2. DWalkStep(a, x, lists.j)
    BY <2>1, <1>1, <1>2, <1>5 DEF DWalkStep
  <2> QED
    BY <2>2, <1>f
<1>6. CASE x # Me /\ InList(lists.prev, x)
  <2>1. PICK i \in 1..Len(lists.prev) : lists.prev[i] = x
    BY <1>6 DEF InList
  <2>2. lists.j < i
    <3>1. lists.at <= a /\ lists.act[a] # Me /\ lists.act[a] = lists.prev[i]
      BY <2>1, <1>1, <1>2, <1>6, <1>f
    <3> QED
      BY <3>1, <1>w
  <2>3. h = i /\ FoundAt(x, lists.prev, lists.j, h)
    BY <2>1, <2>2, <1>3, <1>w, <1>f, SearchIs
  <2>4. /\ lists' = [lists EXCEPT !.at = a + 1, !.j = i]
        /\ suspCount' = suspCount /\ machThreads' = machThreads
    BY <2>3, <1>4, <1>6
  <2>5. i \in Nat
    BY <1>f
  <2>6. DWalkStep(a, x, i)
    BY <2>1, <2>4, <1>1, <1>2, <1>6 DEF DWalkStep
  <2> QED
    BY <2>5, <2>6
<1>7. CASE x # Me /\ ~InList(lists.prev, x)
  <2>1. h \in Nat /\ ~FoundAt(x, lists.prev, lists.j, h)
    BY <1>3, <1>7, <1>w, <1>f, SearchIs
  <2>2. /\ lists' = [lists EXCEPT !.at = a + 1, !.j = h, !.changed = TRUE]
        /\ machThreads' = Append(machThreads, [thread |-> x, suspended |-> ctl[x] # "gone"])
        /\ suspCount' = [suspCount EXCEPT ![x] = IF ctl[x] = "gone" THEN @ ELSE @ + 1]
    BY <2>1, <1>4, <1>7
  <2>3. DWalkStep(a, x, h)
    BY <2>2, <1>1, <1>2, <1>7 DEF DWalkStep
  <2> QED
    BY <2>1, <2>3
<1> QED
  BY <1>5, <1>6, <1>7

\* Whatever the step is, the walk goes on behind the place a.
LEMMA DWalkKeeps ==
  ASSUME DInv, GC_suspend_thread_list
  PROVE  DInv'
<1>u. /\ GC_query_task_threads' = GC_query_task_threads /\ tasks' = tasks
      /\ ctl' = ctl /\ port' = port /\ ack' = ack
      /\ mpState' = mpState /\ mp' = mp /\ dirtyLock' = dirtyLock /\ isProt' = isProt
      /\ isDirty' = isDirty /\ wasStored' = wasStored /\ lost' = lost
      /\ gp' = gp /\ nCycles' = nCycles
  BY DEF GC_suspend_thread_list, excVars, pageVars
<1>g. gp = "suspend" /\ GC_query_task_threads
  BY DEF GC_suspend_thread_list
<1>t. DTypes
  BY DEF DInv
<1>f. /\ lists \in DLists /\ lists.act \in Seq(DThread) /\ lists.prev \in Seq(DThread)
      /\ lists.j \in Nat /\ lists.at \in Nat /\ Len(lists.act) \in Nat /\ Len(lists.prev) \in Nat
      /\ suspCount \in [DThread -> 0..1] /\ machThreads \in Seq(DRecord)
      /\ ctl \in [DThread -> {"run", "fault", "blocking", "none", "gone"}]
      /\ Len(machThreads) \in Nat
      /\ \A i \in 1..Len(machThreads) : machThreads[i].thread \in DThread
  BY <1>t, DFlat
<1>w. /\ DPrev(lists.prev) /\ Follows(lists.prev, lists.act)
      /\ IsInjective(lists.act) /\ Follows(lists.act, tasks)
      /\ \A k \in 1..Len(lists.act) : ctl[lists.act[k]] # "none"
      /\ \A k \in 1..Len(lists.act) : k < lists.at /\ lists.act[k] # Me => Held(lists.act[k])
      /\ \A t \in DThread : suspCount[t] = 1 =>
           \E k \in 1..Len(lists.act) : lists.act[k] = t /\ (k < lists.at \/ InList(lists.prev, t))
      /\ \A i \in 1..Len(machThreads) : ~machThreads[i].suspended =>
           /\ ctl[machThreads[i].thread] = "gone"
           /\ \A k \in 1..Len(lists.act) : lists.act[k] = machThreads[i].thread => k < lists.at
      /\ \A k \in 1..Len(lists.act), i \in 1..Len(lists.prev) :
           lists.at <= k /\ lists.act[k] # Me /\ lists.act[k] = lists.prev[i] => lists.j < i
      /\ ~lists.changed => \A k \in 1..Len(lists.act) :
           k < lists.at /\ lists.act[k] # Me => InList(lists.prev, lists.act[k])
      /\ AllOld => \A t \in DThread : InList(tasks, t) /\ t # Me => suspCount[t] = 1
  BY <1>g DEF DInv, DWalk
<1>r. /\ \A i, k \in 1..Len(machThreads) : machThreads[i].thread = machThreads[k].thread => i = k
      /\ \A t \in DThread : suspCount[t] = 1 <=>
           \E i \in 1..Len(machThreads) : machThreads[i].thread = t /\ machThreads[i].suspended
  BY <1>g DEF DInv, DRecords
<1>1. PICK a \in 1..Len(lists.act), x \in DThread, j \in Nat : DWalkStep(a, x, j)
  BY DWalkStepIs
<1>2. a = lists.at /\ x = lists.act[a] /\ a + 1 \in Nat /\ a + 1 \in 1..Len(lists.act) + 1
  BY <1>1, <1>f DEF DWalkStep
<1>i. /\ \A k, l \in 1..Len(lists.act) : lists.act[k] = lists.act[l] => k = l
      /\ \A k, l \in 1..Len(lists.prev) : lists.prev[k] = lists.prev[l] => k = l
      /\ \A k \in 1..Len(lists.act) : lists.act[k] \in DThread
      /\ \A k \in 1..Len(lists.prev) : lists.prev[k] \in DThread
  BY <1>w, <1>f, InListIs DEF DPrev
<1>c. \A k \in 1..Len(lists.act) : k < a + 1 <=> k < a \/ k = a
  BY <1>f
<1>3. DFaults' /\ DMessages' /\ DPage' /\ DStill' /\ DListed' /\ DResume'
  <2>1. DFaults' /\ DMessages' /\ DPage'
    BY <1>u, <1>g, DExcFrame DEF Calm
  <2> QED
    BY <2>1, <1>u, <1>g DEF DStill, DListed, DResume
<1>4. ASSUME lists' \in DLists, lists'.act = lists.act, lists'.prev = lists.prev, lists'.at = a + 1
      PROVE  /\ Follows(lists.prev, lists.act)' /\ IsInjective(lists.act')
             /\ Follows(lists.act, tasks)'
             /\ \A k \in 1..Len(lists'.act) : ctl'[lists'.act[k]] # "none"
             /\ \A y : InList(lists.prev, y)' <=> InList(lists.prev, y)
             /\ AllOld' <=> AllOld
             /\ lists' \in DLists /\ lists'.at \in 1..Len(lists'.act) + 1
  <2>1. /\ Follows(lists.prev, lists.act)' /\ IsInjective(lists.act')
        /\ Follows(lists.act, tasks)'
        /\ \A k \in 1..Len(lists'.act) : ctl'[lists'.act[k]] # "none"
    BY <1>4, <1>w, <1>u
  <2>2. \A y : InList(lists.prev, y)' <=> InList(lists.prev, y)
    BY <1>4 DEF InList
  <2>3. AllOld' <=> AllOld
    BY <2>2, <1>4 DEF AllOld
  <2> QED
    BY <2>1, <2>2, <2>3, <1>4, <1>2
<1>5. CASE /\ suspCount' = suspCount /\ machThreads' = machThreads
           /\ \/ x = Me /\ lists' = [lists EXCEPT !.at = a + 1]
              \/ /\ x # Me /\ j \in 1..Len(lists.prev) /\ lists.prev[j] = x
                 /\ lists' = [lists EXCEPT !.at = a + 1, !.j = j]
  <2>1. /\ lists' \in DLists /\ lists'.act = lists.act /\ lists'.prev = lists.prev
        /\ lists'.at = a + 1 /\ lists'.changed = lists.changed
        /\ x = Me => lists'.j = lists.j
        /\ x # Me => lists'.j = j
    BY <1>5, <1>f, <1>2 DEF DLists
  <2>2. DTypes'
    BY <2>1, <1>4, <1>5, <1>u, <1>t DEF DTypes
  <2>3. DThreads'
    BY <1>5, <1>u DEF DInv, DThreads
  <2>4. DRecords'
    BY <1>5, <1>u DEF DInv, DRecords
  <2>5. DPrev(lists.prev)' /\ \A t \in DThread : Held(t)' <=> Held(t)
    BY <2>1, <1>5, <1>u, <1>w DEF DPrev, Held
  <2>6. x # Me => Held(x) /\ InList(lists.prev, x)
    BY <1>5, <1>w DEF DPrev, InList
  <2>7. ASSUME NEW k \in 1..Len(lists.act), k < a + 1, lists.act[k] # Me
        PROVE  Held(lists.act[k])'
    <3>1. CASE k < a
      BY <3>1, <2>1, <2>7, <2>5, <1>w, <1>2, <1>i
    <3>2. CASE k = a
      BY <3>2, <2>1, <2>7, <2>5, <2>6, <1>2
    <3> QED
      BY <3>1, <3>2, <2>7, <1>c
  <2>8. ASSUME NEW k \in 1..Len(lists.act), k < a + 1, lists.act[k] # Me, ~lists.changed
        PROVE  InList(lists.prev, lists.act[k])
    <3>1. CASE k < a
      BY <3>1, <2>8, <1>w, <1>2
    <3>2. CASE k = a
      BY <3>2, <2>8, <2>6, <1>2
    <3> QED
      BY <3>1, <3>2, <2>8, <1>c
  <2>9. ASSUME NEW k \in 1..Len(lists.act), NEW i \in 1..Len(lists.prev), a + 1 <= k,
               lists.act[k] # Me, lists.act[k] = lists.prev[i]
        PROVE  lists'.j < i
    <3>a. a + 1 <= k /\ a \in Nat /\ k \in Nat
      BY <2>9, <1>f
    <3>b. a < k /\ a <= k
      BY <3>a
    <3>1. lists.at <= k /\ a < k
      BY <3>b, <1>2
    <3>2. CASE x = Me
      BY <3>1, <3>2, <2>1, <2>9, <1>w
    <3>3. CASE x # Me
      <4>1. PICK n \in 1..Len(lists.prev) : n < i /\ lists.act[a] = lists.prev[n]
        BY <3>1, <2>9, <1>w DEF Follows
      <4>2. n = j
        BY <4>1, <3>3, <1>5, <1>2, <1>i
      <4> QED
        BY <4>1, <4>2, <3>3, <2>1
    <3> QED
      BY <3>2, <3>3
  <2>10. ASSUME NEW t \in DThread, suspCount[t] = 1
         PROVE  \E k \in 1..Len(lists.act) : lists.act[k] = t /\ (k < a + 1 \/ InList(lists.prev, t))
    BY <2>10, <1>w, <1>2, <1>c
  <2>11. ASSUME NEW i \in 1..Len(machThreads), ~machThreads[i].suspended
         PROVE  /\ ctl[machThreads[i].thread] = "gone"
                /\ \A k \in 1..Len(lists.act) : lists.act[k] = machThreads[i].thread => k < a + 1
    BY <2>11, <1>w, <1>2, <1>c
  <2>12. AllOld' => \A t \in DThread : InList(tasks, t)' /\ t # Me => suspCount'[t] = 1
    <3>1. \A t : InList(tasks, t)' <=> InList(tasks, t)
      BY <1>u DEF InList
    <3> QED
      BY <3>1, <2>1, <1>4, <1>5, <1>w
  <2>13. DWalk'
    BY <2>1, <2>5, <2>7, <2>8, <2>9, <2>10, <2>11, <2>12, <1>4, <1>5, <1>u DEF DWalk
  <2> QED
    BY <2>2, <2>3, <2>4, <2>13, <1>3 DEF DInv
<1>6. CASE /\ x # Me /\ ~InList(lists.prev, x)
           /\ lists' = [lists EXCEPT !.at = a + 1, !.j = j, !.changed = TRUE]
           /\ machThreads' = Append(machThreads, [thread |-> x, suspended |-> ctl[x] # "gone"])
           /\ suspCount' = [suspCount EXCEPT ![x] = IF ctl[x] = "gone" THEN @ ELSE @ + 1]
  <2>1. /\ lists' \in DLists /\ lists'.act = lists.act /\ lists'.prev = lists.prev
        /\ lists'.at = a + 1 /\ lists'.changed = TRUE /\ lists'.j = j
    BY <1>6, <1>f, <1>2 DEF DLists
  <2>2. \A i \in 1..Len(machThreads) : machThreads[i].thread # x
    <3> SUFFICES ASSUME NEW i \in 1..Len(machThreads), machThreads[i].thread = x PROVE FALSE
      OBVIOUS
    <3>1. CASE machThreads[i].suspended
      <4>1. suspCount[x] = 1
        BY <3>1, <1>r
      <4>2. PICK k \in 1..Len(lists.act) : lists.act[k] = x /\ k < lists.at
        BY <4>1, <1>6, <1>w
      <4>3. k = a
        BY <4>2, <1>2, <1>i
      <4> QED
        BY <4>2, <4>3, <1>2, <1>f
    <3>2. CASE ~machThreads[i].suspended
      <4>1. a < lists.at
        BY <3>2, <1>w, <1>2
      <4> QED
        BY <4>1, <1>2, <1>f
    <3> QED
      BY <3>1, <3>2
  <2>3. suspCount[x] = 0
    BY <2>2, <1>r, <1>f
  <2>4. /\ suspCount' \in [DThread -> 0..1]
        /\ \A t \in DThread : suspCount'[t] = IF t = x /\ ctl[x] # "gone" THEN 1 ELSE suspCount[t]
    BY <2>3, <1>6, <1>f
  <2>r. PICK new \in DRecord : new.thread = x /\ (new.suspended <=> ctl[x] # "gone")
                               /\ machThreads' = Append(machThreads, new)
    <3>1. [thread |-> x, suspended |-> ctl[x] # "gone"] \in DRecord
      BY DEF DRecord
    <3> QED
      BY <3>1, <1>6
  <2>5. /\ machThreads' \in Seq(DRecord) /\ Len(machThreads') = Len(machThreads) + 1
        /\ machThreads'[Len(machThreads) + 1] = new
        /\ \A i \in 1..Len(machThreads) : machThreads'[i] = machThreads[i]
    BY <2>r, <1>f, AppendIs
  <2>6. \A i \in 1..Len(machThreads') : i \in 1..Len(machThreads) \/ i = Len(machThreads) + 1
    BY <2>5, <1>f
  <2>7. ctl[x] # "none" /\ (ctl[x] # "gone" => ctl[x] \in {"run", "fault"})
    <3>1. ctl[x] # "none" /\ ctl[x] # "blocking"
      BY <1>w, <1>2, <1>g DEF DInv, DThreads
    <3> QED
      BY <3>1, <1>f
  <2>8. DTypes'
    BY <2>1, <2>4, <2>5, <1>4, <1>u, <1>t DEF DTypes
  <2>9. DThreads'
    <3>1. ASSUME NEW t \in DThread, suspCount'[t] = 1
          PROVE  t # Me /\ ctl'[t] \in {"run", "fault"} /\ gp' # "idle"
      <4>1. CASE t = x /\ ctl[x] # "gone"
        BY <4>1, <2>7, <1>6, <1>u, <1>g
      <4>2. CASE ~(t = x /\ ctl[x] # "gone")
        <5>1. suspCount[t] = 1
          BY <4>2, <3>1, <2>4
        <5> QED
          BY <5>1, <1>u DEF DInv, DThreads
      <4> QED
        BY <4>1, <4>2
    <3> QED
      BY <3>1, <1>u DEF DInv, DThreads
  <2>10. DRecords'
    <3>1. \A i, k \in 1..Len(machThreads') : machThreads'[i].thread = machThreads'[k].thread => i = k
      <4> SUFFICES ASSUME NEW i \in 1..Len(machThreads'), NEW k \in 1..Len(machThreads'),
                          machThreads'[i].thread = machThreads'[k].thread
                   PROVE  i = k
        OBVIOUS
      <4> QED
        BY <2>2, <2>r, <2>5, <2>6, <1>r
    <3>2. ASSUME NEW t \in DThread
          PROVE  suspCount'[t] = 1 <=> \E i \in 1..Len(machThreads') :
                    machThreads'[i].thread = t /\ machThreads'[i].suspended
      <4>l. Len(machThreads) + 1 \in 1..Len(machThreads')
             /\ \A i \in 1..Len(machThreads) : i \in 1..Len(machThreads')
        BY <2>5, <1>f
      <4>1. CASE t = x
        <5>1. suspCount'[t] = 1 <=> ctl[x] # "gone"
          BY <4>1, <2>3, <2>4
        <5>2. \A i \in 1..Len(machThreads') : machThreads'[i].thread = x => i = Len(machThreads) + 1
          BY <2>2, <2>5, <2>6
        <5> QED
          BY <5>1, <5>2, <4>1, <4>l, <2>5, <2>r
      <4>2. CASE t # x
        <5>1. suspCount'[t] = suspCount[t]
          BY <4>2, <2>4
        <5>2. \A i \in 1..Len(machThreads') : machThreads'[i].thread = t =>
                i \in 1..Len(machThreads) /\ machThreads'[i] = machThreads[i]
          BY <4>2, <2>5, <2>6, <2>r
        <5> QED
          BY <5>1, <5>2, <4>l, <2>5, <1>r
      <4> QED
        BY <4>1, <4>2
    <3> QED
      BY <3>1, <3>2, <1>u, <1>g DEF DRecords
  <2>11. Held(x)' /\ \A t \in DThread : Held(t) => Held(t)'
    BY <2>4, <1>u DEF Held
  <2>12. DPrev(lists.prev)'
    BY <2>1, <2>11, <1>u, <1>w, <1>i DEF DPrev
  <2>13. ASSUME NEW k \in 1..Len(lists.act), k < a + 1, lists.act[k] # Me
         PROVE  Held(lists.act[k])'
    <3>1. CASE k < a
      BY <3>1, <2>1, <2>13, <2>11, <1>w, <1>2, <1>i
    <3>2. CASE k = a
      BY <3>2, <2>1, <2>11, <1>2
    <3> QED
      BY <3>1, <3>2, <2>13, <1>c
  <2>14. ASSUME NEW k \in 1..Len(lists.act), NEW i \in 1..Len(lists.prev), a + 1 <= k,
                lists.act[k] = lists.prev[i]
         PROVE  FALSE
    <3>1. a < k
      BY <2>14, <1>f
    <3>2. PICK n \in 1..Len(lists.prev) : n < i /\ lists.act[a] = lists.prev[n]
      BY <3>1, <2>14, <1>w DEF Follows
    <3> QED
      BY <3>2, <1>6, <1>2 DEF InList
  <2>15. ASSUME NEW t \in DThread, suspCount'[t] = 1
         PROVE  \E k \in 1..Len(lists.act) : lists.act[k] = t /\ (k < a + 1 \/ InList(lists.prev, t))
    <3>1. CASE t = x
      BY <3>1, <1>2, <1>c
    <3>2. CASE t # x
      <4>1. suspCount[t] = 1
        BY <3>2, <2>15, <2>4
      <4> QED
        BY <4>1, <1>w, <1>2, <1>c
    <3> QED
      BY <3>1, <3>2
  <2>16. ASSUME NEW i \in 1..Len(machThreads'), ~machThreads'[i].suspended
         PROVE  /\ ctl[machThreads'[i].thread] = "gone"
                /\ \A k \in 1..Len(lists.act) : lists.act[k] = machThreads'[i].thread => k < a + 1
    <3>1. CASE i \in 1..Len(machThreads)
      BY <3>1, <2>16, <2>5, <1>w, <1>2, <1>c
    <3>2. CASE i = Len(machThreads) + 1
      <4>1. machThreads'[i].thread = x /\ ctl[x] = "gone"
        BY <3>2, <2>16, <2>5, <2>r
      <4>2. \A k \in 1..Len(lists.act) : lists.act[k] = x => k = a
        BY <1>2, <1>i
      <4> QED
        BY <4>1, <4>2, <1>c
    <3> QED
      BY <3>1, <3>2, <2>6
  <2>17. ~AllOld'
    <3>1. ~AllOld
      BY <1>6, <1>2 DEF AllOld
    <3> QED
      BY <3>1, <2>1, <1>4
  <2>18. DWalk'
    BY <2>1, <2>12, <2>13, <2>14, <2>15, <2>16, <2>17, <1>4, <1>u DEF DWalk
  <2> QED
    BY <2>8, <2>9, <2>10, <2>18, <1>3 DEF DInv
<1> QED
  BY <1>1, <1>5, <1>6 DEF DWalkStep

LEMMA EndOfListKeeps ==
  ASSUME DInv, EndOfList
  PROVE  DInv'
<1>u. /\ GC_query_task_threads' = GC_query_task_threads /\ tasks' = tasks
      /\ ctl' = ctl /\ port' = port /\ ack' = ack /\ suspCount' = suspCount
      /\ mpState' = mpState /\ mp' = mp /\ dirtyLock' = dirtyLock /\ isProt' = isProt
      /\ isDirty' = isDirty /\ wasStored' = wasStored /\ lost' = lost
      /\ machThreads' = machThreads /\ nCycles' = nCycles
  BY DEF EndOfList, excVars, pageVars
<1>g. /\ gp = "suspend" /\ GC_query_task_threads /\ lists.at > Len(lists.act)
      /\ lists' = [lists EXCEPT !.prev = lists.act]
      /\ gp' = IF ~lists.changed THEN "mprotect_stop" ELSE "list"
  BY DEF EndOfList, NoneNew
<1>t. DTypes
  BY DEF DInv
<1>f. /\ lists \in DLists /\ lists.act \in Seq(DThread) /\ lists.at \in Nat
      /\ lists.at \in 1..Len(lists.act) + 1 /\ Len(lists.act) \in Nat
      /\ \A k \in 1..Len(lists.act) : lists.act[k] \in DThread
  BY <1>t, DFlat
<1>l. /\ lists' \in DLists /\ lists'.act = lists.act /\ lists'.at = lists.at
      /\ lists'.prev = lists.act
  BY <1>g, <1>f DEF DLists
<1>b. \A k \in 1..Len(lists.act) : k < lists.at
  BY <1>g, <1>f
<1>w. DWalk
  BY DEF DInv
<1>1. DTypes'
  <2>1. gp' \in DPhases
    BY <1>g DEF DPhases
  <2> QED
    BY <2>1, <1>l, <1>u, <1>t, <1>f DEF DTypes
<1>2. DThreads'
  BY <1>u, <1>g DEF DInv, DThreads
<1>3. DFaults' /\ DMessages' /\ DPage'
  BY <1>u, <1>g, DExcFrame DEF Calm
<1>4. DRecords'
  BY <1>u, <1>g DEF DInv, DRecords
<1>5. DWalk' /\ DResume'
  BY <1>g DEF DWalk, DResume
<1>6. DStill'
  <2> SUFFICES ASSUME gp' = "mprotect_stop" PROVE DStill'
    BY <1>g DEF DStill
  <2>1. ~lists.changed
    BY <1>g
  <2>2. AllOld
    BY <2>1, <1>b, <1>w, <1>g DEF DWalk, AllOld
  <2>3. \A t \in DThread : InList(tasks, t) /\ t # Me => suspCount[t] = 1
    BY <2>2, <1>w, <1>g DEF DWalk
  <2> QED
    BY <2>3, <1>u DEF DStill
<1>7. DListed'
  <2>1. DPrev(lists.prev)'
    BY <1>b, <1>w, <1>g, <1>l, <1>u DEF DWalk, DPrev, Held
  <2>2. Follows(lists.prev, tasks)'
    BY <1>w, <1>g, <1>l, <1>u DEF DWalk
  <2>3. \A t \in DThread : suspCount'[t] = 1 => InList(lists.prev, t)'
    BY <1>w, <1>g, <1>l, <1>u DEF DWalk, InList
  <2>4. \A i \in 1..Len(machThreads) :
         ~machThreads[i].suspended => ctl[machThreads[i].thread] = "gone"
    BY <1>w, <1>g DEF DWalk
  <2> QED
    BY <2>1, <2>2, <2>3, <2>4, <1>u DEF DListed
<1> QED
  BY <1>1, <1>2, <1>3, <1>4, <1>5, <1>6, <1>7 DEF DInv

LEMMA SuspendRegisteredKeeps ==
  ASSUME DInv, SuspendRegistered
  PROVE  DInv'
<1>u. /\ GC_query_task_threads' = GC_query_task_threads /\ tasks' = tasks
      /\ ctl' = ctl /\ port' = port /\ ack' = ack
      /\ mpState' = mpState /\ mp' = mp /\ dirtyLock' = dirtyLock /\ isProt' = isProt
      /\ isDirty' = isDirty /\ wasStored' = wasStored /\ lost' = lost
      /\ machThreads' = machThreads /\ nCycles' = nCycles /\ lists' = lists
  BY DEF SuspendRegistered, excVars, pageVars
<1>g. gp = "suspend" /\ ~GC_query_task_threads
  BY DEF SuspendRegistered
<1>t. DTypes
  BY DEF DInv
<1>f. suspCount \in [DThread -> 0..1] /\ tasks \in Seq(DThread)
  BY <1>t, DFlat
<1>r. \A x : InList(tasks, x) <=> x \in Range(tasks)
  BY <1>f, InListIs
<1>q. DRecords' /\ DListed' /\ DWalk' /\ DResume'
  BY <1>u, <1>g DEF DRecords, DListed, DWalk, DResume
<1>1. CASE \E t \in Range(tasks) \ {Me} :
          /\ ctl[t] # "blocking" /\ suspCount[t] = 0
          /\ suspCount' = [suspCount EXCEPT ![t] = 1] /\ UNCHANGED gp
  <2>1. PICK t \in Range(tasks) \ {Me} :
          /\ ctl[t] # "blocking" /\ suspCount[t] = 0
          /\ suspCount' = [suspCount EXCEPT ![t] = 1] /\ UNCHANGED gp
    BY <1>1
  <2>2. t \in DThread /\ InList(tasks, t)
    BY <1>r, <1>f, InListIs
  <2>3. ctl[t] \in {"run", "fault"}
    BY <2>1, <2>2 DEF DInv, DThreads
  <2>4. /\ suspCount' \in [DThread -> 0..1]
        /\ \A x \in DThread : suspCount'[x] = IF x = t THEN 1 ELSE suspCount[x]
    BY <2>1, <2>2, <1>f
  <2>5. DTypes'
    BY <2>1, <2>4, <1>u, <1>t DEF DTypes
  <2>6. DThreads'
    BY <2>1, <2>3, <2>4, <1>u, <1>g DEF DInv, DThreads
  <2>7. DFaults' /\ DMessages' /\ DPage'
    BY <2>1, <1>u, <1>g, DExcFrame DEF Calm
  <2>8. DStill'
    BY <2>1, <1>g DEF DStill
  <2> QED
    BY <2>5, <2>6, <2>7, <2>8, <1>q DEF DInv
<1>2. CASE /\ \A t \in Range(tasks) \ {Me} : ctl[t] = "blocking" \/ suspCount[t] > 0
           /\ gp' = "mprotect_stop" /\ UNCHANGED suspCount
  <2>1. DTypes'
    BY <1>2, <1>u, <1>t DEF DTypes, DPhases
  <2>2. DThreads'
    BY <1>2, <1>u DEF DInv, DThreads
  <2>3. DFaults' /\ DMessages' /\ DPage'
    BY <1>2, <1>u, <1>g, DExcFrame DEF Calm
  <2>4. DStill'
    <3>1. ASSUME NEW x \in DThread, InList(tasks, x), x # Me
          PROVE  suspCount[x] = 1 \/ ctl[x] = "blocking"
      BY <3>1, <1>2, <1>r, <1>f
    <3> QED
      BY <3>1, <1>2, <1>u DEF DStill
  <2>5. DRecords' /\ DListed' /\ DWalk' /\ DResume'
    BY <1>u, <1>g DEF DRecords, DListed, DWalk, DResume
  <2> QED
    BY <2>1, <2>2, <2>3, <2>4, <2>5 DEF DInv
<1> QED
  BY <1>1, <1>2 DEF SuspendRegistered

\* While the world is stopped, the lists and the records do not matter.
Stopping == {"mprotect_stop", "stopping", "stopped", "mprotect_resume", "resuming"}
LEMMA DStopFrame ==
  ASSUME DInv, gp \in Stopping, gp' \in Stopping,
         GC_query_task_threads' = GC_query_task_threads, tasks' = tasks, ctl' = ctl,
         suspCount' = suspCount, machThreads' = machThreads
  PROVE  DThreads' /\ DStill' /\ DRecords' /\ DListed' /\ DWalk' /\ DResume'
<1>1. DThreads' /\ DStill'
  BY DEF DInv, DThreads, DStill, Stopping
<1>2. DRecords'
  BY DEF DInv, DRecords, Stopping
<1> QED
  BY <1>1, <1>2 DEF DListed, DWalk, DResume, Stopping

\* A message of the collector at the end of the port.
LEMMA DSent ==
  ASSUME DInv, NEW msg \in {STOP, RESUME}, ~InList(port, msg), port' = Append(port, msg),
         ctl' = ctl, mp' = mp, dirtyLock' = dirtyLock
  PROVE  /\ DFaults' /\ port' \in Seq(DThread \cup {STOP, RESUME})
         /\ port' # <<>> /\ port'[Len(port')] = msg /\ Len(port') = Len(port) + 1
         /\ \A x : InList(port', x) <=> InList(port, x) \/ x = msg
<1>t. DTypes
  BY DEF DInv
<1>f. port \in Seq(DThread \cup {STOP, RESUME}) /\ IsInjective(port) /\ Len(port) \in Nat
  BY <1>t, DFlat DEF DInv, DFaults
<1>1. /\ port' \in Seq(DThread \cup {STOP, RESUME}) /\ Len(port') = Len(port) + 1
      /\ port'[Len(port) + 1] = msg
  BY <1>f, AppendIs
<1>2. /\ \A x : InList(port', x) <=> InList(port, x) \/ x = msg
      /\ IsInjective(port')
  BY <1>f, InAppended
<1>3. port' # <<>> /\ port'[Len(port')] = msg
  BY <1>1, <1>f
<1>4. \A x \in DThread : InList(port', x) <=> InList(port, x)
  BY <1>2, DNames
<1>5. DFaults'
  BY <1>2, <1>4 DEF DInv, DFaults
<1> QED
  BY <1>1, <1>2, <1>3, <1>5

LEMMA MprotectStopKeeps ==
  ASSUME DInv, GC_mprotect_stop
  PROVE  DInv'
<1>t. DTypes
  BY DEF DInv
<1>1. CASE gp = "mprotect_stop"
  <2>u. /\ GC_query_task_threads' = GC_query_task_threads /\ tasks' = tasks
        /\ ctl' = ctl /\ ack' = ack /\ suspCount' = suspCount
        /\ mpState' = mpState /\ mp' = mp /\ dirtyLock' = dirtyLock /\ isProt' = isProt
        /\ isDirty' = isDirty /\ wasStored' = wasStored /\ lost' = lost
        /\ machThreads' = machThreads /\ nCycles' = nCycles /\ lists' = lists
        /\ port' = Append(port, STOP) /\ gp' = "stopping"
    BY <1>1 DEF GC_mprotect_stop, pageVars
  <2>m. mpState = "normal" /\ ~ack /\ ~InList(port, STOP) /\ ~InList(port, RESUME)
    BY <1>1 DEF DInv, DMessages
  <2>1. /\ DFaults' /\ port' \in Seq(DThread \cup {STOP, RESUME})
        /\ port' # <<>> /\ port'[Len(port')] = STOP
        /\ \A x : InList(port', x) <=> InList(port, x) \/ x = STOP
    BY <2>u, <2>m, DSent
  <2>2. DTypes'
    BY <2>1, <2>u, <1>t DEF DTypes, DPhases
  <2>3. DMessages'
    BY <2>1, <2>u, <2>m, DNames DEF DMessages
  <2>4. DPage'
    BY <2>u DEF DInv, DPage
  <2>5. DThreads' /\ DStill' /\ DRecords' /\ DListed' /\ DWalk' /\ DResume'
    BY <2>u, <1>1, DStopFrame DEF Stopping
  <2> QED
    BY <2>1, <2>2, <2>3, <2>4, <2>5 DEF DInv
<1>2. CASE gp = "stopping" /\ ack
  <2>u. /\ GC_query_task_threads' = GC_query_task_threads /\ tasks' = tasks
        /\ ctl' = ctl /\ suspCount' = suspCount
        /\ mpState' = mpState /\ mp' = mp /\ dirtyLock' = dirtyLock /\ isProt' = isProt
        /\ isDirty' = isDirty /\ wasStored' = wasStored /\ lost' = lost
        /\ machThreads' = machThreads /\ nCycles' = nCycles /\ lists' = lists
        /\ port' = port /\ gp' = "stopped" /\ ack' = FALSE
    BY <1>2 DEF GC_mprotect_stop, pageVars
  <2>m. mpState = "stopped" /\ Quiet
    BY <1>2 DEF DInv, DMessages
  <2>2. DTypes'
    BY <2>u, <1>t DEF DTypes, DPhases
  <2>3. DMessages'
    BY <2>u, <2>m DEF DMessages, Quiet
  <2>4. DPage' /\ DFaults'
    BY <2>u DEF DInv, DPage, DFaults
  <2>5. DThreads' /\ DStill' /\ DRecords' /\ DListed' /\ DWalk' /\ DResume'
    BY <2>u, <1>2, DStopFrame DEF Stopping
  <2> QED
    BY <2>2, <2>3, <2>4, <2>5 DEF DInv
<1> QED
  BY <1>1, <1>2 DEF GC_mprotect_stop, Acknowledged

LEMMA DReadDirtyKeeps ==
  ASSUME DInv, ReadDirty
  PROVE  DInv'
<1>u. /\ GC_query_task_threads' = GC_query_task_threads /\ tasks' = tasks
      /\ ctl' = ctl /\ ack' = ack /\ suspCount' = suspCount
      /\ mpState' = mpState /\ mp' = mp /\ dirtyLock' = dirtyLock
      /\ machThreads' = machThreads /\ nCycles' = nCycles /\ lists' = lists
      /\ port' = port /\ gp' = "mprotect_resume" /\ gp = "stopped"
      /\ isProt' = TRUE /\ isDirty' = FALSE /\ wasStored' = FALSE
  BY DEF ReadDirty, excVars
<1>t. DTypes
  BY DEF DInv
<1>f. isProt \in BOOLEAN /\ isDirty \in BOOLEAN /\ wasStored \in BOOLEAN
  BY <1>t, DFlat
<1>m. mpState = "stopped" /\ ~ack /\ Quiet
  BY <1>u DEF DInv, DMessages
<1>1. wasStored => isDirty
  BY <1>m DEF DInv, DPage, Quiet
<1>2. lost' = FALSE
  BY <1>1, <1>f DEF ReadDirty
<1>3. DTypes'
  BY <1>2, <1>u, <1>t DEF DTypes, DPhases
<1>4. DMessages'
  BY <1>m, <1>u DEF DMessages, Quiet
<1>5. DFaults'
  BY <1>u DEF DInv, DFaults
<1>6. DPage'
  BY <1>u, <1>2 DEF DPage
<1>7. DThreads' /\ DStill' /\ DRecords' /\ DListed' /\ DWalk' /\ DResume'
  BY <1>u, DStopFrame DEF Stopping
<1> QED
  BY <1>3, <1>4, <1>5, <1>6, <1>7 DEF DInv

LEMMA MprotectResumeKeeps ==
  ASSUME DInv, GC_mprotect_resume
  PROVE  DInv'
<1>t. DTypes
  BY DEF DInv
<1>f. Len(port) \in Nat /\ tasks \in Seq(DThread) /\ Len(tasks) \in Nat
  BY <1>t, DFlat
<1>1. CASE gp = "mprotect_resume"
  <2>u. /\ GC_query_task_threads' = GC_query_task_threads /\ tasks' = tasks
        /\ ctl' = ctl /\ ack' = ack /\ suspCount' = suspCount
        /\ mpState' = mpState /\ mp' = mp /\ dirtyLock' = dirtyLock /\ isProt' = isProt
        /\ isDirty' = isDirty /\ wasStored' = wasStored /\ lost' = lost
        /\ machThreads' = machThreads /\ nCycles' = nCycles /\ lists' = lists
        /\ port' = Append(port, RESUME) /\ gp' = "resuming"
    BY <1>1 DEF GC_mprotect_resume, pageVars
  <2>m. mpState = "stopped" /\ ~ack /\ port = <<>> /\ mp.step = 0
    BY <1>1 DEF DInv, DMessages, Quiet
  <2>n. ~InList(port, RESUME)
    BY <2>m DEF InList
  <2>1. /\ DFaults' /\ port' \in Seq(DThread \cup {STOP, RESUME})
        /\ port' # <<>> /\ port'[Len(port')] = RESUME /\ Len(port') = Len(port) + 1
    BY <2>u, <2>n, DSent
  <2>2. Len(port') = 1 /\ port'[1] = RESUME
    BY <2>1, <2>m
  <2>3. DTypes'
    BY <2>1, <2>u, <1>t DEF DTypes, DPhases
  <2>4. DMessages'
    BY <2>2, <2>u, <2>m DEF DMessages
  <2>5. DPage'
    BY <2>u DEF DInv, DPage
  <2>6. DThreads' /\ DStill' /\ DRecords' /\ DListed' /\ DWalk' /\ DResume'
    BY <2>u, <1>1, DStopFrame DEF Stopping
  <2> QED
    BY <2>1, <2>3, <2>4, <2>5, <2>6 DEF DInv
<1>2. CASE gp = "resuming" /\ ack
  <2>u. /\ GC_query_task_threads' = GC_query_task_threads /\ tasks' = tasks
        /\ ctl' = ctl /\ suspCount' = suspCount
        /\ mpState' = mpState /\ mp' = mp /\ dirtyLock' = dirtyLock /\ isProt' = isProt
        /\ isDirty' = isDirty /\ wasStored' = wasStored /\ lost' = lost
        /\ machThreads' = machThreads /\ nCycles' = nCycles
        /\ lists' = [NoLists EXCEPT !.act = tasks, !.j = Len(tasks) + 1]
        /\ port' = port /\ gp' = "resume" /\ ack' = FALSE
    BY <1>2 DEF GC_mprotect_resume, pageVars
  <2>m. mpState = "normal" /\ port = <<>> /\ mp.step = 0
    BY <1>2 DEF DInv, DMessages, Quiet
  <2>1. /\ lists' \in DLists /\ lists'.act = tasks /\ lists'.j = Len(tasks) + 1 /\ lists'.at = 1
    <3>1. PICK none \in DLists : none = NoLists /\ none.at = 1
      BY NoListsIs
    <3>2. lists' = [none EXCEPT !.act = tasks, !.j = Len(tasks) + 1]
      BY <3>1, <2>u
    <3>3. Len(tasks) + 1 \in Nat
      BY <1>f
    <3> QED
      BY <3>1, <3>2, <3>3, <1>f DEF DLists
  <2>2. DTypes'
    <3>1. lists'.at \in 1..Len(lists'.act) + 1
      BY <2>1, <1>f
    <3> QED
      BY <3>1, <2>1, <2>u, <1>t DEF DTypes, DPhases
  <2>3. DMessages'
    BY <2>u, <2>m DEF DMessages, InList
  <2>4. DPage' /\ DFaults'
    BY <2>u DEF DInv, DPage, DFaults
  <2>5. DThreads'
    BY <2>u DEF DInv, DThreads
  <2>6. DRecords'
    BY <2>u, <1>2 DEF DInv, DRecords
  <2>7. DStill' /\ DListed' /\ DWalk'
    BY <2>u DEF DStill, DListed, DWalk
  <2>8. DResume'
    <3>1. \A x \in DThread : suspCount[x] = 1 => InList(tasks, x)
      BY DEF DInv, DThreads
    <3>2. lists'.j \notin 1..Len(lists'.act)
      BY <2>1, <1>f
    <3>3. lists'.j <= Len(lists'.act) + 1
      BY <2>1, <1>f
    <3> QED
      BY <3>1, <3>2, <3>3, <2>1, <2>u DEF DResume
  <2> QED
    BY <2>2, <2>3, <2>4, <2>5, <2>6, <2>7, <2>8 DEF DInv
<1> QED
  BY <1>1, <1>2 DEF GC_mprotect_resume, Acknowledged

\* A thread in the list of GC_start_world is found unless the search begins at
\* its place.
LEMMA ResumeSearchIs ==
  ASSUME NEW act \in Seq(DThread), NEW x, NEW j \in Nat, InList(act, x),
         j <= Len(act) + 1, j \in 1..Len(act) => act[j] # x
  PROVE  LET f == ResumeSearch(x, act, j) IN f \in 1..Len(act) /\ act[f] = x /\ f # j
<1> DEFINE later == {k \in j + 1..Len(act) : act[k] = x}
           earlier == {k \in 1..j - 1 : act[k] = x}
           f == ResumeSearch(x, act, j)
<1>n. Len(act) \in Nat
  OBVIOUS
<1>0. f = IF later # {} THEN CHOOSE k \in later : TRUE
          ELSE IF earlier # {} THEN CHOOSE k \in earlier : TRUE ELSE j
  BY DEF ResumeSearch
<1>1. PICK i \in 1..Len(act) : act[i] = x
  BY DEF InList
<1>2. i # j
  BY <1>1
<1>3. \A k \in later : k \in 1..Len(act) /\ act[k] = x /\ k # j
  BY <1>n
<1>4. later = {} => i \in earlier
  BY <1>1, <1>2, <1>n
<1>5. later = {} => \A k \in earlier : act[k] = x /\ k # j
  BY <1>n
<1>6. CASE later # {}
  <2>1. f \in later
    <3> HIDE DEF later, earlier, f
    <3> QED
      BY <1>0, <1>6
  <2> QED
    BY <2>1, <1>3
<1>7. CASE later = {}
  <2>1. f \in earlier
    <3> HIDE DEF later, earlier, f
    <3> QED
      BY <1>0, <1>4, <1>7
  <2>2. f \in 1..j - 1 /\ act[f] = x
    BY <2>1
  <2>3. f \in 1..Len(act)
    BY <2>2, <1>n
  <2> QED
    BY <2>2, <2>3
<1> QED
  BY <1>6, <1>7

LEMMA DStartKeeps ==
  ASSUME DInv, GC_start_world_darwin
  PROVE  DInv'
<1>u. /\ GC_query_task_threads' = GC_query_task_threads /\ tasks' = tasks
      /\ ctl' = ctl /\ port' = port /\ ack' = ack
      /\ mpState' = mpState /\ mp' = mp /\ dirtyLock' = dirtyLock /\ isProt' = isProt
      /\ isDirty' = isDirty /\ wasStored' = wasStored /\ lost' = lost
      /\ nCycles' = nCycles
  BY DEF GC_start_world_darwin, excVars, pageVars
<1>g. gp = "resume" /\ GC_query_task_threads
  BY DEF GC_start_world_darwin
<1>t. DTypes
  BY DEF DInv
<1>f. /\ suspCount \in [DThread -> 0..1] /\ machThreads \in Seq(DRecord)
      /\ lists \in DLists /\ lists.act \in Seq(DThread) /\ lists.j \in Nat
      /\ Len(lists.act) \in Nat /\ lists.at \in 1..Len(lists.act) + 1
      /\ Len(machThreads) \in Nat
      /\ \A i \in 1..Len(machThreads) :
           machThreads[i].thread \in DThread /\ machThreads[i].suspended \in BOOLEAN
  BY <1>t, DFlat
<1>r. /\ \A i, k \in 1..Len(machThreads) : machThreads[i].thread = machThreads[k].thread => i = k
      /\ \A t \in DThread : suspCount[t] = 1 <=>
           \E i \in 1..Len(machThreads) : machThreads[i].thread = t /\ machThreads[i].suspended
  BY <1>g DEF DInv, DRecords
<1>s. /\ \A t \in DThread : suspCount[t] = 1 => InList(lists.act, t)
      /\ lists.j <= Len(lists.act) + 1
      /\ lists.j \in 1..Len(lists.act) => \A i \in 1..Len(machThreads) :
           machThreads[i].suspended => lists.act[lists.j] # machThreads[i].thread
  BY <1>g DEF DInv, DResume
<1>1. CASE machThreads = <<>>
  <2>a. gp' = "idle" /\ lists' = lists /\ suspCount' = suspCount /\ machThreads' = machThreads
    BY <1>1 DEF GC_start_world_darwin
  <2>1. \A t \in DThread : suspCount[t] # 1
    BY <1>1, <1>r
  <2>2. DTypes'
    BY <2>a, <1>u, <1>t DEF DTypes, DPhases
  <2>3. DThreads'
    BY <2>1, <2>a, <1>u DEF DInv, DThreads
  <2>4. DFaults' /\ DMessages' /\ DPage'
    BY <2>a, <1>u, <1>g, DExcFrame DEF Calm
  <2>5. DStill' /\ DListed' /\ DWalk' /\ DResume'
    BY <2>a DEF DStill, DListed, DWalk, DResume
  <2>6. DRecords'
    BY <2>a, <1>r DEF DRecords
  <2> QED
    BY <2>2, <2>3, <2>4, <2>5, <2>6 DEF DInv
<1>2. CASE machThreads # <<>>
  <2>a. machThreads' = Tail(machThreads) /\ gp' = gp
    BY <1>2 DEF GC_start_world_darwin
  <2>b. /\ machThreads' \in Seq(DRecord) /\ Len(machThreads') = Len(machThreads) - 1
        /\ Len(machThreads) >= 1 /\ Head(machThreads) = machThreads[1]
        /\ \A i \in 1..Len(machThreads) - 1 : machThreads'[i] = machThreads[i + 1]
    BY <2>a, <1>2, <1>f, TailIs
  <2>c. /\ 1 \in 1..Len(machThreads)
        /\ \A i \in 1..Len(machThreads') : /\ i + 1 \in 1..Len(machThreads) /\ i + 1 # 1
                                           /\ machThreads'[i] = machThreads[i + 1]
        /\ \A i \in 1..Len(machThreads) :
             i # 1 => i - 1 \in 1..Len(machThreads') /\ (i - 1) + 1 = i
    BY <2>b, <1>f
  <2>x. PICK x \in DThread : x = machThreads[1].thread
    BY <2>c, <1>f
  <2>d. \A i \in 1..Len(machThreads') : machThreads'[i].thread # x
    BY <2>c, <2>x, <1>r
  <2>i. \A i, k \in 1..Len(machThreads') : machThreads'[i].thread = machThreads'[k].thread => i = k
    <3> SUFFICES ASSUME NEW i \in 1..Len(machThreads'), NEW k \in 1..Len(machThreads'),
                        machThreads'[i].thread = machThreads'[k].thread
                 PROVE  i = k
      OBVIOUS
    <3>1. i + 1 = k + 1
      BY <2>c, <1>r
    <3> QED
      BY <3>1, <2>b, <1>f
  <2>e. ASSUME NEW t \in DThread, t # x
        PROVE  (\E i \in 1..Len(machThreads') : machThreads'[i].thread = t /\ machThreads'[i].suspended)
               <=> suspCount[t] = 1
    <3>1. ASSUME NEW i \in 1..Len(machThreads'), machThreads'[i].thread = t,
                 machThreads'[i].suspended
          PROVE  suspCount[t] = 1
      BY <3>1, <2>c, <1>r
    <3>2. ASSUME NEW i \in 1..Len(machThreads), machThreads[i].thread = t, machThreads[i].suspended
          PROVE  \E k \in 1..Len(machThreads') : machThreads'[k].thread = t /\ machThreads'[k].suspended
      <4>1. i # 1
        BY <3>2, <2>e, <2>x
      <4>2. PICK k \in 1..Len(machThreads') : k + 1 = i
        BY <4>1, <2>c
      <4>3. machThreads'[k] = machThreads[i]
        BY <4>2, <2>c
      <4> QED
        BY <4>3, <3>2
    <3> QED
      BY <3>1, <3>2, <1>r
  <2>f. DFaults' /\ DMessages' /\ DPage'
    BY <2>a, <1>u, <1>g, DExcFrame DEF Calm
  <2>g. DStill' /\ DListed' /\ DWalk'
    BY <2>a, <1>g DEF DStill, DListed, DWalk
  <2>1. CASE machThreads[1].suspended
    <3>1. suspCount[x] = 1 /\ InList(lists.act, x)
      BY <2>1, <2>c, <2>x, <1>r, <1>s
    <3>2. lists.j \in 1..Len(lists.act) => lists.act[lists.j] # x
      BY <2>1, <2>c, <2>x, <1>s
    <3>3. PICK f : f = ResumeSearch(x, lists.act, lists.j)
      OBVIOUS
    <3>4. f \in 1..Len(lists.act) /\ lists.act[f] = x /\ f # lists.j
      BY <3>1, <3>2, <3>3, <1>s, <1>f, ResumeSearchIs
    <3>5. /\ lists' = [lists EXCEPT !.j = f]
          /\ suspCount' = [suspCount EXCEPT ![x] = @ - 1]
      BY <3>3, <3>4, <2>1, <2>b, <2>x, <1>2 DEF GC_start_world_darwin, GC_thread_resume
    <3>6. /\ suspCount' \in [DThread -> 0..1] /\ suspCount'[x] = 0
          /\ \A t \in DThread : t # x => suspCount'[t] = suspCount[t]
      BY <3>1, <3>5, <1>f
    <3>n. f \in Nat /\ f <= Len(lists.act) + 1
      BY <3>4, <1>f
    <3>7. /\ lists' \in DLists /\ lists'.act = lists.act /\ lists'.at = lists.at
          /\ lists'.j = f
      BY <3>5, <3>n, <1>f DEF DLists
    <3>8. DTypes'
      BY <3>6, <3>7, <2>a, <2>b, <1>u, <1>t DEF DTypes
    <3>9. DThreads'
      BY <3>6, <2>a, <1>u DEF DInv, DThreads
    <3>10. DRecords'
      <4>1. ASSUME NEW t \in DThread
            PROVE  suspCount'[t] = 1 <=> \E i \in 1..Len(machThreads') :
                     machThreads'[i].thread = t /\ machThreads'[i].suspended
        BY <3>6, <2>d, <2>e
      <4> QED
        BY <4>1, <2>i DEF DRecords
    <3>11. DResume'
      <4>2. \A t \in DThread : suspCount'[t] = 1 => InList(lists'.act, t)
        BY <3>6, <3>7, <1>s
      <4>3. \A i \in 1..Len(machThreads') : lists'.act[lists'.j] # machThreads'[i].thread
        BY <3>4, <3>7, <2>d
      <4> QED
        BY <4>2, <4>3, <3>7, <3>n DEF DResume
    <3> QED
      BY <3>8, <3>9, <3>10, <3>11, <2>f, <2>g DEF DInv
  <2>2. CASE ~machThreads[1].suspended
    <3>1. lists' = lists /\ suspCount' = suspCount
      BY <2>2, <2>b, <1>2 DEF GC_start_world_darwin
    <3>2. suspCount[x] # 1
      <4>1. \A i \in 1..Len(machThreads) : machThreads[i].thread = x => i = 1
        BY <2>c, <2>x, <1>r
      <4> QED
        BY <4>1, <2>2, <1>r
    <3>3. DTypes'
      BY <3>1, <2>a, <2>b, <1>u, <1>t DEF DTypes
    <3>4. DThreads'
      BY <3>1, <2>a, <1>u DEF DInv, DThreads
    <3>5. DRecords'
      <4>1. ASSUME NEW t \in DThread
            PROVE  suspCount'[t] = 1 <=> \E i \in 1..Len(machThreads') :
                     machThreads'[i].thread = t /\ machThreads'[i].suspended
        BY <3>1, <3>2, <2>d, <2>e
      <4> QED
        BY <4>1, <2>i DEF DRecords
    <3>6. DResume'
      <4>1. lists.j \in 1..Len(lists.act) => \A i \in 1..Len(machThreads') :
              machThreads'[i].suspended => lists.act[lists.j] # machThreads'[i].thread
        <5> SUFFICES ASSUME lists.j \in 1..Len(lists.act), NEW i \in 1..Len(machThreads'),
                            machThreads'[i].suspended
                     PROVE  lists.act[lists.j] # machThreads'[i].thread
          OBVIOUS
        <5>1. i + 1 \in 1..Len(machThreads) /\ machThreads'[i] = machThreads[i + 1]
          BY <2>c
        <5> QED
          BY <5>1, <1>s
      <4> QED
        BY <4>1, <3>1, <1>s DEF DResume
    <3> QED
      BY <3>3, <3>4, <3>5, <3>6, <2>f, <2>g DEF DInv
  <2> QED
    BY <2>1, <2>2
<1> QED
  BY <1>1, <1>2

LEMMA ResumeRegisteredKeeps ==
  ASSUME DInv, ResumeRegistered
  PROVE  DInv'
<1>u. /\ GC_query_task_threads' = GC_query_task_threads /\ tasks' = tasks
      /\ ctl' = ctl /\ port' = port /\ ack' = ack
      /\ mpState' = mpState /\ mp' = mp /\ dirtyLock' = dirtyLock /\ isProt' = isProt
      /\ isDirty' = isDirty /\ wasStored' = wasStored /\ lost' = lost
      /\ machThreads' = machThreads /\ nCycles' = nCycles /\ lists' = lists
  BY DEF ResumeRegistered, excVars, pageVars
<1>g. gp = "resume" /\ ~GC_query_task_threads
  BY DEF ResumeRegistered
<1>t. DTypes
  BY DEF DInv
<1>f. suspCount \in [DThread -> 0..1] /\ tasks \in Seq(DThread)
  BY <1>t, DFlat
<1>r. \A x : InList(tasks, x) <=> x \in Range(tasks)
  BY <1>f, InListIs
<1>q. DRecords' /\ DListed' /\ DWalk' /\ DResume'
  BY <1>u, <1>g DEF DRecords, DListed, DWalk, DResume
<1>1. CASE \E t \in Range(tasks) \ {Me} :
          /\ ctl[t] # "blocking" /\ suspCount[t] > 0 /\ GC_thread_resume(t) /\ UNCHANGED gp
  <2>1. PICK t \in Range(tasks) \ {Me} :
          /\ suspCount[t] > 0 /\ suspCount' = [suspCount EXCEPT ![t] = @ - 1] /\ gp' = gp
    BY <1>1 DEF GC_thread_resume
  <2>2. t \in DThread
    BY <1>r, <1>f, InListIs
  <2>4. /\ suspCount' \in [DThread -> 0..1]
        /\ \A x \in DThread : suspCount'[x] = IF x = t THEN 0 ELSE suspCount[x]
    BY <2>1, <2>2, <1>f
  <2>5. DTypes'
    BY <2>1, <2>4, <1>u, <1>t DEF DTypes
  <2>6. DThreads'
    BY <2>1, <2>4, <1>u, <1>g DEF DInv, DThreads
  <2>7. DFaults' /\ DMessages' /\ DPage'
    BY <2>1, <1>u, <1>g, DExcFrame DEF Calm
  <2>8. DStill'
    BY <2>1, <1>g DEF DStill
  <2> QED
    BY <2>5, <2>6, <2>7, <2>8, <1>q DEF DInv
<1>2. CASE /\ \A t \in Range(tasks) : ctl[t] = "blocking" \/ suspCount[t] = 0
           /\ gp' = "idle" /\ UNCHANGED suspCount
  <2>1. DTypes'
    BY <1>2, <1>u, <1>t DEF DTypes, DPhases
  <2>2. DThreads'
    <3>1. ASSUME NEW x \in DThread, suspCount[x] = 1 PROVE FALSE
      <4>1. InList(tasks, x) /\ ctl[x] # "blocking"
        BY <3>1 DEF DInv, DThreads
      <4> QED
        BY <4>1, <3>1, <1>2, <1>r
    <3> QED
      BY <3>1, <1>2, <1>u DEF DInv, DThreads
  <2>3. DFaults' /\ DMessages' /\ DPage'
    BY <1>2, <1>u, <1>g, DExcFrame DEF Calm
  <2>4. DStill'
    BY <1>2 DEF DStill
  <2> QED
    BY <2>1, <2>2, <2>3, <2>4, <1>q DEF DInv
<1> QED
  BY <1>1, <1>2 DEF ResumeRegistered

LEMMA DInvInit ==
  ASSUME DarwinInit
  PROVE  DInv
<1>a. First \in Seq(DThread) /\ IsInjective(First) /\ MaxCycles \in Nat /\ Discover \subseteq BOOLEAN
  BY DarwinAssumption
<1>n. \A x : ~InList(<<>>, x)
  BY DEF InList
<1>c. /\ ctl \in [DThread -> {"run", "fault", "blocking", "none", "gone"}]
      /\ \A t \in DThread : ctl[t] = IF t \in Range(First) THEN "run" ELSE "none"
      /\ suspCount \in [DThread -> 0..1] /\ \A t \in DThread : suspCount[t] = 0
  BY DEF DarwinInit
<1>m. mp \in [on : DThread \cup {NoThr}, step : 0..4] /\ mp.on = NoThr /\ mp.step = 0
  BY DEF DarwinInit
<1>1. DTypes
  <2>1. gp = "idle" /\ lists = NoLists /\ lists \in DLists /\ lists.at \in 1..Len(lists.act) + 1
    BY NoListsIs DEF DarwinInit
  <2>2. machThreads \in Seq(DRecord) /\ port \in Seq(DThread \cup {STOP, RESUME})
    BY DEF DarwinInit
  <2>a. GC_query_task_threads \in BOOLEAN
    BY <1>a DEF DarwinInit
  <2>b. nCycles \in 0..MaxCycles /\ tasks \in Seq(DThread)
    BY <1>a DEF DarwinInit
  <2>3. /\ isProt \in BOOLEAN /\ isDirty \in BOOLEAN /\ wasStored \in BOOLEAN /\ lost \in BOOLEAN
        /\ ack \in BOOLEAN /\ dirtyLock \in BOOLEAN /\ mpState = "normal"
    BY DEF DarwinInit
  <2> QED
    BY <2>1, <2>2, <2>a, <2>b, <2>3, <1>c, <1>m DEF DTypes, DPhases
<1>2. DThreads
  <2>1. \A t \in DThread : InList(First, t) <=> t \in Range(First)
    BY <1>a, InListIs
  <2>2. tasks = First
    BY DEF DarwinInit
  <2> QED
    BY <2>1, <2>2, <1>a, <1>c DEF DThreads
<1>3. DFaults
  <2>1. IsInjective(<<>>)
    BY DEF IsInjective
  <2>2. port = <<>> /\ dirtyLock = FALSE
    BY DEF DarwinInit
  <2> QED
    BY <2>1, <2>2, <1>n, <1>c, <1>m, DNames DEF DFaults
<1>4. DMessages
  BY <1>n DEF DarwinInit, DMessages
<1>5. DPage
  BY DEF DarwinInit, DPage
<1>6. DStill /\ DListed /\ DWalk /\ DResume
  BY DEF DarwinInit, DStill, DListed, DWalk, DResume
<1>7. DRecords
  BY DEF DarwinInit, DRecords
<1> QED
  BY <1>1, <1>2, <1>3, <1>4, <1>5, <1>6, <1>7 DEF DInv

LEMMA DInvNext ==
  ASSUME DInv, [DarwinNext]_darwinVars
  PROVE  DInv'
<1>1. CASE UNCHANGED darwinVars
  <2>u. /\ GC_query_task_threads' = GC_query_task_threads /\ tasks' = tasks
        /\ suspCount' = suspCount /\ gp' = gp /\ lists' = lists /\ machThreads' = machThreads
        /\ nCycles' = nCycles /\ ack' = ack /\ mpState' = mpState /\ mp' = mp /\ isProt' = isProt
        /\ isDirty' = isDirty /\ lost' = lost /\ dirtyLock' = dirtyLock /\ port' = port
        /\ wasStored' = wasStored /\ ctl' = ctl
    BY <1>1 DEF darwinVars
  <2>1. DTypes' /\ DThreads' /\ DFaults' /\ DPage' /\ DStill'
    BY <2>u DEF DInv, DTypes, DThreads, DFaults, DPage, DStill
  <2>2. DMessages'
    BY <2>u DEF DInv, DMessages, Quiet
  <2>3. DRecords' /\ DListed' /\ DWalk' /\ DResume'
    BY <2>u, DFrame DEF DInv
  <2> QED
    BY <2>1, <2>2, <2>3 DEF DInv
<1>2. ASSUME NEW t \in DThread,
             StoreWord(t) \/ Exit(t) \/ Blocking(t) \/ \E u \in DThread : Create(t, u)
      PROVE  DInv'
  BY <1>2, StoreWordKeeps, DExitKeeps, DBlockingKeeps, DCreateKeeps
<1>3. CASE MprotectThread \/ catch_exception_raise \/ GC_stop_world_darwin
  BY <1>3, DMprotectKeeps, DCatchKeeps, DStopKeeps
<1>4. CASE CollectorStep
  BY <1>4, GetListKeeps, DWalkKeeps, EndOfListKeeps, SuspendRegisteredKeeps, MprotectStopKeeps,
     DReadDirtyKeeps, MprotectResumeKeeps, DStartKeeps, ResumeRegisteredKeeps DEF CollectorStep
<1> QED
  BY <1>1, <1>2, <1>3, <1>4 DEF DarwinNext

\* The port has each faulting thread once, and one message of the collector.
LEMMA PortIsShort ==
  ASSUME DInv
  PROVE  Len(port) <= Cardinality(DThread)
<1>t. DTypes
  BY DEF DInv
<1>f. /\ port \in Seq(DThread \cup {STOP, RESUME}) /\ Len(port) \in Nat
      /\ \A i, j \in 1..Len(port) : port[i] = port[j] => i = j
      /\ ~InList(port, Me)
  <2>1. port \in Seq(DThread \cup {STOP, RESUME}) /\ Len(port) \in Nat
    BY <1>t, DFlat
  <2>2. IsInjective(port) /\ ~InList(port, Me)
    BY DNames DEF DInv, DFaults
  <2> QED
    BY <2>1, <2>2, InListIs
<1>1. ~(InList(port, STOP) /\ InList(port, RESUME))
  <2>1. port = <<>> => ~InList(port, STOP) /\ ~InList(port, RESUME)
    BY DEF InList
  <2>2. Len(port) = 1 /\ port[1] = RESUME => ~InList(port, STOP)
    BY DNames DEF InList
  <2>3. gp \in DPhases
    BY <1>t, DFlat
  <2> QED
    BY <2>1, <2>2, <2>3 DEF DInv, DMessages, DPhases, Quiet
\* Me never faults: its place is that of the message.
<1> DEFINE g == [i \in 1..Len(port) |-> IF port[i] \in DThread THEN port[i] ELSE Me]
<1>2. \A i \in 1..Len(port) : port[i] \in DThread \cup {STOP, RESUME} /\ port[i] # Me
  BY <1>f DEF InList
<1>3. g \in [1..Len(port) -> DThread]
  BY DNames
<1>4. ASSUME NEW i \in 1..Len(port), NEW k \in 1..Len(port), g[i] = g[k]
      PROVE  i = k
  <2>1. port[i] \in DThread <=> port[k] \in DThread
    BY <1>4, <1>2
  <2>2. CASE port[i] \in DThread
    BY <2>1, <2>2, <1>4, <1>f
  <2>3. CASE port[i] \notin DThread
    <3>1. port[i] \in {STOP, RESUME} /\ port[k] \in {STOP, RESUME}
      BY <2>1, <2>3, <1>2
    <3>2. port[i] = port[k]
      BY <3>1, <1>1 DEF InList
    <3> QED
      BY <3>2, <1>f
  <2> QED
    BY <2>2, <2>3
<1>5. g \in Injection(1..Len(port), DThread)
  <2> HIDE DEF g
  <2>1. IsInjective(g)
    BY <1>3, <1>4 DEF IsInjective
  <2> QED
    BY <1>3, <1>4, <2>1 DEF Injection
<1>6. IsFiniteSet(DThread)
  BY DarwinAssumption
<1>7. Cardinality(1..Len(port)) <= Cardinality(DThread)
  <2> HIDE DEF g
  <2> QED
    BY <1>5, <1>6, FS_Injection
<1>8. Cardinality(1..Len(port)) = Len(port)
  <2>1. \A a, b \in Int : a <= b => Cardinality(a..b) = b - a + 1
    BY FS_Interval
  <2>2. CASE Len(port) = 0
    <3>1. 1..Len(port) = {}
      BY <2>2
    <3> QED
      BY <3>1, <2>2, FS_EmptySet
  <2>3. CASE Len(port) >= 1
    BY <2>1, <2>3, <1>f
  <2> QED
    BY <2>2, <2>3, <1>f
<1> QED
  BY <1>7, <1>8

LEMMA DSoundIs ==
  ASSUME DInv
  PROVE  DarwinSound
<1>t. DTypes
  BY DEF DInv
<1>f. tasks \in Seq(DThread) /\ suspCount \in [DThread -> 0..1]
  BY <1>t, DFlat
<1>r. \A x : InList(tasks, x) <=> x \in Range(tasks)
  BY <1>f, InListIs
<1>s. \A x \in Range(tasks) : x \in DThread
  BY <1>r, <1>f, InListIs
<1>1. DarwinTypeOK
  <2>1. Range(tasks) = {t \in DThread : ctl[t] \in {"run", "fault", "blocking"}}
    BY <1>r, <1>s DEF DInv, DThreads
  <2>2. IsInjective(tasks)
    BY DEF DInv, DThreads
  <2>3. {isProt, isDirty, wasStored, lost, ack, dirtyLock} \subseteq BOOLEAN
    BY <1>t, DFlat
  <2> QED
    BY <2>1, <2>2, <2>3, <1>t, DFlat, PortIsShort DEF DarwinTypeOK
<1>2. StoppedForGood
  <2> SUFFICES ASSUME gp \in {"stopped", "mprotect_resume", "resuming"} PROVE StoppedForGood
    BY DEF StoppedForGood
  <2>1. ASSUME NEW t \in Range(tasks) \ {Me} PROVE suspCount[t] > 0 \/ ctl[t] = "blocking"
    BY <1>r, <1>s DEF DInv, DStill
  <2>2. mp.step = 0
    BY DEF DInv, DMessages, Quiet
  <2>3. ~dirtyLock /\ mp.on = NoThr
    BY <2>2 DEF DInv, DFaults
  <2>4. gp = "stopped" => port = <<>>
    BY DEF DInv, DMessages, Quiet
  <2> QED
    BY <2>1, <2>3, <2>4 DEF StoppedForGood
<1>3. AllResumed
  <2>1. gp = "idle" => \A t \in DThread : suspCount[t] # 1
    BY DEF DInv, DThreads
  <2>2. \A t \in DThread : suspCount[t] = 0 \/ suspCount[t] = 1
    BY <1>f
  <2> QED
    BY <2>1, <2>2, <1>s DEF AllResumed
<1>4. MprotectOrder
  <2>1. gp \in DPhases
    BY <1>t, DFlat
  <2> QED
    BY <2>1 DEF DInv, DMessages, DPhases, MprotectOrder
<1>5. NoStoreLost
  BY DEF DInv, DPage, NoStoreLost
<1> QED
  BY <1>1, <1>2, <1>3, <1>4, <1>5 DEF DarwinSound

\* The stop of the world on Darwin, for any number of threads that come and go
\* while the kernel's lists are gone through: GC_stop_world suspends every
\* thread once and GC_start_world resumes it, the messages to GC_mprotect_thread
\* are taken in the states they are meant for, and no store to a protected page
\* is missed.
THEOREM DarwinStopsTheWorld == DarwinSpec => []DarwinSound
<1>1. DarwinInit => DInv
  BY DInvInit
<1>2. DInv /\ [DarwinNext]_darwinVars => DInv'
  BY DInvNext
<1>3. DInv => DarwinSound
  BY DSoundIs
<1> QED
  BY <1>1, <1>2, <1>3, PTL DEF DarwinSpec
=============================================================================
