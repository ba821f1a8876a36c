--------------------------- MODULE ForwarderProofs ---------------------------
(***************************************************************************)
(* Proofs about Forwarder for every request, site, list of features and    *)
(* upstream answer: headers, status and journey first, which hold whatever *)
(* an action does to a body; then what the renderers make of a page; then  *)
(* what the actions for JSON make of a tree, and with it the stamps.       *)
(***************************************************************************)
EXTENDS Forwarder, CommonLemmas, FiniteSetTheorems, SequenceTheorems, TLAPS

USE HopByHopAssumption DEF HopByHopAssumption

-----------------------------------------------------------------------------
(* The headers of the upstream request *)

\* What is true of a header whichever of the site's are still pending.
Clean(o) == o[1] \notin HopByHop /\ (o[1] = "host" => o[2] = world.dest)

\* A header that a header of the site has replaced is the site's.
Won(o, h) ==
    h.name = o[1] /\ ~IsForbiddenSiteHeader(h.name) =>
        \E k \in world.siteHeaders : <<k.name, k.value>> = o

HeadersInv ==
    /\ phase = "copy" => outbound = {} /\ pending = {}
    /\ pending \subseteq world.siteHeaders
    /\ phase \notin {"copy", "send"} => pending = {}
    /\ \A o \in outbound : Clean(o)
    /\ phase # "copy" =>
          \A o \in outbound, h \in world.siteHeaders \ pending : Won(o, h)

\* After the request is sent nothing is set any more.
LEMMA HeadersKept ==
    ASSUME HeadersInv, UNCHANGED <<world, outbound, pending>>,
           phase' # "copy", phase # "copy", phase = "send" => pending = {}
    PROVE  HeadersInv'
<1>1. /\ world' = world /\ outbound' = outbound /\ pending' = pending
  OBVIOUS
<1>2. pending' = {} \/ phase' = "send" \/ phase' \notin {"copy", "send"}
  OBVIOUS
<1>3. (\A o \in outbound : Clean(o))'
  BY <1>1 DEF HeadersInv, Clean
<1>4. (\A o \in outbound, h \in world.siteHeaders \ pending : Won(o, h))'
  BY <1>1 DEF HeadersInv, Won
<1>5. (phase \notin {"copy", "send"} => pending = {})'
  BY <1>1 DEF HeadersInv
<1>6. QED
  BY <1>1, <1>3, <1>4, <1>5 DEF HeadersInv

LEMMA NextHeaders == HeadersInv /\ [Next]_vars => HeadersInv'
<1> SUFFICES ASSUME HeadersInv, [Next]_vars PROVE HeadersInv'
  OBVIOUS
<1>1. CASE CopyHeaders
  <2>1. /\ world' = world /\ phase' = "send" /\ pending' = world.siteHeaders
        /\ outbound' = {h \in world.client : h[1] \notin HopByHop \union {"host"}}
                         \union {<<"host", world.dest>>}
    BY <1>1 DEF CopyHeaders
  <2>2. ASSUME NEW o \in outbound' PROVE Clean(o)'
    <3>1. CASE o[1] \notin HopByHop \union {"host"}
      BY <3>1 DEF Clean
    <3>2. CASE o = <<"host", world.dest>>
      BY <2>1, <3>2 DEF Clean
    <3>3. QED
      BY <2>1, <3>1, <3>2
  <2>3. QED
    BY <2>1, <2>2 DEF HeadersInv
<1>2. CASE SetSiteHeader
  <2>1. PICK h \in pending : outbound' = Override(outbound, h) /\ pending' = pending \ {h}
    BY <1>2 DEF SetSiteHeader
  <2>2. world' = world /\ phase' = "send" /\ phase = "send"
    BY <1>2 DEF SetSiteHeader
  <2>3. h \in world.siteHeaders
    BY DEF HeadersInv
  <2>4. ASSUME NEW o \in outbound'
        PROVE  \/ o \in outbound /\ (IsForbiddenSiteHeader(h.name) \/ o[1] # h.name)
               \/ o = <<h.name, h.value>> /\ ~IsForbiddenSiteHeader(h.name)
    BY <2>1 DEF Override
  <2>5. ASSUME NEW o \in outbound' PROVE Clean(o)'
    <3>1. CASE o \in outbound
      BY <2>2, <3>1 DEF HeadersInv, Clean
    <3>2. CASE o = <<h.name, h.value>> /\ ~IsForbiddenSiteHeader(h.name)
      BY <3>2 DEF Clean, IsForbiddenSiteHeader
    <3>3. QED
      BY <2>4, <3>1, <3>2
  <2>6. ASSUME NEW o \in outbound', NEW k \in world.siteHeaders \ pending' PROVE Won(o, k)'
    <3>1. CASE o \in outbound /\ (IsForbiddenSiteHeader(h.name) \/ o[1] # h.name)
      <4>1. CASE k = h
        BY <3>1, <4>1 DEF Won
      <4>2. CASE k \in world.siteHeaders \ pending
        BY <2>2, <3>1, <4>2 DEF HeadersInv, Won
      <4>3. QED
        BY <2>1, <4>1, <4>2
    <3>2. CASE o = <<h.name, h.value>>
      BY <2>2, <2>3, <3>2 DEF Won
    <3>3. QED
      BY <2>4, <3>1, <3>2
  <2>7. QED
    BY <2>1, <2>2, <2>5, <2>6 DEF HeadersInv
<1>3. CASE SendUpstream
  BY <1>3, HeadersKept DEF SendUpstream, request
<1>4. CASE Decode
  BY <1>4, HeadersKept DEF Decode, request
<1>5. CASE StartFeature
  BY <1>5, HeadersKept DEF StartFeature, request
<1>6. CASE ApplyAction
  BY <1>6, HeadersKept DEF ApplyAction, request
<1>7. CASE EndFeature
  BY <1>7, HeadersKept DEF EndFeature, request
<1>8. CASE Reply
  BY <1>8, HeadersKept DEF Reply, pipeline, request
<1>9. CASE RunJourney
  BY <1>9, HeadersKept DEF RunJourney, pipeline, request
<1>10. CASE UNCHANGED vars
  BY <1>10 DEF vars, pipeline, request, HeadersInv, Clean, Won
<1>11. QED
  BY <1>1, <1>2, <1>3, <1>4, <1>5, <1>6, <1>7, <1>8, <1>9, <1>10 DEF Next, Finished

\* send_upstream with the site's headers in any order: no value of the client's
\* is left for a header the site configures, also when the configured value
\* cannot be sent, and no header of the client's connection is passed on.
THEOREM SiteHeadersAlwaysWin == Spec => []SiteHeadersWin
<1>1. Init => HeadersInv
  BY DEF Init, HeadersInv
<1>2. HeadersInv => SiteHeadersWin
  BY DEF HeadersInv, SiteHeadersWin, Clean, Won
<1>3. QED
  BY <1>1, <1>2, NextHeaders, PTL DEF Spec

-----------------------------------------------------------------------------
(* The headers of the response *)

\* What headers say of a body: how long it is, if they do, and its coding.
Describes(headers, wire) ==
    /\ "content-length" \in DOMAIN headers => headers["content-length"] = wire
    /\ wire.coding = IF "content-encoding" \in DOMAIN headers
                     THEN headers["content-encoding"] ELSE "identity"

Positions(u, name) == {i \in DOMAIN u.headers : u.headers[i][1] = name}

\* The first and the last header of a name are headers of that name.
LEMMA NamedHeader ==
    ASSUME NEW u, u.error = "none", Truthful(u), NEW name, Positions(u, name) # {}
    PROVE  Min(Positions(u, name)) \in Positions(u, name) /\ Max(Positions(u, name)) \in Positions(u, name)
<1>1. u.headers \in Seq(STRING \X STRING)
  BY DEF Truthful
<1>2. Len(u.headers) \in Nat /\ DOMAIN u.headers = 1..Len(u.headers)
  BY <1>1, LenProperties
<1>3. Positions(u, name) \subseteq 1..Len(u.headers) /\ 1 \in Int /\ Len(u.headers) \in Int
  BY <1>2 DEF Positions
<1>4. QED
  BY <1>3, BoundedMax, BoundedMin

\* The headers kept of a truthful upstream describe its body, and a body that
\* came in gzip has a header that says so.
LEMMA CapturedDescribes ==
    ASSUME NEW u, u.error = "none", Truthful(u)
    PROVE  /\ Describes(Captured(u), u.wire)
           /\ FirstValue(u.headers, "content-encoding") = "gzip" =>
                 /\ "content-encoding" \in DOMAIN Captured(u)
                 /\ Captured(u)["content-encoding"] = "gzip"
<1> DEFINE names == {h[1] : h \in Range(u.headers)}
           last == [name \in names |-> u.headers[Max(Positions(u, name))][2]]
<1>1. Captured(u) = IF u.sized THEN Setting(last, "content-length", u.wire) ELSE last
  BY DEF Captured, Positions
<1>2. \A name : name \in names <=> Positions(u, name) # {}
  BY DEF Positions, Range
<1>3. "content-length" \notin names
  <2>1. Positions(u, "content-length") = {}
    BY DEF Truthful, Positions
  <2> HIDE DEF names
  <2>2. QED
    BY <1>2, <2>1
<1>4. /\ DOMAIN last = names
      /\ \A name \in names : last[name] = u.headers[Max(Positions(u, name))][2]
  OBVIOUS
<1> HIDE DEF names, last
<1>5. /\ "content-length" \in DOMAIN Captured(u) => Captured(u)["content-length"] = u.wire
      /\ "content-encoding" \in DOMAIN Captured(u) <=> "content-encoding" \in names
      /\ "content-encoding" \in names => Captured(u)["content-encoding"] = last["content-encoding"]
  BY <1>1, <1>3, <1>4 DEF Setting
<1>6. Positions(u, "content-encoding") # {} =>
         /\ u.headers[Max(Positions(u, "content-encoding"))][2] = u.wire.coding
         /\ u.headers[Min(Positions(u, "content-encoding"))][2] = u.wire.coding
  <2>1. ASSUME NEW i \in Positions(u, "content-encoding") PROVE u.headers[i][2] = u.wire.coding
    BY DEF Truthful, Positions
  <2>2. QED
    BY <2>1, NamedHeader
<1>7. Positions(u, "content-encoding") = {} => u.wire.coding = "identity"
  BY DEF Truthful, Positions
<1>8. FirstValue(u.headers, "content-encoding") =
         IF Positions(u, "content-encoding") = {} THEN "none"
         ELSE u.headers[Min(Positions(u, "content-encoding"))][2]
  BY DEF FirstValue, Positions
<1>9. "content-encoding" \in names => last["content-encoding"] = u.wire.coding
  BY <1>2, <1>4, <1>6
<1>10. Describes(Captured(u), u.wire)
  BY <1>2, <1>5, <1>7, <1>9 DEF Describes
<1>11. ASSUME FirstValue(u.headers, "content-encoding") = "gzip"
       PROVE  "content-encoding" \in names /\ u.wire.coding = "gzip"
  BY <1>2, <1>6, <1>8, <1>11
<1>12. QED
  BY <1>5, <1>9, <1>10, <1>11

\* Removing the headers of the connection leaves those that describe the body.
LEMMA StrippedDescribes ==
    ASSUME NEW headers, NEW wire, Describes(headers, wire)
    PROVE  Describes(StripHopByHop(headers), wire)
BY DEF Describes, StripHopByHop, Dropping, Restrict

\* The headers set for a body that was encoded again describe it.
LEMMA FramedDescribes ==
    ASSUME NEW headers, NEW wire,
           \/ wire.coding = "identity"
           \/ /\ wire.coding = "gzip"
              /\ "content-encoding" \in DOMAIN headers
              /\ headers["content-encoding"] = "gzip"
    PROVE  Describes(Framed(headers, wire), wire)
<1> DEFINE kept == Dropping(StripHopByHop(headers),
                            IF wire.coding = "gzip" THEN {} ELSE {"content-encoding"})
<1>1. Framed(headers, wire) = Setting(kept, "content-length", wire)
  BY DEF Framed
<1>2. wire.coding = IF "content-encoding" \in DOMAIN kept
                    THEN kept["content-encoding"] ELSE "identity"
  <2>1. CASE wire.coding = "identity"
    BY <2>1 DEF Dropping, Restrict
  <2>2. CASE /\ wire.coding = "gzip"
             /\ "content-encoding" \in DOMAIN headers
             /\ headers["content-encoding"] = "gzip"
    BY <2>2 DEF Dropping, StripHopByHop, Restrict
  <2>3. QED
    BY <2>1, <2>2
<1> HIDE DEF kept
<1>3. QED
  BY <1>1, <1>2 DEF Describes, Setting

\* While a body is worked on, the headers are those of the upstream's answer.
FramingInv ==
    /\ Truthful(Up)
    /\ phase \in {"decode", "fold"} => Up.error = "none" /\ received = Captured(Up)
    /\ FramingMatches

\* A response with no error of the upstream: what its headers say is true.
LEMMA StampedMatches ==
    ASSUME NEW u, NEW headers, NEW wire, NEW apply, NEW marks, Describes(headers, wire),
           NEW r \in Stamped(u, headers, wire, apply, marks)
    PROVE  Describes(r.headers, r.wire)
<1>1. r.wire = wire /\ r.headers = Setting(headers, "x-rre-apply-status", apply)
  BY DEF Stamped
<1>2. QED
  BY <1>1 DEF Describes, Setting

LEMMA MatchesDescribes ==
    FramingMatches <=> (Up.error = "none" => \A r \in response : Describes(r.headers, r.wire))
BY DEF FramingMatches, Sent, Describes

LEMMA NextFraming == FramingInv /\ [Next]_vars => FramingInv'
<1> SUFFICES ASSUME FramingInv, [Next]_vars PROVE FramingInv'
  OBVIOUS
<1>1. world' = world
  BY DEF Next, vars, CopyHeaders, SetSiteHeader, SendUpstream, Decode, StartFeature,
         ApplyAction, EndFeature, Reply, RunJourney, Finished
<1>2. Up' = Up /\ Truthful(Up)'
  BY <1>1 DEF FramingInv, Up
<1>3. ASSUME Up.error = "none" => \A r \in response' : Describes(r.headers, r.wire)
      PROVE  FramingMatches'
  BY <1>2, <1>3 DEF FramingMatches, Sent, Describes
<1>4. Up.error = "none" => \A r \in response : Describes(r.headers, r.wire)
  BY MatchesDescribes DEF FramingInv
<1>5. CASE SendUpstream
  <2>1. CASE Up.error # "none"
    BY <1>2, <1>3, <1>5, <2>1 DEF SendUpstream, FramingInv
  <2>2. CASE Up.error = "none"
    <3>1. received' = Captured(Up)
      BY <1>5, <2>2 DEF SendUpstream
    <3>2. Describes(Captured(Up), Up.wire)
      BY <2>2, CapturedDescribes DEF FramingInv
    <3>3. \/ response' = Stamped(Up, StripHopByHop(received'), Up.wire, "skipped", {})
          \/ response' = response
      BY <1>5, <2>2 DEF SendUpstream
    <3>4. \A r \in response' : Describes(r.headers, r.wire)
      BY <1>4, <2>2, <3>1, <3>2, <3>3, StrippedDescribes, StampedMatches
    <3>5. QED
      BY <1>2, <1>3, <2>2, <3>1, <3>4 DEF FramingInv
  <2>3. QED
    BY <2>1, <2>2
<1>6. CASE Decode
  <2>1. Up.error = "none" /\ received = Captured(Up) /\ received' = received
    BY <1>6 DEF Decode, FramingInv
  <2>2. Describes(received, Up.wire)
    BY <2>1, CapturedDescribes DEF FramingInv
  <2>3. \/ response' = Stamped(Up, received, Up.wire, "skipped", {})
        \/ response' = response
    BY <1>6 DEF Decode
  <2>4. \A r \in response' : Describes(r.headers, r.wire)
    BY <1>4, <2>1, <2>2, <2>3, StampedMatches
  <2>5. QED
    BY <1>2, <1>3, <2>1, <2>4 DEF FramingInv
<1>7. CASE Reply
  <2>1. Up.error = "none" /\ received = Captured(Up) /\ phase' = "sent"
    BY <1>7 DEF Reply, FramingInv
  <2>2. PICK gzips \in BOOLEAN :
           LET text == [form |-> Running.kind, value |-> InjectExpressions(Running).value]
               wire == Reencoded(Up, text, gzips)
           IN  response' = Stamped(Up, Framed(received, wire), wire,
                                   IF anyApplied THEN "ok" ELSE "skipped", MatchedIds)
    BY <1>7 DEF Reply
  <2> DEFINE wire == Reencoded(Up, [form |-> Running.kind, value |-> InjectExpressions(Running).value], gzips)
  <2>3. wire.coding = IF FirstValue(Up.headers, "content-encoding") = "gzip" /\ gzips
                      THEN "gzip" ELSE "identity"
    BY DEF Reencoded, Wire
  <2>4. response' = Stamped(Up, Framed(received, wire), wire,
                            IF anyApplied THEN "ok" ELSE "skipped", MatchedIds)
    BY <2>2
  <2> HIDE DEF wire
  <2>5. FirstValue(Up.headers, "content-encoding") = "gzip" =>
           /\ "content-encoding" \in DOMAIN received
           /\ received["content-encoding"] = "gzip"
    BY <2>1, CapturedDescribes DEF FramingInv
  <2>6. Describes(Framed(received, wire), wire)
    BY <2>3, <2>5, FramedDescribes
  <2>7. \A r \in response' : Describes(r.headers, r.wire)
    BY <2>4, <2>6, StampedMatches
  <2>8. QED
    BY <1>2, <1>3, <2>1, <2>7 DEF FramingInv
<1>8. CASE /\ UNCHANGED <<received, response>>
           /\ \/ phase' = phase
              \/ phase' \notin {"decode", "fold"}
  BY <1>2, <1>3, <1>4, <1>8 DEF FramingInv
<1>9. QED
  BY <1>5, <1>6, <1>7, <1>8 DEF Next, vars, pipeline, CopyHeaders, SetSiteHeader, StartFeature,
     ApplyAction, EndFeature, RunJourney, Finished

\* forward and reencode: whichever way the response is made - passed through,
\* served untouched because it cannot be modified, or encoded again, in gzip or
\* not - its headers say how long its body is and how it is encoded.
THEOREM FramingAlwaysMatches == Spec => []FramingMatches
<1>1. Init => FramingInv
  BY UpstreamAssumption DEF Init, UpstreamAssumption, FramingInv, FramingMatches, Sent, Up
<1>2. FramingInv => FramingMatches
  BY DEF FramingInv
<1>3. QED
  BY <1>1, <1>2, NextFraming, PTL DEF Spec

-----------------------------------------------------------------------------
(* The status of the response and its marks *)

\* A feature that changed the body has run an action, so that it is marked.
MarksInv ==
    /\ matched \in Seq(Range(matched))
    /\ anyApplied <=> matched # <<>>
    /\ \A f \in serving :
          /\ "run" \in DOMAIN f
          /\ f.run \in Seq(Range(f.run)) /\ (f.applied => f.run # <<>>)
    /\ StatusAgrees

LEMMA AppendRange ==
    ASSUME NEW s, s \in Seq(Range(s)), NEW e
    PROVE  Append(s, e) # <<>> /\ Append(s, e) \in Seq(Range(Append(s, e)))
<1> DEFINE S == Range(s) \union {e}
           new == Append(s, e)
<1>1. s \in Seq(S) /\ e \in S
  <2>1. Len(s) \in Nat /\ s \in [1..Len(s) -> Range(s)]
    BY LenProperties
  <2>2. \A i \in 1..Len(s) : s[i] \in S
    BY <2>1
  <2>3. QED
    BY <2>1, <2>2, SeqDef
<1> HIDE DEF S
<1>2. new \in Seq(S) /\ new # <<>> /\ Len(new) \in Nat /\ new \in [1..Len(new) -> S]
  <2>1. new \in Seq(S) /\ new # <<>>
    BY <1>1, AppendProperties
  <2> HIDE DEF new
  <2>2. QED
    BY <2>1, LenProperties
<1>3. \A i \in 1..Len(new) : new[i] \in Range(new)
  BY <1>2 DEF Range
<1>4. new \in Seq(Range(new))
  BY <1>2, <1>3
<1>5. QED
  BY <1>2, <1>4

LEMMA FirstMarks == Init => MarksInv
<1>1. <<>> \in Seq(Range(<<>>))
  BY DEF Range
<1>2. QED
  BY <1>1 DEF Init, MarksInv, StatusAgrees, Sent

LEMMA NextMarks == MarksInv /\ [Next]_vars => MarksInv'
<1> SUFFICES ASSUME MarksInv, [Next]_vars PROVE MarksInv'
  OBVIOUS
<1>1. world' = world
  BY DEF Next, vars, CopyHeaders, SetSiteHeader, SendUpstream, Decode, StartFeature,
         ApplyAction, EndFeature, Reply, RunJourney, Finished
<1>2. Up' = Up
  BY <1>1 DEF Up
<1>3. ASSUME Up.error = "none" =>
                \A r \in response' : r.headers["x-rre-apply-status"] = "ok" <=> r.marks # {}
      PROVE  StatusAgrees'
  BY <1>2, <1>3 DEF StatusAgrees, Sent
<1>4. Up.error = "none" =>
         \A r \in response : r.headers["x-rre-apply-status"] = "ok" <=> r.marks # {}
  BY DEF MarksInv, StatusAgrees, Sent
<1>5. ASSUME NEW headers, NEW wire, NEW apply, NEW marks,
             NEW r \in Stamped(Up, headers, wire, apply, marks)
      PROVE  r.headers["x-rre-apply-status"] = apply /\ r.marks = marks
  BY DEF Stamped, Setting
<1>6. CASE SendUpstream
  <2>1. Up.error = "none" =>
           \/ response' = Stamped(Up, StripHopByHop(received'), Up.wire, "skipped", {})
           \/ response' = response
    BY <1>6 DEF SendUpstream
  <2>2. StatusAgrees'
    BY <1>3, <1>4, <1>5, <2>1
  <2>3. QED
    BY <1>6, <2>2 DEF SendUpstream, MarksInv
<1>7. CASE Decode
  <2>1. \/ response' = Stamped(Up, received, Up.wire, "skipped", {})
        \/ response' = response
    BY <1>7 DEF Decode
  <2>2. StatusAgrees'
    BY <1>3, <1>4, <1>5, <2>1
  <2>3. QED
    BY <1>7, <2>2 DEF Decode, MarksInv
<1>8. CASE StartFeature
  <2>1. \A f \in serving' : "run" \in DOMAIN f /\ f.run = <<>> /\ f.applied = FALSE
    BY <1>8 DEF StartFeature
  <2>2. <<>> \in Seq(Range(<<>>))
    BY DEF Range
  <2>3. StatusAgrees'
    BY <1>3, <1>4, <1>8 DEF StartFeature
  <2>4. QED
    BY <1>8, <2>1, <2>2, <2>3 DEF StartFeature, MarksInv
<1>9. CASE ApplyAction
  <2>1. PICK f \in serving : \E r \in {Apply(Running, f.left[1], f.outcomes)} :
            serving' = {[f EXCEPT !.left = Tail(@), !.applied = @ \/ r.changed,
                                  !.run = Append(@, f.left[1].node)]}
    BY <1>9, Zenon DEF ApplyAction
  <2>2. ASSUME NEW g \in serving'
        PROVE  "run" \in DOMAIN g /\ g.run # <<>> /\ g.run \in Seq(Range(g.run))
    <3>1. "run" \in DOMAIN f /\ f.run \in Seq(Range(f.run))
      BY DEF MarksInv
    <3>2. g.run = Append(f.run, f.left[1].node) /\ "run" \in DOMAIN g
      BY <2>1, <3>1, Zenon
    <3>3. /\ Append(f.run, f.left[1].node) # <<>>
          /\ Append(f.run, f.left[1].node) \in Seq(Range(Append(f.run, f.left[1].node)))
      BY <3>1, AppendRange
    <3>4. QED
      BY <3>2, <3>3
  <2>3. StatusAgrees'
    BY <1>3, <1>4, <1>9 DEF ApplyAction
  <2>4. QED
    BY <1>9, <2>2, <2>3 DEF ApplyAction, MarksInv
<1>10. CASE EndFeature
  <2>1. PICK f \in serving :
            /\ matched' = IF Marks(f) THEN Append(matched, Entry(f)) ELSE matched
            /\ anyApplied' = (anyApplied \/ f.applied)
    BY <1>10 DEF EndFeature
  <2>2. Marks(f) <=> f.applied
    BY DEF Marks, MarksInv
  <2>3. serving' = {} /\ response' = response
    BY <1>10 DEF EndFeature
  <2>4. StatusAgrees'
    BY <1>3, <1>4, <2>3
  <2>5. CASE f.applied
    <3>1. matched' = Append(matched, Entry(f)) /\ anyApplied'
      BY <2>1, <2>2, <2>5
    <3>2. matched' # <<>> /\ matched' \in Seq(Range(matched'))
      BY <3>1, AppendRange DEF MarksInv
    <3>3. QED
      BY <2>3, <2>4, <3>1, <3>2 DEF MarksInv
  <2>6. CASE ~f.applied
    <3>1. matched' = matched /\ (anyApplied' <=> anyApplied)
      BY <2>1, <2>2, <2>6
    <3>2. QED
      BY <2>3, <2>4, <3>1 DEF MarksInv
  <2>7. QED
    BY <2>5, <2>6
<1>11. CASE Reply
  <2>1. \E headers, wire : response' = Stamped(Up, headers, wire,
                                  IF anyApplied THEN "ok" ELSE "skipped", MatchedIds)
    BY <1>11 DEF Reply
  <2>2. MatchedIds # {} <=> matched # <<>>
    <3>1. Len(matched) \in Nat /\ DOMAIN matched = 1..Len(matched)
      BY LenProperties DEF MarksInv
    <3>2. matched # <<>> <=> Len(matched) # 0
      BY EmptySeq, <3>1 DEF MarksInv
    <3>3. MatchedIds # {} <=> DOMAIN matched # {}
      BY DEF MatchedIds, Range
    <3>4. QED
      BY <3>1, <3>2, <3>3
  <2>3. StatusAgrees'
    BY <1>3, <1>5, <2>1, <2>2 DEF MarksInv
  <2>4. QED
    BY <1>11, <2>3 DEF Reply, pipeline, MarksInv
<1>12. CASE UNCHANGED <<serving, matched, anyApplied, response>>
  BY <1>3, <1>4, <1>12 DEF MarksInv
<1>13. QED
  BY <1>6, <1>7, <1>8, <1>9, <1>10, <1>11, <1>12 DEF Next, vars, pipeline, CopyHeaders,
     SetSiteHeader, RunJourney, Finished

\* apply_features_html, apply_features_json and stamp: a response is "ok" if and
\* only if it marks at least one feature, whatever the actions of the features
\* do: what counts as applied and what is marked, decided in different places of
\* the loop, never come apart.
THEOREM StatusAlwaysAgrees == Spec => []StatusAgrees
<1>1. Init => MarksInv
  BY FirstMarks
<1>2. MarksInv => StatusAgrees
  BY DEF MarksInv
<1>3. QED
  BY <1>1, <1>2, NextMarks, PTL DEF Spec

-----------------------------------------------------------------------------
(* The answer *)

\* A request is answered once: a response ends it, and is never replaced - not
\* by an error of the upstream, a body that cannot be modified, the reply after
\* the features, nor the journey that runs on the same page afterwards.
THEOREM AnsweredOnce ==
    Spec => /\ [](phase = "sent" <=> response # {})
            /\ [][response # {} => response' = response]_vars
<1> DEFINE Answered == phase = "sent" <=> response # {}
<1>1. Init => Answered
  BY DEF Init
<1>2. ASSUME Answered, [Next]_vars
      PROVE  Answered' /\ (response # {} => response' = response)
  <2>1. \A headers, wire, apply, marks : Stamped(Up, headers, wire, apply, marks) # {}
    BY DEF Stamped
  <2>2. CASE SendUpstream
    <3>1. phase = "send" /\ response = {}
      BY <1>2, <2>2 DEF SendUpstream
    <3>2. \/ phase' = "sent" /\ response' # {}
          \/ phase' = "decode" /\ response' = response
      <4>1. CASE Up.error # "none"
        <5>1. phase' = "sent" /\ \E r : response' = {r}
          BY <2>2, <4>1, ZenonT(30) DEF SendUpstream
        <5>2. QED
          BY <5>1
      <4>2. CASE Up.error = "none"
        BY <2>1, <2>2, <4>2 DEF SendUpstream
      <4>3. QED
        BY <4>1, <4>2
    <3>3. QED
      BY <3>1, <3>2
  <2>3. CASE Decode
    BY <1>2, <2>1, <2>3 DEF Decode
  <2>4. CASE Reply
    BY <1>2, <2>1, <2>4 DEF Reply
  <2>5. CASE ApplyAction
    BY <1>2, <2>5 DEF ApplyAction
  <2>6. CASE CopyHeaders \/ SetSiteHeader
    BY <1>2, <2>6 DEF CopyHeaders, SetSiteHeader
  <2>7. CASE StartFeature \/ EndFeature \/ RunJourney \/ Finished \/ UNCHANGED vars
    BY <1>2, <2>7 DEF StartFeature, EndFeature, RunJourney, Finished, vars
  <2>8. QED
    BY <1>2, <2>2, <2>3, <2>4, <2>5, <2>6, <2>7 DEF Next
<1>3. Answered /\ [Next]_vars => Answered'
  BY <1>2
<1>4. Answered /\ [Next]_vars => [response # {} => response' = response]_vars
  BY <1>2
<1>5. QED
  BY <1>1, <1>3, <1>4, PTL DEF Spec

-----------------------------------------------------------------------------
(* Steps repeated *)

HIDE HopByHopAssumption DEF HopByHopAssumption

\* One step of a job on x, its k-th: the components of an outcome on a JSON
\* body or a page, the actions of a feature, the places of a fragment in a
\* page, the last one first, the segments of a path, or the turns of the
\* loop of parse.
Do(job, x, k) ==
    CASE job.of = "json" ->
            Result(ApplyJsonComponent(x.tree, job.list[k]).tree,
                   x.changed \/ ApplyJsonComponent(x.tree, job.list[k]).changed)
      [] job.of = "html" ->
            LET r == RenderComponent(x.tree.value, job.list[k])
                next == IF x.tree.panicked \/ r.kind = "error" THEN Result(x.tree, FALSE)
                        ELSE IF r.kind = "panic" THEN Result([x.tree EXCEPT !.panicked = TRUE], FALSE)
                        ELSE Result([x.tree EXCEPT !.value = r.doc], r.doc # x.tree.value)
            IN  Result(next.tree, x.changed \/ next.changed)
      [] job.of = "actions" ->
            IF x.panicked THEN x ELSE Apply(x, job.list[k], job.outcomes).tree
      [] job.of = "places" ->
            IF job.last + 1 - k \in job.targets
            THEN PlaceAt(x, job.last + 1 - k, job.mode, job.fragment) ELSE x
      [] job.of = "segments" ->
            IF x.open THEN Descend(x, SubSeq(job.list, 1, k - 1), job.list[k], job.create) ELSE x
      [] job.of = "text" -> ParseSegment(job.list, x)

\* g lists what the first n steps of a job make of a.
Steps(job, a, n, g) ==
    /\ g = [k \in 0..n |-> g[k]]
    /\ g[0] = a
    /\ \A k \in 1..n : g[k] = Do(job, g[k - 1], k)

\* There is such a list for every job.
LEMMA StepsExist ==
    ASSUME NEW job, NEW a, NEW n \in Nat
    PROVE  \E g : Steps(job, a, n, g)
<1> DEFINE T == {j \in 0..n : \E g : Steps(job, a, j, g)}
<1>1. 0 \in T
  <2> DEFINE g == [k \in 0..0 |-> a]
  <2>1. Steps(job, a, 0, g)
    BY DEF Steps
  <2>2. QED
    BY <2>1
<1>2. ASSUME NEW j \in 1..n, j - 1 \in T PROVE j \in T
  <2>1. PICK g : Steps(job, a, j - 1, g)
    BY <1>2
  <2> DEFINE h == [k \in 0..j |-> IF k = j THEN Do(job, g[j - 1], j) ELSE g[k]]
  <2>2. h = [k \in 0..j |-> h[k]] /\ h[0] = a /\ h[j] = Do(job, g[j - 1], j)
    BY <2>1 DEF Steps
  <2>3. \A k \in 0..(j - 1) : h[k] = g[k]
    OBVIOUS
  <2> HIDE DEF h
  <2>4. ASSUME NEW k \in 1..j PROVE h[k] = Do(job, h[k - 1], k)
    <3>1. h[k - 1] = g[k - 1]
      BY <2>3
    <3>2. CASE k = j
      BY <2>2, <3>1, <3>2
    <3>3. CASE k # j
      <4>1. k \in 1..(j - 1)
        BY <3>3
      <4>2. h[k] = g[k]
        BY <2>3, <4>1
      <4>3. QED
        BY <2>1, <3>1, <4>1, <4>2 DEF Steps
    <3>4. QED
      BY <3>2, <3>3
  <2>5. Steps(job, a, j, h)
    BY <2>2, <2>4 DEF Steps
  <2>6. QED
    BY <2>5
<1>3. n \in T
  <2> HIDE DEF T
  <2>1. 0..n \subseteq T
    BY <1>1, <1>2, SetInduction
  <2>2. QED
    BY <2>1
<1>4. QED
  BY <1>3

\* There is one such list.
LEMMA StepsUnique ==
    ASSUME NEW job, NEW a, NEW n \in Nat, NEW g, NEW h,
           Steps(job, a, n, g), Steps(job, a, n, h)
    PROVE  \A k \in 0..n : g[k] = h[k]
<1> DEFINE T == {k \in 0..n : g[k] = h[k]}
<1>1. 0 \in T
  BY DEF Steps
<1>2. ASSUME NEW k \in 1..n, k - 1 \in T PROVE k \in T
  <2>1. g[k] = Do(job, g[k - 1], k) /\ h[k] = Do(job, h[k - 1], k)
    BY DEF Steps
  <2>2. g[k - 1] = h[k - 1]
    BY <1>2
  <2>3. QED
    BY <2>1, <2>2
<1>3. 0..n \subseteq T
  <2> HIDE DEF T
  <2>1. QED
    BY <1>1, <1>2, SetInduction
<1>4. QED
  BY <1>3

-----------------------------------------------------------------------------
(* Outcomes *)

LEMMA OrderedLen ==
    ASSUME NEW components, components \in Seq(Range(components))
    PROVE  Len(Ordered(components)) = Len(components) /\ Len(components) \in Nat
<1>1. Len(components) \in Nat /\ DOMAIN components = 1..Len(components)
  BY LenProperties
<1>2. DOMAIN Ordered(components) = 1..Len(components)
  BY <1>1 DEF Ordered
<1>3. Ordered(components) \in Seq(Range(Ordered(components)))
  <2> DEFINE o == Ordered(components)
  <2>1. o = [k \in 1..Len(components) |-> o[k]]
    BY <1>1 DEF Ordered
  <2> HIDE DEF o
  <2>2. \A k \in 1..Len(components) : o[k] \in Range(o)
    BY <1>2, <2>1 DEF Range
  <2>3. o \in Seq(Range(o))
    BY <1>1, <2>1, <2>2
  <2>4. QED
    BY <2>3 DEF o
<1>4. QED
  BY <1>1, <1>2, <1>3, LenProperties

OutcomeJob(of, components) == [of |-> of, list |-> Ordered(components)]

\* What an outcome makes of a page is made component by component.
LEMMA OutcomeHtmlSteps ==
    ASSUME NEW page, NEW components, components \in Seq(Range(components))
    PROVE  \E g : /\ Steps(OutcomeJob("html", components), Result(page, FALSE), Len(components), g)
                  /\ ApplyOutcomeHtml(page, components) = g[Len(components)]
<1> DEFINE o == Ordered(components)
           n == Len(components)
           job == OutcomeJob("html", components)
           Next1(x, k) == LET r == RenderComponent(x.tree.value, o[k])
                              next == IF x.tree.panicked \/ r.kind = "error" THEN Result(x.tree, FALSE)
                                      ELSE IF r.kind = "panic" THEN Result([x.tree EXCEPT !.panicked = TRUE], FALSE)
                                      ELSE Result([x.tree EXCEPT !.value = r.doc], r.doc # x.tree.value)
                          IN  Result(next.tree, x.changed \/ next.changed)
           P(g) == g = [k \in 0..n |-> IF k = 0 THEN Result(page, FALSE) ELSE Next1(g[k - 1], k)]
<1>1. n \in Nat /\ Len(o) = n
  BY OrderedLen
<1>2. \A x, k : Do(job, x, k) = Next1(x, k)
  BY DEF Do, OutcomeJob
<1>3. \E g : P(g)
  <2> HIDE DEF Next1, job, n
  <2>1. PICK g : Steps(job, Result(page, FALSE), n, g)
    BY <1>1, StepsExist
  <2>2. ASSUME NEW k \in 0..n
        PROVE  g[k] = IF k = 0 THEN Result(page, FALSE) ELSE Next1(g[k - 1], k)
    <3>1. k # 0 => k \in 1..n
      BY <1>1
    <3>2. k # 0 => g[k] = Do(job, g[k - 1], k)
      BY <2>1, <3>1 DEF Steps
    <3>3. g[0] = Result(page, FALSE)
      BY <2>1 DEF Steps
    <3>4. QED
      BY <1>2, <3>2, <3>3
  <2>3. g = [k \in 0..n |-> g[k]]
    BY <2>1 DEF Steps
  <2> HIDE DEF o
  <2>4. g = [k \in 0..n |-> IF k = 0 THEN Result(page, FALSE) ELSE Next1(g[k - 1], k)]
    BY <2>2, <2>3
  <2>5. QED
    BY <2>4
<1>4. ASSUME NEW g, P(g) PROVE Steps(job, Result(page, FALSE), n, g)
  <2> HIDE DEF Next1, job, n
  <2>1. QED
    BY <1>1, <1>2, <1>4 DEF Steps
<1>5. ApplyOutcomeHtml(page, components) = (CHOOSE h : P(h))[n]
  <2>1. Len(Ordered(components)) = n
    BY <1>1
  <2>2. QED
    BY <2>1, Zenon DEF ApplyOutcomeHtml, FoldComponents
<1> DEFINE g == CHOOSE h : P(h)
<1>6. P(g)
  <2> HIDE DEF P
  <2>1. QED
    BY <1>3
<1>7. Steps(job, Result(page, FALSE), n, g)
  <2> HIDE DEF P, g, job
  <2>1. QED
    BY <1>4, <1>6
<1>8. QED
  BY <1>5, <1>7

\* A body, of a page or in JSON.
IsBody(b, kind) == b = [kind |-> kind, value |-> b.value, panicked |-> b.panicked]

LEMMA BodyWith ==
    ASSUME NEW b, NEW kind, IsBody(b, kind), NEW v
    PROVE  /\ IsBody([b EXCEPT !.value = v], kind) /\ [b EXCEPT !.value = v].value = v
           /\ [b EXCEPT !.value = v].panicked = b.panicked
           /\ IsBody([b EXCEPT !.panicked = v], kind) /\ [b EXCEPT !.panicked = v].panicked = v
           /\ [b EXCEPT !.panicked = v].value = b.value
           /\ b.kind = kind
BY DEF IsBody

\* Whatever an outcome does to a page, it stays one.
LEMMA OutcomeBody ==
    ASSUME NEW page, NEW kind, IsBody(page, kind), NEW components, components \in Seq(Range(components))
    PROVE  IsBody(ApplyOutcomeHtml(page, components).tree, kind)
<1> DEFINE job == OutcomeJob("html", components)
           n == Len(components)
<1>1. PICK g : Steps(job, Result(page, FALSE), n, g) /\ ApplyOutcomeHtml(page, components) = g[n]
  BY OutcomeHtmlSteps
<1>2. n \in Nat
  BY OrderedLen
<1> DEFINE T == {k \in 0..n : IsBody(g[k].tree, kind)}
<1>3. 0 \in T
  <2>1. g[0] = Result(page, FALSE)
    BY <1>1 DEF Steps
  <2>2. IsBody(g[0].tree, kind)
    BY <2>1 DEF Result
  <2>3. QED
    BY <1>2, <2>2
<1>4. ASSUME NEW k \in 1..n, k - 1 \in T PROVE k \in T
  <2> DEFINE x == g[k - 1]
             r == RenderComponent(x.tree.value, job.list[k])
             next == IF x.tree.panicked \/ r.kind = "error" THEN Result(x.tree, FALSE)
                     ELSE IF r.kind = "panic" THEN Result([x.tree EXCEPT !.panicked = TRUE], FALSE)
                     ELSE Result([x.tree EXCEPT !.value = r.doc], r.doc # x.tree.value)
  <2>1. g[k] = Do(job, x, k)
    BY <1>1 DEF Steps
  <2>2. Do(job, x, k) = Result(next.tree, x.changed \/ next.changed)
    BY DEF Do, OutcomeJob
  <2>3. IsBody(x.tree, kind)
    BY <1>4
  <2> HIDE DEF x, r
  <2>4. IsBody(next.tree, kind)
    BY <2>3, BodyWith DEF Result
  <2> HIDE DEF next
  <2>5. IsBody(g[k].tree, kind)
    BY <2>1, <2>2, <2>4 DEF Result
  <2>6. QED
    BY <1>2, <2>5
<1>5. n \in T
  <2> HIDE DEF T, n
  <2>1. 0..n \subseteq T
    BY <1>2, <1>3, <1>4, SetInduction
  <2>2. QED
    BY <1>2, <2>1
<1>6. QED
  BY <1>1, <1>5

IsOutcomes(outcomes) == \A components \in Range(outcomes) : components \in Seq(Range(components))

LEMMA ApplyBody ==
    ASSUME NEW b, NEW kind, IsBody(b, kind), NEW action, NEW outcomes, IsOutcomes(outcomes)
    PROVE  IsBody(Apply(b, action, outcomes).tree, kind)
<1>1. CASE b.kind = "json"
  <2> DEFINE r == ApplyActionJson(b.value, action, outcomes)
  <2>1. Apply(b, action, outcomes).tree = [b EXCEPT !.value = r.tree]
    BY <1>1 DEF Apply, Result
  <2>2. IsBody([b EXCEPT !.value = r.tree], kind)
    BY BodyWith, Zenon
  <2>3. QED
    BY <2>1, <2>2, Zenon
<1>2. CASE b.kind # "json" /\ action.type = "apply_outcome" /\ action.outcome \in DOMAIN outcomes
  <2>1. outcomes[action.outcome] \in Range(outcomes)
    BY <1>2 DEF Range
  <2>2. Apply(b, action, outcomes) = ApplyOutcomeHtml(b, outcomes[action.outcome])
    BY <1>2 DEF Apply
  <2> DEFINE components == outcomes[action.outcome]
  <2>3. components \in Seq(Range(components))
    BY <2>1 DEF IsOutcomes
  <2> HIDE DEF components
  <2>4. IsBody(ApplyOutcomeHtml(b, components).tree, kind)
    BY <2>3, OutcomeBody
  <2>5. QED
    BY <2>2, <2>4 DEF components
<1>3. CASE b.kind # "json" /\ ~(action.type = "apply_outcome" /\ action.outcome \in DOMAIN outcomes)
  BY <1>3 DEF Apply, Result
<1>4. QED
  BY <1>1, <1>2, <1>3


-----------------------------------------------------------------------------
(* The journey, feature by feature *)

CanvasIn(w, v) == v.canvases[Classify(w.cookies)]
ActionsJob(w, v, b) ==
    [of |-> "actions", list |-> Answer(CanvasIn(w, v), b), outcomes |-> v.outcomes]

\* What a feature with some versions, at most one, makes of a body is c.
FeatureDoes(w, b, versions, c) ==
    \/ c = b /\ \A v \in versions : ~SelectorMatches(v.gate, b)
    \/ \E v \in versions :
          /\ SelectorMatches(v.gate, b)
          /\ \E h : LET job == ActionsJob(w, v, b) IN
                    Steps(job, b, Len(job.list), h) /\ c = h[Len(job.list)]

Fetched(w) == [kind |-> ContentKind(w.upstream), value |-> w.upstream.wire.text.value, panicked |-> FALSE]
Features(w) == Keeping(w.listed, {f \in Range(w.listed) : f.kind = ContentKind(w.upstream)})
Served(w, pinned, id) ==
    IF id \in pinned THEN {[v EXCEPT !.outcomes = <<>>] : v \in w.served[id]} ELSE w.served[id]

\* g lists the bodies the journey shows after each of its features.
Trail(w, pinned, g) ==
    /\ g[0] = Fetched(w)
    /\ \A k \in 1..Len(Features(w)) :
          IF g[k - 1].panicked THEN g[k] = g[k - 1]
          ELSE FeatureDoes(w, g[k - 1], Served(w, pinned, Features(w)[k].id), g[k])

IsServed(versions) == \A v \in versions : IsVersion(v) /\ versions = {v}

LEMMA CanvasIsOne ==
    ASSUME NEW w, NEW v, IsVersion(v)
    PROVE  IsCanvas(CanvasIn(w, v)) /\ IsOutcomes(v.outcomes)
BY DEF IsVersion, Classes, CanvasIn, Classify, IsOutcomes

LEMMA AnswerIsSeq ==
    ASSUME NEW canvas, IsCanvas(canvas), NEW b
    PROVE  /\ Answer(canvas, b) \in {canvas.actions, <<>>}
           /\ Answer(canvas, b) \in Seq(Range(canvas.actions))
           /\ Len(Answer(canvas, b)) \in Nat /\ DOMAIN Answer(canvas, b) = 1..Len(Answer(canvas, b))
<1>1. Answer(canvas, b) \in {canvas.actions, <<>>}
  BY DEF Answer, IsCanvas
<1>2. Answer(canvas, b) \in Seq(Range(canvas.actions))
  <2> DEFINE S == Range(canvas.actions)
  <2>1. canvas.actions \in Seq(S)
    BY DEF IsCanvas
  <2> HIDE DEF S
  <2>2. <<>> \in Seq(S)
    OBVIOUS
  <2>3. Answer(canvas, b) \in Seq(S)
    BY <1>1, <2>1, <2>2
  <2>4. QED
    BY <2>3 DEF S
<1>3. QED
  BY <1>1, <1>2, LenProperties

\* What a canvas that is not shown a page answers does not depend on it.
LEMMA ShownIsEnough ==
    ASSUME NEW canvas, IsCanvas(canvas), NEW b, NEW kind, IsBody(b, kind)
    PROVE  Answer(canvas, Shown(canvas, b)) = Answer(canvas, b)
<1>1. [b EXCEPT !.value = <<>>].kind = b.kind
  BY DEF IsBody
<1>2. CASE b.kind = "json" \/ CanvasHasMetaTags(canvas)
  BY <1>2 DEF Shown
<1>3. CASE b.kind # "json" /\ ~CanvasHasMetaTags(canvas)
  <2>1. Shown(canvas, b) = [b EXCEPT !.value = <<>>]
    BY <1>3 DEF Shown
  <2>2. canvas.asks.kind \in {"always", "json_expression", "fails"}
    BY <1>3 DEF CanvasHasMetaTags, IsCanvas
  <2> DEFINE s == [b EXCEPT !.value = <<>>]
  <2> HIDE DEF s
  <2>3. Answer(canvas, s) = Answer(canvas, b)
    BY <1>1, <1>3, <2>2 DEF Answer, s
  <2>4. QED
    BY <2>1, <2>3 DEF s
<1>4. QED
  BY <1>2, <1>3

\* A feature makes one body of a body.
LEMMA FeatureIsOne ==
    ASSUME NEW w, NEW b, NEW versions, IsServed(versions), NEW c, NEW d,
           FeatureDoes(w, b, versions, c), FeatureDoes(w, b, versions, d)
    PROVE  c = d
<1>1. CASE \A v \in versions : ~SelectorMatches(v.gate, b)
  BY <1>1 DEF FeatureDoes
<1>2. ASSUME NEW v \in versions, SelectorMatches(v.gate, b) PROVE c = d
  <2>1. versions = {v} /\ IsVersion(v)
    BY DEF IsServed
  <2> DEFINE job == ActionsJob(w, v, b)
  <2>2. PICK g : Steps(job, b, Len(job.list), g) /\ c = g[Len(job.list)]
    BY <1>2, <2>1 DEF FeatureDoes
  <2>3. PICK h : Steps(job, b, Len(job.list), h) /\ d = h[Len(job.list)]
    BY <1>2, <2>1 DEF FeatureDoes
  <2>4. Len(job.list) \in Nat
    BY <2>1, CanvasIsOne, AnswerIsSeq DEF ActionsJob
  <2> HIDE DEF job
  <2>5. QED
    BY <2>2, <2>3, <2>4, StepsUnique
<1>3. QED
  BY <1>1, <1>2


\* The actions of a canvas that none of its outcomes is needed for.
NeedsNoOutcome(w, v) == \A action \in Range(CanvasIn(w, v).actions) : action.type # "apply_outcome"

\* Only an action that applies an outcome asks for outcomes.
LEMMA NoOutcomeNeeded ==
    ASSUME NEW tree, NEW action, action.type # "apply_outcome", NEW o, NEW u
    PROVE  ApplyActionJson(tree, action, o) = ApplyActionJson(tree, action, u)
<1>1. CASE action.type = "trim_json"
  BY <1>1 DEF ApplyActionJson
<1>2. CASE action.type = "add_attribute"
  BY <1>2 DEF ApplyActionJson
<1>3. CASE action.type \notin {"trim_json", "add_attribute"}
  BY <1>3 DEF ApplyActionJson
<1>4. QED
  BY <1>1, <1>2, <1>3

\* A version pinned without its outcomes does what the version does.
LEMMA PinnedDoes ==
    ASSUME NEW w, NEW v, IsVersion(v), NeedsNoOutcome(w, v), NEW b, NEW c,
           FeatureDoes(w, b, {[v EXCEPT !.outcomes = <<>>]}, c)
    PROVE  FeatureDoes(w, b, {v}, c)
<1> DEFINE u == [v EXCEPT !.outcomes = <<>>]
           canvas == CanvasIn(w, v)
           list == Answer(canvas, b)
           n == Len(list)
           job == ActionsJob(w, v, b)
           bare == ActionsJob(w, u, b)
<1>1. u.gate = v.gate /\ u.outcomes = <<>> /\ u.canvases = v.canvases
  BY DEF IsVersion
<1>2. job.list = list /\ bare.list = list /\ job.of = "actions" /\ bare.of = "actions"
      /\ job.outcomes = v.outcomes /\ bare.outcomes = <<>>
  BY <1>1 DEF ActionsJob, CanvasIn
<1>3. list \in Seq(Range(canvas.actions)) /\ n \in Nat /\ DOMAIN list = 1..n
  BY CanvasIsOne, AnswerIsSeq
<1>4. ASSUME NEW x, NEW k \in 1..n PROVE Do(job, x, k) = Do(bare, x, k)
  <2>1. list[k] \in Range(canvas.actions)
    BY <1>3, ElementOfSeq
  <2>2. list[k].type # "apply_outcome"
    BY <2>1 DEF NeedsNoOutcome
  <2>3. Apply(x, list[k], v.outcomes) = Apply(x, list[k], <<>>)
    <3>1. ApplyActionJson(x.value, list[k], v.outcomes) = ApplyActionJson(x.value, list[k], <<>>)
      BY <2>2, NoOutcomeNeeded
    <3>2. QED
      BY <2>2, <3>1 DEF Apply
  <2> HIDE DEF list, job, bare
  <2>4. QED
    BY <1>2, <2>3 DEF Do
<1>5. CASE ~SelectorMatches(v.gate, b)
  BY <1>1, <1>5 DEF FeatureDoes
<1>6. CASE SelectorMatches(v.gate, b)
  <2>1. PICK h : Steps(bare, b, n, h) /\ c = h[n]
    BY <1>1, <1>2, <1>6 DEF FeatureDoes
  <2> HIDE DEF job, bare, n
  <2>2. Steps(job, b, n, h)
    BY <1>4, <2>1 DEF Steps
  <2>3. Len(job.list) = n
    BY <1>2 DEF n
  <2>4. \E g : Steps(job, b, Len(job.list), g) /\ c = g[Len(job.list)]
    BY <2>1, <2>2, <2>3
  <2>5. QED
    BY <1>6, <2>4 DEF FeatureDoes, job
<1>7. QED
  BY <1>5, <1>6


LEMMA FeaturesListed ==
    ASSUME NEW w, IsWorld(w)
    PROVE  /\ Len(Features(w)) \in Nat /\ Features(w) \in Seq(Range(w.listed))
           /\ \A k \in 1..Len(Features(w)) :
                 /\ Features(w)[k] \in Range(w.listed)
                 /\ IsServed(w.served[Features(w)[k].id])
<1> DEFINE S == {f \in Range(w.listed) : f.kind = ContentKind(w.upstream)}
           L == Range(w.listed)
<1>1. w.listed \in Seq(L)
  BY DEF IsWorld
<1>2. S \subseteq L
  OBVIOUS
<1> HIDE DEF L, S
<1>3. Keeping(w.listed, S) \in Seq(S)
  BY <1>1, KeepingLists
<1>4. Features(w) \in Seq(L)
  BY <1>2, <1>3 DEF Features, S, L
<1>5. Len(Features(w)) \in Nat /\ \A k \in 1..Len(Features(w)) : Features(w)[k] \in L
  BY <1>4, LenProperties
<1>6. \A f \in L : IsServed(w.served[f.id])
  BY DEF IsWorld, IsServed, L
<1>7. QED
  BY <1>4, <1>5, <1>6 DEF L

LEMMA PinnedServed ==
    ASSUME NEW w, NEW id, IsServed(w.served[id]), NEW pinned
    PROVE  IsServed(Served(w, pinned, id))
<1>1. ASSUME NEW v \in w.served[id] PROVE IsVersion([v EXCEPT !.outcomes = <<>>])
  <2> DEFINE u == [v EXCEPT !.outcomes = <<>>]
  <2>1. IsVersion(v)
    BY DEF IsServed
  <2>2. u = [number |-> u.number, gate |-> u.gate, outcomes |-> u.outcomes, canvases |-> u.canvases]
        /\ u.canvases = v.canvases /\ u.outcomes = <<>>
    BY <2>1 DEF IsVersion
  <2>3. Range(<<>>) = {}
    BY DEF Range
  <2> HIDE DEF u
  <2>4. IsVersion(u)
    BY <2>1, <2>2, <2>3 DEF IsVersion
  <2>5. QED
    BY <2>4 DEF u
<1>2. CASE id \notin pinned
  BY <1>2 DEF Served
<1>3. CASE id \in pinned
  <2>1. ASSUME NEW u \in Served(w, pinned, id) PROVE IsVersion(u) /\ Served(w, pinned, id) = {u}
    <3>1. PICK v \in w.served[id] : u = [v EXCEPT !.outcomes = <<>>]
      BY <1>3, <2>1 DEF Served
    <3>2. w.served[id] = {v}
      BY DEF IsServed
    <3>3. Served(w, pinned, id) = {u}
      BY <1>3, <3>1, <3>2 DEF Served
    <3>4. QED
      BY <1>1, <3>1, <3>3
  <2>2. QED
    BY <2>1 DEF IsServed
<1>4. QED
  BY <1>2, <1>3

\* There is one trail.
LEMMA TrailUnique ==
    ASSUME NEW w, IsWorld(w), NEW g, NEW h, Trail(w, {}, g), Trail(w, {}, h)
    PROVE  \A k \in 0..Len(Features(w)) : g[k] = h[k]
<1> DEFINE n == Len(Features(w))
           T == {k \in 0..n : g[k] = h[k]}
<1>1. n \in Nat
  BY FeaturesListed
<1>2. 0 \in T
  BY <1>1 DEF Trail
<1>3. ASSUME NEW k \in 1..n, k - 1 \in T PROVE k \in T
  <2>1. g[k - 1] = h[k - 1] /\ k \in 0..n
    BY <1>3
  <2> DEFINE versions == w.served[Features(w)[k].id]
  <2>2. IsServed(versions) /\ Served(w, {}, Features(w)[k].id) = versions
    BY FeaturesListed DEF Served
  <2>3. IF g[k - 1].panicked THEN g[k] = g[k - 1] /\ h[k] = g[k - 1]
        ELSE FeatureDoes(w, g[k - 1], versions, g[k]) /\ FeatureDoes(w, g[k - 1], versions, h[k])
    BY <2>1, <2>2 DEF Trail
  <2> HIDE DEF versions
  <2>4. g[k] = h[k]
    BY <2>2, <2>3, FeatureIsOne
  <2>5. QED
    BY <2>1, <2>4
<1>4. 0..n \subseteq T
  <2> HIDE DEF T, n
  <2>1. QED
    BY <1>1, <1>2, <1>3, SetInduction
<1>5. QED
  BY <1>4

\* With no version pinned whose outcomes are needed, the trail is that of the
\* versions that are served.
LEMMA TrailPinned ==
    ASSUME NEW w, IsWorld(w), NEW pinned, NEW g, Trail(w, pinned, g),
           \A id \in pinned : \A v \in w.served[id] : NeedsNoOutcome(w, v)
    PROVE  Trail(w, {}, g)
<1> SUFFICES ASSUME NEW k \in 1..Len(Features(w)), ~g[k - 1].panicked,
                    Features(w)[k].id \in pinned,
                    FeatureDoes(w, g[k - 1], Served(w, pinned, Features(w)[k].id), g[k])
             PROVE  FeatureDoes(w, g[k - 1], w.served[Features(w)[k].id], g[k])
  BY DEF Trail, Served
<1> DEFINE id == Features(w)[k].id
<1>1. IsServed(w.served[id])
  BY FeaturesListed
<1>2. Served(w, pinned, id) = {[v EXCEPT !.outcomes = <<>>] : v \in w.served[id]}
  BY DEF Served
<1>3. CASE w.served[id] = {}
  BY <1>2, <1>3 DEF FeatureDoes
<1>4. ASSUME NEW v \in w.served[id] PROVE FeatureDoes(w, g[k - 1], w.served[id], g[k])
  <2>1. w.served[id] = {v} /\ IsVersion(v) /\ NeedsNoOutcome(w, v)
    BY <1>1 DEF IsServed
  <2>2. Served(w, pinned, id) = {[v EXCEPT !.outcomes = <<>>]}
    BY <1>2, <2>1
  <2>3. FeatureDoes(w, g[k - 1], {v}, g[k])
    BY <2>1, <2>2, PinnedDoes
  <2>4. QED
    BY <2>1, <2>3
<1>5. QED
  BY <1>3, <1>4


\* One feature of the journey does what the feature does.
LEMMA JourneyFeatureDoes ==
    ASSUME NEW b, NEW fetched, NEW versions, IsServed(versions)
    PROVE  FeatureDoes(world, b, versions, JourneyFeature(b, fetched, versions))
<1> DEFINE open == {v \in versions : SelectorMatches(v.gate, b)}
<1>1. CASE open = {}
  <2>1. JourneyFeature(b, fetched, versions) = b
    BY <1>1 DEF JourneyFeature, JourneyGate
  <2>2. QED
    BY <1>1, <2>1 DEF FeatureDoes
<1>2. CASE open # {}
  <2> DEFINE v == CHOOSE v \in open : TRUE
             list == Answer(Canvas(v), b)
             n == Len(list)
             job == ActionsJob(world, v, b)
             P(g) == g = [k \in 0..n |-> IF k = 0 THEN b
                                         ELSE IF g[k - 1].panicked THEN g[k - 1]
                                         ELSE Apply(g[k - 1], list[k], v.outcomes).tree]
  <2>1. v \in open
    BY <1>2
  <2>2. IsVersion(v) /\ Canvas(v) = CanvasIn(world, v) /\ n \in Nat
    BY <2>1, CanvasIsOne, AnswerIsSeq DEF IsServed, Canvas, CanvasIn
  <2>3. job.list = list /\ job.of = "actions" /\ job.outcomes = v.outcomes
    BY <2>2 DEF ActionsJob
  <2>4. JourneyFeature(b, fetched, versions) = (CHOOSE g : P(g))[n]
    <3>1. open # {}
      BY <1>2
    <3>2. JourneyFeature(b, fetched, versions) =
             IF open = {} THEN b ELSE (CHOOSE g : P(g))[n]
      BY Zenon DEF JourneyFeature, JourneyGate
    <3> HIDE DEF open, P, n
    <3>3. QED
      BY <3>1, <3>2
  <2>5. ASSUME NEW x, NEW k
        PROVE  Do(job, x, k) = IF x.panicked THEN x ELSE Apply(x, list[k], v.outcomes).tree
    <3> HIDE DEF job, list, v
    <3>1. QED
      BY <2>3 DEF Do
  <2>6. \E g : P(g)
    <3> HIDE DEF job, n, list, v
    <3>1. PICK g : Steps(job, b, n, g)
      BY <2>2, StepsExist
    <3>2. ASSUME NEW k \in 0..n
          PROVE  g[k] = IF k = 0 THEN b
                        ELSE IF g[k - 1].panicked THEN g[k - 1]
                        ELSE Apply(g[k - 1], list[k], v.outcomes).tree
      <4>1. k # 0 => k \in 1..n
        BY <2>2
      <4>2. k # 0 => g[k] = Do(job, g[k - 1], k)
        BY <3>1, <4>1 DEF Steps
      <4>3. g[0] = b
        BY <3>1 DEF Steps
      <4>4. QED
        BY <2>5, <4>2, <4>3
    <3>3. g = [k \in 0..n |-> g[k]]
      BY <3>1 DEF Steps
    <3>4. P(g)
      BY <3>2, <3>3
    <3>5. QED
      BY <3>4
  <2>7. ASSUME NEW g, P(g) PROVE Steps(job, b, n, g)
    <3> HIDE DEF job, n, list, v
    <3>1. g[0] = b /\ g = [k \in 0..n |-> g[k]]
      BY <2>2, <2>7
    <3>2. ASSUME NEW k \in 1..n PROVE g[k] = Do(job, g[k - 1], k)
      BY <2>2, <2>5, <2>7
    <3>3. QED
      BY <3>1, <3>2 DEF Steps
  <2> DEFINE h == CHOOSE g : P(g)
  <2>8. P(h)
    <3> HIDE DEF P
    <3>1. QED
      BY <2>6
  <2>9. Steps(job, b, n, h)
    <3> HIDE DEF P, h, job, n
    <3>1. QED
      BY <2>7, <2>8
  <2>10. v \in versions /\ SelectorMatches(v.gate, b)
    BY <2>1
  <2> HIDE DEF h, P, v
  <2>11. Len(job.list) = n
    BY <2>3
  <2>12. \E g : Steps(job, b, Len(job.list), g)
                /\ JourneyFeature(b, fetched, versions) = g[Len(job.list)]
    <3> HIDE DEF job, n
    <3>1. QED
      BY <2>4, <2>9, <2>11 DEF h
  <2>13. QED
    BY <2>10, <2>12 DEF FeatureDoes
<1>3. QED
  BY <1>1, <1>2


\* The journey of a page is its trail.
LEMMA JourneyTrail ==
    ASSUME IsWorld(world), NEW pinned
    PROVE  \E g : /\ Trail(world, pinned, g)
                  /\ RunFullJourney(Fetched(world), pinned) = g[Len(Features(world))]
<1> DEFINE a == Fetched(world)
           list == Features(world)
           n == Len(list)
           Next1(x, k) == IF x.panicked THEN x
                          ELSE JourneyFeature(x, a, Resolved(list[k].id, pinned))
           Is(g, m) == /\ g = [k \in 0..m |-> g[k]] /\ g[0] = a
                       /\ \A k \in 1..m : g[k] = Next1(g[k - 1], k)
           P(g) == g = [k \in 0..n |-> IF k = 0 THEN a
                                       ELSE IF g[k - 1].panicked THEN g[k - 1]
                                       ELSE JourneyFeature(g[k - 1], a, Resolved(list[k].id, pinned))]
<1>1. n \in Nat
  BY FeaturesListed
<1>2. RunFullJourney(a, pinned) = (CHOOSE g : P(g))[n]
  <2>1. a.kind = ContentKind(world.upstream)
    BY DEF Fetched
  <2>2. OfKind(a.kind) = list
    BY <2>1 DEF OfKind, Features
  <2> DEFINE Q(s, g) == g = [k \in 0..Len(s) |-> IF k = 0 THEN a
                                       ELSE IF g[k - 1].panicked THEN g[k - 1]
                                       ELSE JourneyFeature(g[k - 1], a, Resolved(s[k].id, pinned))]
  <2> HIDE DEF a, list
  <2>3. RunFullJourney(a, pinned) = (CHOOSE g : Q(OfKind(a.kind), g))[Len(OfKind(a.kind))]
    BY Zenon DEF RunFullJourney
  <2>4. QED
    BY <2>2, <2>3, Zenon
<1> DEFINE T == {m \in 0..n : \E g : Is(g, m)}
<1>3. 0 \in T
  <2> HIDE DEF a, n, Next1
  <2> DEFINE g == [k \in 0..0 |-> a]
  <2>1. Is(g, 0)
    OBVIOUS
  <2> HIDE DEF Is
  <2>2. QED
    BY <1>1, <2>1
<1>4. ASSUME NEW m \in 1..n, m - 1 \in T PROVE m \in T
  <2> HIDE DEF a, n, Next1
  <2>1. PICK g : Is(g, m - 1)
    BY <1>4
  <2> DEFINE h == [k \in 0..m |-> IF k = m THEN Next1(g[m - 1], m) ELSE g[k]]
  <2>2. h = [k \in 0..m |-> h[k]] /\ h[0] = a /\ h[m] = Next1(g[m - 1], m)
    BY <1>1, <2>1
  <2>3. \A k \in 0..(m - 1) : h[k] = g[k]
    BY <1>1
  <2> HIDE DEF h
  <2>4. ASSUME NEW k \in 1..m PROVE h[k] = Next1(h[k - 1], k)
    <3>1. h[k - 1] = g[k - 1]
      BY <1>1, <2>3
    <3>2. CASE k = m
      BY <2>2, <3>1, <3>2
    <3>3. CASE k # m
      <4>1. k \in 1..(m - 1) /\ k \in 0..(m - 1)
        BY <1>1, <3>3
      <4>2. h[k] = g[k]
        BY <2>3, <4>1
      <4>3. QED
        BY <2>1, <3>1, <4>1, <4>2
    <3>4. QED
      BY <3>2, <3>3
  <2>5. Is(h, m)
    BY <2>2, <2>4
  <2> HIDE DEF Is
  <2>6. QED
    BY <1>1, <2>5
<1>5. \E g : Is(g, n)
  <2> HIDE DEF T, n
  <2>1. 0..n \subseteq T
    BY <1>1, <1>3, <1>4, SetInduction
  <2>2. n \in T
    BY <1>1, <2>1
  <2>3. QED
    BY <2>2 DEF T
<1>6. \E g : P(g)
  <2> HIDE DEF n, a, list
  <2>1. PICK g : Is(g, n)
    BY <1>5
  <2>2. ASSUME NEW k \in 0..n
        PROVE  g[k] = IF k = 0 THEN a
                      ELSE IF g[k - 1].panicked THEN g[k - 1]
                      ELSE JourneyFeature(g[k - 1], a, Resolved(list[k].id, pinned))
    <3>1. k # 0 => k \in 1..n
      BY <1>1
    <3>2. k # 0 => g[k] = Next1(g[k - 1], k)
      BY <2>1, <3>1
    <3>3. QED
      BY <2>1, <3>2
  <2>3. g = [k \in 0..n |-> g[k]]
    BY <2>1
  <2>4. P(g)
    BY <2>2, <2>3
  <2>5. QED
    BY <2>4
<1> DEFINE g == CHOOSE g : P(g)
<1>7. P(g)
  <2> HIDE DEF P
  <2>1. QED
    BY <1>6
<1> HIDE DEF g
<1>8. Trail(world, pinned, g)
  <2> HIDE DEF n, a, list
  <2>1. g[0] = a
    BY <1>1, <1>7
  <2>2. ASSUME NEW k \in 1..n
        PROVE  IF g[k - 1].panicked THEN g[k] = g[k - 1]
               ELSE FeatureDoes(world, g[k - 1], Served(world, pinned, list[k].id), g[k])
    <3>1. IF g[k - 1].panicked THEN g[k] = g[k - 1]
          ELSE g[k] = JourneyFeature(g[k - 1], a, Resolved(list[k].id, pinned))
      BY <1>1, <1>7
    <3>2. IsServed(Served(world, pinned, list[k].id))
      BY FeaturesListed, PinnedServed DEF n, list
    <3>3. Resolved(list[k].id, pinned) = Served(world, pinned, list[k].id)
      BY DEF Resolved, Served
    <3>4. QED
      BY <3>1, <3>2, <3>3, JourneyFeatureDoes
  <2>3. QED
    BY <2>1, <2>2 DEF Trail, n, a, list
<1>9. RunFullJourney(a, pinned) = g[n]
  BY <1>2 DEF g
<1>10. QED
  BY <1>8, <1>9


\* What is left of a list after its first d elements.
LEMMA RestOfList ==
    ASSUME NEW S, NEW s \in Seq(S), NEW d \in 0..Len(s), NEW q, q = SubSeq(s, d + 1, Len(s))
    PROVE  /\ q # <<>> <=> d < Len(s)
           /\ d < Len(s) => q[1] = s[d + 1] /\ Tail(q) = SubSeq(s, d + 2, Len(s))
           /\ d = 0 => q = s
<1>1. Len(s) \in Nat /\ DOMAIN s = 1..Len(s) /\ \A i \in 1..Len(s) : s[i] \in S
  BY LenProperties
<1>2. CASE d = Len(s)
  <2>1. q = <<>>
    BY <1>1, <1>2, SubSeqEmpty
  <2>2. d = 0 => s = <<>>
    BY <1>2, EmptySeq
  <2>3. QED
    BY <1>1, <1>2, <2>1, <2>2
<1>3. CASE d # Len(s)
  <2>1. d + 1 \in 1..Len(s) /\ Len(s) \in (d + 1)..Len(s) /\ d < Len(s) /\ d + 1 + 1 = d + 2
        /\ Len(s) - d # 0
        /\ 1 \in 1..(Len(s) - (d + 1) + 1) /\ d + 1 + 1 - 1 = d + 1
    <3> DEFINE n == Len(s)
    <3>1. n \in Nat /\ d \in 0..n /\ d # n
      BY <1>1, <1>3
    <3> HIDE DEF n
    <3>2. d + 1 \in 1..n /\ n \in (d + 1)..n /\ d < n /\ d + 1 + 1 = d + 2 /\ n - d # 0
          /\ 1 \in 1..(n - (d + 1) + 1) /\ d + 1 + 1 - 1 = d + 1
      BY <3>1
    <3>3. QED
      BY <3>2 DEF n
  <2>2. Head(q) = s[d + 1] /\ Tail(q) = SubSeq(s, d + 1 + 1, Len(s))
    BY <2>1, HeadTailOfSubSeq
  <2>3. Len(q) # 0
    <3>1. \A i \in (d + 1)..Len(s) : s[i] \in S
      BY <1>1
    <3>2. Len(q) = IF d + 1 <= Len(s) THEN Len(s) - (d + 1) + 1 ELSE 0
      BY <1>1, <3>1, SubSeqProperties
    <3> DEFINE n == Len(s)
    <3>3. n \in Nat /\ d + 1 \in 1..n /\ d \in 0..n
      BY <1>1, <2>1
    <3>4. Len(q) = IF d + 1 <= n THEN n - (d + 1) + 1 ELSE 0
      BY <3>2
    <3> HIDE DEF n
    <3>5. QED
      BY <3>3, <3>4
  <2>4. q # <<>>
    <3>1. Len(<<>>) = 0
      OBVIOUS
    <3>2. QED
      BY <2>1, <2>3, <3>1
  <2>5. q[1] = s[d + 1]
    <3>1. \A i \in (d + 1)..Len(s) : s[i] \in S
      BY <1>1
    <3>2. \A i \in 1..(Len(s) - (d + 1) + 1) : q[i] = s[d + 1 + i - 1]
      BY <1>1, <3>1, SubSeqProperties
    <3>3. q[1] = s[d + 1 + 1 - 1]
      BY <2>1, <3>2
    <3>4. QED
      BY <2>1, <3>3
  <2>6. d = 0 => q = s
    BY SubSeqFull
  <2>7. QED
    BY <2>1, <2>2, <2>4, <2>5, <2>6
<1>4. QED
  BY <1>2, <1>3

\* The bodies h the actions of a version make of a body b.
ActionBodies(w, v, b, kind, h) ==
    LET list == ActionsJob(w, v, b).list IN
    /\ Len(list) \in Nat /\ \E S : list \in Seq(S)
    /\ list = Answer(CanvasIn(w, v), b)
    /\ \A k \in 0..Len(list) : IsBody(h[k], kind)
    /\ \A k \in 1..Len(list) : ~h[k - 1].panicked =>
          h[k] = Apply(h[k - 1], list[k], v.outcomes).tree
    /\ \A k \in 0..Len(list) : h[k].panicked => h[Len(list)] = h[k]

\* The actions of a feature leave a body a body, and stop when one panics.
LEMMA ActionSteps ==
    ASSUME NEW w, NEW v, IsVersion(v), NEW b, NEW kind, IsBody(b, kind), NEW h,
           Steps(ActionsJob(w, v, b), b, Len(ActionsJob(w, v, b).list), h)
    PROVE  ActionBodies(w, v, b, kind, h)
<1> DEFINE job == ActionsJob(w, v, b)
           list == Answer(CanvasIn(w, v), b)
           n == Len(list)
<1>1. job.of = "actions" /\ job.list = list /\ job.outcomes = v.outcomes
  BY DEF ActionsJob
<1>2. n \in Nat /\ list \in Seq(Range(CanvasIn(w, v).actions)) /\ IsOutcomes(v.outcomes)
  BY CanvasIsOne, AnswerIsSeq
<1>3. Steps(job, b, n, h)
  BY <1>1
<1> HIDE DEF job, n
<1>4. ASSUME NEW k \in 1..n
      PROVE  h[k] = IF h[k - 1].panicked THEN h[k - 1]
                    ELSE Apply(h[k - 1], list[k], v.outcomes).tree
  BY <1>1, <1>3 DEF Steps, Do
<1>5. h[0] = b
  BY <1>3 DEF Steps
<1> DEFINE T == {k \in 0..n : IsBody(h[k], kind)}
<1>6. n \in T /\ 0..n \subseteq T
  <2>1. 0 \in T
    BY <1>2, <1>5
  <2>2. ASSUME NEW k \in 1..n, k - 1 \in T PROVE k \in T
    <3>1. IsBody(h[k - 1], kind) /\ k \in 0..n
      BY <1>2, <2>2
    <3>2. IsBody(Apply(h[k - 1], list[k], v.outcomes).tree, kind)
      BY <1>2, <3>1, ApplyBody
    <3>3. IsBody(h[k], kind)
      BY <1>4, <3>1, <3>2
    <3>4. QED
      BY <3>1, <3>3
  <2> HIDE DEF T
  <2>3. 0..n \subseteq T
    BY <1>2, <2>1, <2>2, SetInduction
  <2>4. QED
    BY <1>2, <2>3
<1>7. ASSUME NEW k \in 0..n, h[k].panicked PROVE h[n] = h[k]
  <2> DEFINE U == {i \in 0..n : i <= k \/ h[i] = h[k]}
  <2>1. 0 \in U
    BY <1>2
  <2>2. ASSUME NEW i \in 1..n, i - 1 \in U PROVE i \in U
    <3>1. CASE i <= k
      BY <1>2, <3>1
    <3>2. CASE ~(i <= k)
      <4>1. i - 1 <= k => i - 1 = k
        BY <1>2, <3>2
      <4>2. h[i - 1] = h[k]
        BY <2>2, <4>1
      <4>3. h[i] = h[k]
        BY <1>4, <1>7, <4>2
      <4>4. QED
        BY <1>2, <4>3
    <3>3. QED
      BY <3>1, <3>2
  <2>3. n \in U
    <3> HIDE DEF U
    <3>1. 0..n \subseteq U
      BY <1>2, <2>1, <2>2, SetInduction
    <3>2. QED
      BY <1>2, <3>1
  <2>4. n <= k => n = k
    BY <1>2
  <2>5. QED
    BY <2>3, <2>4
<1>8. \A k \in 0..n : IsBody(h[k], kind)
  BY <1>6
<1>9. QED
  BY <1>1, <1>2, <1>4, <1>7, <1>8 DEF ActionBodies, job, n


LEMMA TrailSteps ==
    ASSUME NEW w, IsWorld(w), NEW g, Trail(w, {}, g)
    PROVE  LET n == Len(Features(w)) IN
           /\ \A k \in 0..n : IsBody(g[k], ContentKind(w.upstream))
           /\ \A k \in 1..n : ~g[k - 1].panicked =>
                 FeatureDoes(w, g[k - 1], w.served[Features(w)[k].id], g[k])
           /\ \A k \in 0..n : g[k].panicked => g[n] = g[k]
<1> DEFINE n == Len(Features(w))
           kind == ContentKind(w.upstream)
<1>1. n \in Nat /\ \A k \in 1..n : IsServed(w.served[Features(w)[k].id])
  BY FeaturesListed
<1>2. \A k \in 1..n :
         IF g[k - 1].panicked THEN g[k] = g[k - 1]
         ELSE FeatureDoes(w, g[k - 1], w.served[Features(w)[k].id], g[k])
  BY DEF Trail, Served
<1>3. IsBody(g[0], kind)
  BY DEF Trail, Fetched, IsBody
<1> HIDE DEF n, kind
<1> DEFINE T == {k \in 0..n : IsBody(g[k], kind)}
<1>4. 0..n \subseteq T
  <2>1. 0 \in T
    BY <1>1, <1>3
  <2>2. ASSUME NEW k \in 1..n, k - 1 \in T PROVE k \in T
    <3> DEFINE versions == w.served[Features(w)[k].id]
    <3>1. IsBody(g[k - 1], kind) /\ k \in 0..n
      BY <1>1, <2>2
    <3>2. CASE g[k] = g[k - 1]
      BY <3>1, <3>2
    <3>3. CASE g[k] # g[k - 1]
      <4>1. FeatureDoes(w, g[k - 1], versions, g[k])
        BY <1>2, <3>3
      <4>2. PICK v \in versions : \E h : LET job == ActionsJob(w, v, g[k - 1]) IN
                 Steps(job, g[k - 1], Len(job.list), h) /\ g[k] = h[Len(job.list)]
        BY <3>3, <4>1 DEF FeatureDoes
      <4> DEFINE job == ActionsJob(w, v, g[k - 1])
      <4>3. PICK h : Steps(job, g[k - 1], Len(job.list), h) /\ g[k] = h[Len(job.list)]
        BY <4>2
      <4>4. IsVersion(v)
        BY <1>1 DEF IsServed
      <4>5. Len(job.list) \in Nat /\ \A i \in 0..Len(job.list) : IsBody(h[i], kind)
        BY <3>1, <4>3, <4>4, ActionSteps DEF ActionBodies
      <4> HIDE DEF job
      <4>6. IsBody(g[k], kind)
        BY <4>3, <4>5
      <4>7. QED
        BY <3>1, <4>6
    <3>4. QED
      BY <3>2, <3>3
  <2> HIDE DEF T
  <2>3. QED
    BY <1>1, <2>1, <2>2, SetInduction
<1>5. ASSUME NEW k \in 0..n, g[k].panicked PROVE g[n] = g[k]
  <2> DEFINE U == {i \in 0..n : i <= k \/ g[i] = g[k]}
  <2>1. 0 \in U
    BY <1>1
  <2>2. ASSUME NEW i \in 1..n, i - 1 \in U PROVE i \in U
    <3>1. CASE i <= k
      BY <1>1, <3>1
    <3>2. CASE ~(i <= k)
      <4>1. i - 1 <= k => i - 1 = k
        BY <1>1, <3>2
      <4>2. g[i - 1] = g[k]
        BY <2>2, <4>1
      <4>3. g[i] = g[k]
        BY <1>2, <1>5, <4>2
      <4>4. QED
        BY <1>1, <4>3
    <3>3. QED
      BY <3>1, <3>2
  <2>3. n \in U
    <3> HIDE DEF U
    <3>1. 0..n \subseteq U
      BY <1>1, <2>1, <2>2, SetInduction
    <3>2. QED
      BY <1>1, <3>1
  <2>4. n <= k => n = k
    BY <1>1
  <2>5. QED
    BY <2>3, <2>4
<1>6. QED
  BY <1>2, <1>4, <1>5 DEF n, kind

\* The body after d features, none of them being served.
Idle(w, g, d, s, b) == s = {} /\ b = {g[d]} /\ ~g[d].panicked

\* The d-th feature is served; its first k actions are done.
Busy(w, g, d, s, b) ==
    /\ d # 0 /\ ~g[d - 1].panicked
    /\ \E v \in w.served[Features(w)[d].id] :
          /\ SelectorMatches(v.gate, g[d - 1])
          /\ \E h, f : LET list == ActionsJob(w, v, g[d - 1]).list IN
                /\ Steps(ActionsJob(w, v, g[d - 1]), g[d - 1], Len(list), h)
                /\ s = {f} /\ {"left", "outcomes"} \subseteq DOMAIN f /\ f.outcomes = v.outcomes
                /\ \E k \in 0..Len(list) : /\ f.left = SubSeq(list, k + 1, Len(list))
                                           /\ b = {h[k]} /\ ~h[k].panicked

\* Where a request is on the trail of its page.
OnTrail(w, g, p, q, s, b) ==
    /\ p = "fold" =>
          \E d \in 0..Len(Features(w)) :
             /\ q = SubSeq(Features(w), d + 1, Len(Features(w)))
             /\ Idle(w, g, d, s, b) \/ Busy(w, g, d, s, b)
    /\ p \in {"sent", "panicked"} => b \subseteq {g[Len(Features(w))]}

JourneyInv ==
    /\ IsWorld(world)
    /\ phase \in {"copy", "send", "decode"} => body = {} /\ serving = {}
    /\ journey # {} => phase \in {"sent", "panicked"}
    /\ \E g : Trail(world, {}, g) /\ OnTrail(world, g, phase, queue, serving, body)
    /\ JourneyAgrees

LEMMA StartOnTrail ==
    ASSUME NEW g, IsWorld(world), Trail(world, {}, g), OnTrail(world, g, phase, queue, serving, body),
           StartFeature
    PROVE  OnTrail(world, g, phase', queue', serving', body')
<1> DEFINE F == Features(world)
           n == Len(F)
<1>1. /\ phase = "fold" /\ serving = {} /\ queue # <<>> /\ phase' = phase /\ body' = body
      /\ queue' = Tail(queue)
  BY DEF StartFeature
<1>2. PICK d \in 0..n : queue = SubSeq(F, d + 1, n) /\ body = {g[d]} /\ ~g[d].panicked
  BY <1>1 DEF OnTrail, Idle, Busy
<1>3. n \in Nat /\ F \in Seq(Range(world.listed))
  BY FeaturesListed
<1>4. d < n /\ queue[1] = F[d + 1] /\ queue' = SubSeq(F, d + 2, n)
  BY <1>1, <1>2, <1>3, RestOfList
<1> HIDE DEF n
<1>5. d + 1 \in 1..n /\ d + 1 \in 0..n /\ d + 1 - 1 = d /\ d + 2 = d + 1 + 1 /\ d + 1 # 0
  BY <1>3, <1>4
<1> DEFINE versions == world.served[F[d + 1].id]
<1>6. IsServed(versions) /\ FeatureDoes(world, g[d], versions, g[d + 1])
      /\ IsBody(g[d], ContentKind(world.upstream))
  BY <1>2, <1>5, FeaturesListed, TrailSteps DEF n
<1>7. Running = g[d]
  BY <1>2 DEF Running
<1>8. serving' = {[id |-> queue[1].id, version |-> v.number, outcomes |-> v.outcomes,
                   left |-> Answer(Canvas(v), Shown(Canvas(v), Running)),
                   run |-> <<>>, applied |-> FALSE] :
                     v \in {v \in versions : SelectorMatches(v.gate, Running)}}
  BY <1>4 DEF StartFeature
<1> HIDE DEF F, versions
<1>9. CASE \A v \in versions : ~SelectorMatches(v.gate, g[d])
  <2>1. serving' = {}
    BY <1>7, <1>8, <1>9
  <2>2. g[d + 1] = g[d]
    BY <1>6, <1>9 DEF FeatureDoes
  <2>3. Idle(world, g, d + 1, serving', body')
    BY <1>1, <1>2, <2>1, <2>2 DEF Idle
  <2>4. QED
    BY <1>1, <1>4, <1>5, <2>3 DEF OnTrail, n, F
<1>10. ASSUME NEW v \in versions, SelectorMatches(v.gate, g[d])
       PROVE  OnTrail(world, g, phase', queue', serving', body')
  <2> DEFINE job == ActionsJob(world, v, g[d])
             list == job.list
             f == [id |-> queue[1].id, version |-> v.number, outcomes |-> v.outcomes,
                   left |-> Answer(Canvas(v), Shown(Canvas(v), Running)),
                   run |-> <<>>, applied |-> FALSE]
  <2>1. versions = {v} /\ IsVersion(v)
    BY <1>6 DEF IsServed
  <2>2. {u \in versions : SelectorMatches(u.gate, Running)} = {v}
    BY <1>7, <1>10, <2>1
  <2>3. serving' = {f}
    BY <1>8, <2>2
  <2>4. Canvas(v) = CanvasIn(world, v) /\ IsCanvas(CanvasIn(world, v))
    BY <2>1, CanvasIsOne DEF Canvas, CanvasIn
  <2>5. f.left = list
    BY <1>6, <1>7, <2>4, ShownIsEnough DEF ActionsJob
  <2>6. list = Answer(CanvasIn(world, v), g[d])
    BY DEF ActionsJob
  <2>7. list \in Seq(Range(CanvasIn(world, v).actions)) /\ Len(list) \in Nat
    BY <2>4, <2>6, AnswerIsSeq
  <2>8. SubSeq(list, 1, Len(list)) = list
    BY <2>7, SubSeqFull
  <2>9. PICK h : Steps(job, g[d], Len(list), h)
    <3> HIDE DEF job
    <3>1. QED
      BY <2>7, StepsExist
  <2>10. h[0] = g[d]
    BY <2>9 DEF Steps
  <2>11. {"left", "outcomes"} \subseteq DOMAIN f /\ f.outcomes = v.outcomes
    OBVIOUS
  <2> HIDE DEF f, job
  <2>12. 0 \in 0..Len(list) /\ f.left = SubSeq(list, 0 + 1, Len(list)) /\ body' = {h[0]} /\ ~h[0].panicked
    BY <1>1, <1>2, <2>5, <2>7, <2>8, <2>10
  <2>13. Busy(world, g, d + 1, serving', body')
    BY <1>2, <1>5, <1>10, <2>3, <2>9, <2>11, <2>12 DEF Busy, versions, F, job
  <2>14. QED
    BY <1>1, <1>4, <1>5, <2>13 DEF OnTrail, n, F
<1>11. QED
  BY <1>9, <1>10


LEMMA ApplyOnTrail ==
    ASSUME NEW g, IsWorld(world), Trail(world, {}, g), OnTrail(world, g, phase, queue, serving, body),
           ApplyAction
    PROVE  OnTrail(world, g, phase', queue', serving', body')
<1> DEFINE F == Features(world)
           n == Len(F)
           kind == ContentKind(world.upstream)
<1>1. phase = "fold" /\ queue' = queue /\ serving # {}
  BY DEF ApplyAction
<1>2. PICK d \in 0..n : queue = SubSeq(F, d + 1, n) /\ Busy(world, g, d, serving, body)
  BY <1>1 DEF OnTrail, Idle
<1> DEFINE versions == world.served[F[d].id]
<1>3. PICK v \in versions :
          /\ SelectorMatches(v.gate, g[d - 1])
          /\ \E h, f : LET list == ActionsJob(world, v, g[d - 1]).list IN
                /\ Steps(ActionsJob(world, v, g[d - 1]), g[d - 1], Len(list), h)
                /\ serving = {f} /\ {"left", "outcomes"} \subseteq DOMAIN f /\ f.outcomes = v.outcomes
                /\ \E k \in 0..Len(list) : /\ f.left = SubSeq(list, k + 1, Len(list))
                                           /\ body = {h[k]} /\ ~h[k].panicked
  BY <1>2 DEF Busy
<1> DEFINE job == ActionsJob(world, v, g[d - 1])
           list == job.list
           m == Len(list)
<1>4. PICK h, f : /\ Steps(job, g[d - 1], m, h)
                  /\ serving = {f} /\ {"left", "outcomes"} \subseteq DOMAIN f /\ f.outcomes = v.outcomes
                  /\ \E k \in 0..m : /\ f.left = SubSeq(list, k + 1, m)
                                     /\ body = {h[k]} /\ ~h[k].panicked
  BY <1>3
<1>5. PICK k \in 0..m : f.left = SubSeq(list, k + 1, m) /\ body = {h[k]} /\ ~h[k].panicked
  BY <1>4
<1>6. n \in Nat /\ d \in 1..n /\ d - 1 \in 0..n /\ ~g[d - 1].panicked
  BY <1>2, FeaturesListed DEF Busy
<1>7. IsServed(versions) /\ FeatureDoes(world, g[d - 1], versions, g[d]) /\ IsBody(g[d - 1], kind)
  BY <1>6, FeaturesListed, TrailSteps
<1>8. IsVersion(v)
  BY <1>7 DEF IsServed
<1>9. /\ m \in Nat /\ \E S : list \in Seq(S)
      /\ \A i \in 1..m : ~h[i - 1].panicked => h[i] = Apply(h[i - 1], list[i], v.outcomes).tree
      /\ \A i \in 0..m : h[i].panicked => h[m] = h[i]
  <2>1. ActionBodies(world, v, g[d - 1], kind, h)
    BY <1>4, <1>7, <1>8, ActionSteps
  <2> HIDE DEF kind
  <2>2. QED
    BY <2>1 DEF ActionBodies
<1> HIDE DEF n, F, versions, job
<1>10. /\ f.left # <<>>
       /\ \E r \in {Apply(Running, f.left[1], f.outcomes)} :
             /\ body' = {r.tree}
             /\ serving' = {[f EXCEPT !.left = Tail(@), !.applied = @ \/ r.changed,
                                      !.run = Append(@, f.left[1].node)]}
             /\ phase' = IF r.tree.panicked THEN "panicked" ELSE "fold"
  BY <1>4, Zenon DEF ApplyAction
<1> DEFINE r == Apply(Running, f.left[1], f.outcomes)
           e == [f EXCEPT !.left = Tail(@), !.applied = @ \/ r.changed,
                          !.run = Append(@, f.left[1].node)]
<1>11. body' = {r.tree} /\ serving' = {e} /\ phase' = IF r.tree.panicked THEN "panicked" ELSE "fold"
  BY <1>10, Zenon
<1>12. e.left = Tail(f.left) /\ e.outcomes = f.outcomes /\ {"left", "outcomes"} \subseteq DOMAIN e
  BY <1>4
<1>13. k < m /\ f.left[1] = list[k + 1] /\ Tail(f.left) = SubSeq(list, k + 2, m)
  <2> HIDE DEF m, list
  <2>1. PICK S : list \in Seq(S)
    BY <1>9
  <2> DEFINE q == f.left
  <2>2. q # <<>> /\ k \in 0..Len(list) /\ q = SubSeq(list, k + 1, Len(list))
    BY <1>5, <1>10 DEF m
  <2> HIDE DEF q
  <2>3. k < Len(list) /\ q[1] = list[k + 1] /\ Tail(q) = SubSeq(list, k + 2, Len(list))
    BY <2>1, <2>2, RestOfList
  <2>4. QED
    BY <2>3 DEF m, q
<1>14. k + 1 \in 1..m /\ k + 1 \in 0..m /\ k + 1 - 1 = k /\ k + 2 = k + 1 + 1
  BY <1>9, <1>13
<1>15. Running = h[k]
  BY <1>5 DEF Running
<1>16. r.tree = h[k + 1]
  <2>1. h[k + 1] = Apply(h[k], list[k + 1], v.outcomes).tree
    <3> HIDE DEF list, m
    <3>1. QED
      BY <1>5, <1>9, <1>14
  <2>2. r = Apply(h[k], list[k + 1], v.outcomes)
    BY <1>4, <1>13, <1>15
  <2> HIDE DEF r, list
  <2>3. QED
    BY <2>1, <2>2
<1> HIDE DEF r, e, m, list
<1>17. CASE ~h[k + 1].panicked
  <2>1. phase' = "fold" /\ body' = {h[k + 1]} /\ serving' = {e}
    BY <1>11, <1>16, <1>17
  <2>2. e.left = SubSeq(list, k + 1 + 1, m) /\ e.outcomes = v.outcomes
    BY <1>4, <1>12, <1>13, <1>14
  <2>3. Steps(job, g[d - 1], m, h) /\ d # 0
    BY <1>4, <1>6
  <2>4. Busy(world, g, d, serving', body')
    BY <1>3, <1>6, <1>12, <1>14, <1>17, <2>1, <2>2, <2>3 DEF Busy, versions, F, job, list, m
  <2>5. QED
    BY <1>1, <1>2, <2>1, <2>4 DEF OnTrail, n, F
<1>18. CASE h[k + 1].panicked
  <2>1. h[m] = h[k + 1]
    BY <1>9, <1>14, <1>18
  <2>2. FeatureDoes(world, g[d - 1], versions, h[m])
    BY <1>3, <1>4 DEF FeatureDoes, job, list, m
  <2>3. g[d] = h[m]
    BY <1>7, <2>2, FeatureIsOne
  <2>4. d \in 0..n /\ g[d].panicked
    BY <1>6, <1>18, <2>1, <2>3
  <2>5. g[n] = g[d]
    BY <2>4, TrailSteps DEF n, F
  <2>6. phase' = "panicked" /\ body' = {h[k + 1]}
    BY <1>11, <1>16, <1>18
  <2>7. QED
    BY <2>1, <2>3, <2>5, <2>6 DEF OnTrail, n, F
<1>19. QED
  BY <1>17, <1>18

LEMMA EndOnTrail ==
    ASSUME NEW g, IsWorld(world), Trail(world, {}, g), OnTrail(world, g, phase, queue, serving, body),
           EndFeature
    PROVE  OnTrail(world, g, phase', queue', serving', body')
<1> DEFINE F == Features(world)
           n == Len(F)
<1>1. phase = "fold" /\ queue' = queue /\ serving # {} /\ serving' = {} /\ body' = body /\ phase' = phase
      /\ \E f \in serving : f.left = <<>>
  BY DEF EndFeature
<1>2. PICK d \in 0..n : queue = SubSeq(F, d + 1, n) /\ Busy(world, g, d, serving, body)
  BY <1>1 DEF OnTrail, Idle
<1> DEFINE versions == world.served[F[d].id]
<1>3. PICK v \in versions :
          /\ SelectorMatches(v.gate, g[d - 1])
          /\ \E h, f : LET list == ActionsJob(world, v, g[d - 1]).list IN
                /\ Steps(ActionsJob(world, v, g[d - 1]), g[d - 1], Len(list), h)
                /\ serving = {f} /\ {"left", "outcomes"} \subseteq DOMAIN f /\ f.outcomes = v.outcomes
                /\ \E k \in 0..Len(list) : /\ f.left = SubSeq(list, k + 1, Len(list))
                                           /\ body = {h[k]} /\ ~h[k].panicked
  BY <1>2 DEF Busy
<1> DEFINE job == ActionsJob(world, v, g[d - 1])
           list == job.list
           m == Len(list)
<1>4. PICK h, f : /\ Steps(job, g[d - 1], m, h) /\ serving = {f}
                  /\ \E k \in 0..m : /\ f.left = SubSeq(list, k + 1, m)
                                     /\ body = {h[k]} /\ ~h[k].panicked
  BY <1>3
<1>5. PICK k \in 0..m : f.left = SubSeq(list, k + 1, m) /\ body = {h[k]} /\ ~h[k].panicked
  BY <1>4
<1>6. n \in Nat /\ d \in 1..n /\ d - 1 \in 0..n
  BY <1>2, FeaturesListed DEF Busy
<1>7. IsServed(versions) /\ FeatureDoes(world, g[d - 1], versions, g[d])
      /\ IsBody(g[d - 1], ContentKind(world.upstream))
  BY <1>2, <1>6, FeaturesListed, TrailSteps DEF Busy
<1>8. IsVersion(v)
  BY <1>7 DEF IsServed
<1>9. m \in Nat /\ \E S : list \in Seq(S)
  BY <1>4, <1>7, <1>8, ActionSteps DEF ActionBodies
<1>10. k = m
  <2>1. f.left = <<>>
    BY <1>1, <1>4
  <2> HIDE DEF m, list
  <2>2. PICK S : list \in Seq(S)
    BY <1>9
  <2>3. ~(k < m)
    BY <1>5, <2>1, <2>2, RestOfList DEF m
  <2>4. QED
    BY <1>9, <2>3
<1>11. FeatureDoes(world, g[d - 1], versions, h[m])
  BY <1>3, <1>4 DEF FeatureDoes
<1> HIDE DEF versions, m
<1>12. g[d] = h[m]
  BY <1>7, <1>11, FeatureIsOne
<1>13. Idle(world, g, d, serving', body')
  BY <1>1, <1>5, <1>10, <1>12 DEF Idle
<1>14. QED
  BY <1>1, <1>2, <1>13 DEF OnTrail

\* The journey of a page ends where its trail does, unless it lacks outcomes.
LEMMA JourneyEndsTrail ==
    ASSUME IsWorld(world), NEW g, Trail(world, {}, g), NEW pinned,
           \A id \in pinned : ~UsesOutcomes(id)
    PROVE  RunFullJourney(Fetched(world), pinned) = g[Len(Features(world))]
<1>1. PICK h : /\ Trail(world, pinned, h)
               /\ RunFullJourney(Fetched(world), pinned) = h[Len(Features(world))]
  BY JourneyTrail
<1>2. \A id \in pinned : \A v \in world.served[id] : NeedsNoOutcome(world, v)
  BY DEF UsesOutcomes, NeedsNoOutcome, Canvas, CanvasIn
<1>3. Trail(world, {}, h)
  BY <1>1, <1>2, TrailPinned
<1> DEFINE n == Len(Features(world))
<1>4. n \in Nat
  BY FeaturesListed
<1>5. \A k \in 0..n : h[k] = g[k]
  BY <1>3, TrailUnique
<1> HIDE DEF n
<1>6. h[n] = g[n]
  BY <1>4, <1>5
<1>7. QED
  BY <1>1, <1>6 DEF n

\* The trail starts with the body that is decoded.
LEMMA DecodeOnTrail ==
    ASSUME NEW g, IsWorld(world), Trail(world, {}, g), body = {}, serving = {}, Decode
    PROVE  OnTrail(world, g, phase', queue', serving', body') /\ phase' \in {"fold", "sent"}
<1> DEFINE F == Features(world)
           n == Len(F)
<1>1. serving' = {}
  BY DEF Decode
<1>2. CASE phase' = "fold"
  <2>1. queue' = F /\ body' = {Fetched(world)}
    BY <1>2 DEF Decode, OfKind, Features, Fetched, Up
  <2>2. n \in Nat /\ F \in Seq(Range(world.listed))
    BY FeaturesListed
  <2>3. SubSeq(F, 1, n) = F /\ 0 \in 0..n /\ 0 + 1 = 1
    BY <2>2, SubSeqFull
  <2>4. Idle(world, g, 0, serving', body')
    BY <1>1, <2>1 DEF Idle, Trail, Fetched
  <2>5. queue' = SubSeq(F, 0 + 1, n)
    BY <2>1, <2>3
  <2>6. QED
    BY <1>2, <2>3, <2>4, <2>5 DEF OnTrail
<1>3. CASE phase' # "fold"
  <2>1. phase' = "sent" /\ body' = body
    BY <1>3 DEF Decode
  <2>2. QED
    BY <2>1 DEF OnTrail
<1>4. QED
  BY <1>2, <1>3

\* The reply is sent at the end of the trail.
LEMMA ReplyOnTrail ==
    ASSUME NEW g, IsWorld(world), Trail(world, {}, g), OnTrail(world, g, phase, queue, serving, body),
           Reply
    PROVE  OnTrail(world, g, phase', queue', serving', body')
<1> DEFINE F == Features(world)
           n == Len(F)
<1>1. phase = "fold" /\ serving = {} /\ queue = <<>> /\ phase' = "sent" /\ body' = body
  BY DEF Reply, pipeline
<1>2. PICK d \in 0..n : queue = SubSeq(F, d + 1, n) /\ body = {g[d]}
  BY <1>1 DEF OnTrail, Idle, Busy
<1>3. n \in Nat /\ F \in Seq(Range(world.listed))
  BY FeaturesListed
<1> HIDE DEF F
<1>4. ~(d < n)
  <2>1. d \in 0..Len(F) /\ queue = SubSeq(F, d + 1, Len(F)) /\ queue = <<>>
    BY <1>1, <1>2
  <2>2. PICK S : F \in Seq(S)
    BY <1>3
  <2> DEFINE q == queue
  <2>3. q = SubSeq(F, d + 1, Len(F)) /\ d \in 0..Len(F)
    BY <2>1
  <2>4. q # <<>> <=> d < Len(F)
    <3> HIDE DEF q
    <3>1. QED
      BY <2>2, <2>3, RestOfList
  <2>5. QED
    BY <2>1, <2>4
<1> HIDE DEF n
<1>5. d = n
  BY <1>2, <1>3, <1>4
<1>6. QED
  BY <1>1, <1>2, <1>5 DEF OnTrail, n, F

LEMMA NextJourney == JourneyInv /\ [Next]_vars => JourneyInv'
<1> SUFFICES ASSUME JourneyInv, [Next]_vars PROVE JourneyInv'
  OBVIOUS
<1>1. PICK g : Trail(world, {}, g) /\ OnTrail(world, g, phase, queue, serving, body)
  BY DEF JourneyInv
<1>2. IsWorld(world) /\ JourneyAgrees /\ (journey # {} => phase \in {"sent", "panicked"})
      /\ (phase \in {"copy", "send", "decode"} => body = {} /\ serving = {})
  BY DEF JourneyInv
<1>3. world' = world
  BY DEF Next, vars, pipeline, request, CopyHeaders, SetSiteHeader, SendUpstream, Decode, StartFeature,
     ApplyAction, EndFeature, Reply, RunJourney, Finished
<1>4. ASSUME OnTrail(world, g, phase', queue', serving', body'), journey' = {},
             phase' \in {"copy", "send", "decode"} => body' = {} /\ serving' = {}
      PROVE  JourneyInv'
  <2>1. JourneyAgrees'
    BY <1>4 DEF JourneyAgrees
  <2>2. QED
    BY <1>1, <1>2, <1>3, <1>4, <2>1 DEF JourneyInv
<1>5. CASE CopyHeaders \/ SetSiteHeader \/ SendUpstream
  <2>1. phase' \in {"copy", "send", "decode", "sent"} /\ phase \in {"copy", "send"}
        /\ body' = body /\ serving' = serving /\ journey' = journey
    BY <1>5 DEF CopyHeaders, SetSiteHeader, SendUpstream
  <2>2. body' = {} /\ serving' = {} /\ journey' = {}
    BY <1>2, <2>1
  <2>3. OnTrail(world, g, phase', queue', serving', body')
    BY <2>1, <2>2 DEF OnTrail
  <2>4. QED
    BY <1>4, <2>2, <2>3
<1>6. CASE Decode
  <2>1. phase = "decode" /\ journey' = journey
    BY <1>6 DEF Decode
  <2>2. OnTrail(world, g, phase', queue', serving', body') /\ phase' \in {"fold", "sent"}
    BY <1>1, <1>2, <1>6, <2>1, DecodeOnTrail
  <2>3. QED
    BY <1>2, <1>4, <2>1, <2>2
<1>7. CASE StartFeature \/ ApplyAction \/ EndFeature \/ Reply
  <2>1. phase = "fold" /\ phase' \in {"fold", "panicked", "sent"} /\ journey' = journey
    BY <1>7 DEF StartFeature, ApplyAction, EndFeature, Reply
  <2>2. OnTrail(world, g, phase', queue', serving', body')
    BY <1>1, <1>2, <1>7, StartOnTrail, ApplyOnTrail, EndOnTrail, ReplyOnTrail
  <2>3. QED
    BY <1>2, <1>4, <2>1, <2>2
<1>8. CASE RunJourney
  <2>1. phase \in {"sent", "panicked"} /\ phase' = phase /\ body' = body /\ queue' = queue
        /\ serving' = serving
    BY <1>8 DEF RunJourney, pipeline
  <2>2. PICK pinned : journey' = {[pinned |-> pinned, body |-> RunFullJourney(Fetched(world), pinned)]}
    BY <1>8 DEF RunJourney, Fetched, Up
  <2>3. body \subseteq {g[Len(Features(world))]}
    BY <1>1, <2>1 DEF OnTrail
  <2>4. ASSUME NEW j \in journey', NEW b \in body, \A id \in j.pinned : ~UsesOutcomes(id)
        PROVE  j.body = b
    <3>1. j.pinned = pinned /\ j.body = RunFullJourney(Fetched(world), pinned)
      BY <2>2
    <3>2. RunFullJourney(Fetched(world), pinned) = g[Len(Features(world))]
      BY <1>1, <1>2, <2>4, <3>1, JourneyEndsTrail
    <3>3. QED
      BY <2>3, <3>1, <3>2
  <2>5. JourneyAgrees'
    BY <1>3, <2>1, <2>4 DEF JourneyAgrees, UsesOutcomes, Canvas
  <2>6. QED
    BY <1>1, <1>2, <1>3, <2>1, <2>5 DEF JourneyInv
<1>9. CASE Finished \/ UNCHANGED vars
  <2>1. UNCHANGED <<world, phase, queue, serving, body, journey>>
    BY <1>9 DEF Finished, vars, pipeline
  <2>2. JourneyAgrees'
    BY <1>2, <2>1 DEF JourneyAgrees, UsesOutcomes, Canvas
  <2>3. QED
    BY <1>1, <1>2, <2>1, <2>2 DEF JourneyInv
<1>10. QED
  BY <1>5, <1>6, <1>7, <1>8, <1>9 DEF Next

\* run_full_journey and the two folds of forwarder.rs: what an operator is
\* shown of a page is what its clients are sent, whichever features, canvases,
\* actions and outcomes there are and also where a renderer panics: the journey,
\* which shows every body to every canvas and evaluates the features from the
\* fetched page in one go, ends with the body the pipeline ends with, as long as
\* the versions that are pinned do without their outcomes.
THEOREM JourneyAlwaysAgrees == Spec => []JourneyAgrees
<1>1. Init => JourneyInv
  <2> SUFFICES ASSUME Init PROVE JourneyInv
    OBVIOUS
  <2>1. IsWorld(world)
    BY WorldAssumption DEF Init, WorldAssumption
  <2>2. \E g : Trail(world, {}, g)
    BY <2>1, JourneyTrail
  <2>3. phase = "copy" /\ body = {} /\ serving = {} /\ journey = {}
    BY DEF Init
  <2>4. \A g : OnTrail(world, g, phase, queue, serving, body)
    BY <2>3 DEF OnTrail
  <2>5. JourneyAgrees
    BY <2>3 DEF JourneyAgrees
  <2>6. QED
    BY <2>1, <2>2, <2>3, <2>4, <2>5 DEF JourneyInv
<1>2. JourneyInv => JourneyAgrees
  BY DEF JourneyInv
<1>3. QED
  BY <1>1, <1>2, NextJourney, PTL DEF Spec

-----------------------------------------------------------------------------
(* Parts of lists *)

\* R puts all of D in one row.
IsRow(R, D) ==
    /\ \A i, j \in D : <<i, j>> \in R => <<j, i>> \notin R
    /\ \A i, j, k \in D : <<i, j>> \in R /\ <<j, k>> \in R => <<i, k>> \in R
    /\ \A i, j \in D : i = j \/ <<i, j>> \in R \/ <<j, i>> \in R

AheadIn(R, D, i) == {j \in D : <<j, i>> \in R}

LEMMA RanksAll ==
    ASSUME NEW D, IsFiniteSet(D), NEW R, IsRow(R, D)
    PROVE  \A k \in 1..Cardinality(D) : \E i \in D : Cardinality(AheadIn(R, D, i)) = k - 1
<1> DEFINE ahead(i) == {j \in D : <<j, i>> \in R}
           m == Cardinality(D)
           place == [i \in D |-> Cardinality(ahead(i)) + 1]
<1>1. m \in Nat /\ IsFiniteSet(1..m) /\ Cardinality(1..m) = m
  <2>1. m \in Nat
    BY FS_CardinalityType
  <2>2. QED
    BY <2>1, FS_Interval
<1>2. ASSUME NEW i \in D
      PROVE  /\ IsFiniteSet(ahead(i)) /\ Cardinality(ahead(i)) \in Nat
             /\ Cardinality(ahead(i)) + 1 \in 1..m
  <2>1. ahead(i) \subseteq D /\ i \notin ahead(i) /\ ahead(i) # D
    BY DEF IsRow
  <2> HIDE DEF ahead
  <2>2. IsFiniteSet(ahead(i)) /\ Cardinality(ahead(i)) \in Nat /\ Cardinality(ahead(i)) < m
    BY <2>1, FS_Subset, SmallerSet
  <2> HIDE DEF m
  <2>3. QED
    BY <1>1, <2>2
<1>3. ASSUME NEW i \in D, NEW j \in D, <<i, j>> \in R
      PROVE  Cardinality(ahead(i)) < Cardinality(ahead(j))
  <2>1. ahead(i) \subseteq ahead(j) /\ i \in ahead(j) /\ i \notin ahead(i)
    BY <1>3 DEF IsRow
  <2> HIDE DEF ahead
  <2>2. QED
    BY <1>2, <2>1, SmallerSet
<1>4. place \in Injection(D, 1..m)
  <2>1. ASSUME NEW i \in D, NEW j \in D, place[i] = place[j] PROVE i = j
    <3> HIDE DEF ahead
    <3>1. Cardinality(ahead(i)) + 1 = Cardinality(ahead(j)) + 1
      BY <2>1
    <3>2. Cardinality(ahead(i)) \in Nat /\ Cardinality(ahead(j)) \in Nat
      BY <1>2
    <3> DEFINE x == Cardinality(ahead(i))
               y == Cardinality(ahead(j))
    <3> HIDE DEF place, m
    <3>3. x = y
      <4>1. x + 1 = y + 1 /\ x \in Nat /\ y \in Nat
        BY <3>1, <3>2
      <4> HIDE DEF x, y
      <4>2. QED
        BY <4>1
    <3>4. <<i, j>> \notin R /\ <<j, i>> \notin R
      BY <1>3, <3>2, <3>3
    <3>5. QED
      BY <3>4 DEF IsRow
  <2>2. place \in [D -> 1..m]
    <3> HIDE DEF ahead, m
    <3>1. QED
      BY <1>2
  <2>3. QED
    BY <2>1, <2>2 DEF Injection, IsInjective
<1>5. place \in Surjection(D, 1..m)
  BY <1>1, <1>4, FS_Injection
<1>6. ASSUME NEW k \in 1..m PROVE \E i \in D : Cardinality(ahead(i)) = k - 1
  <2>1. PICK i \in D : place[i] = k
    BY <1>5 DEF Surjection
  <2>2. Cardinality(ahead(i)) + 1 = k /\ Cardinality(ahead(i)) \in Nat
    BY <1>2, <2>1
  <2> HIDE DEF ahead
  <2>3. QED
    BY <2>2
<1>7. QED
  BY <1>6 DEF AheadIn

LEMMA JoinedLists ==
    ASSUME NEW S, NEW a \in Seq(S), NEW b \in Seq(S)
    PROVE  /\ a \o b \in Seq(S) /\ Len(a \o b) = Len(a) + Len(b) /\ Len(a) \in Nat /\ Len(b) \in Nat
           /\ Range(a \o b) = Range(a) \union Range(b)
<1>1. /\ Len(a) \in Nat /\ DOMAIN a = 1..Len(a) /\ Len(b) \in Nat /\ DOMAIN b = 1..Len(b)
      /\ a \o b \in Seq(S) /\ Len(a \o b) = Len(a) + Len(b)
      /\ DOMAIN (a \o b) = 1..(Len(a) + Len(b))
  BY ConcatProperties, LenProperties
<1>2. \A i \in 1..(Len(a) + Len(b)) : (a \o b)[i] = IF i <= Len(a) THEN a[i] ELSE b[i - Len(a)]
  BY ConcatProperties
<1> DEFINE c == a \o b
           m == Len(a)
           n == Len(b)
<1>3. m \in Nat /\ n \in Nat /\ DOMAIN c = 1..(m + n) /\ DOMAIN a = 1..m /\ DOMAIN b = 1..n
      /\ \A i \in 1..(m + n) : c[i] = IF i <= m THEN a[i] ELSE b[i - m]
  BY <1>1, <1>2
<1> HIDE DEF c, m, n
<1>4. \A i \in 1..m : c[i] = a[i] /\ i \in 1..(m + n)
  BY <1>3
<1>5. \A i \in 1..n : c[m + i] = b[i] /\ m + i \in 1..(m + n)
  <2>1. ASSUME NEW i \in 1..n PROVE c[m + i] = b[i] /\ m + i \in 1..(m + n)
    <3>1. m + i \in 1..(m + n) /\ ~(m + i <= m) /\ m + i - m = i
      BY <1>3
    <3>2. QED
      BY <1>3, <3>1
  <2>2. QED
    BY <2>1
<1>6. \A i \in 1..(m + n) : i \in 1..m \/ (i - m \in 1..n /\ ~(i <= m))
  BY <1>3
<1>7. Range(c) = Range(a) \union Range(b)
  <2>1. Range(a) \subseteq Range(c)
    BY <1>3, <1>4 DEF Range
  <2>2. Range(b) \subseteq Range(c)
    <3>1. ASSUME NEW i \in 1..n PROVE b[i] \in Range(c)
      <4>1. b[i] = c[m + i] /\ m + i \in DOMAIN c
        BY <1>3, <1>5
      <4>2. QED
        BY <4>1 DEF Range
    <3>2. QED
      BY <1>3, <3>1 DEF Range
  <2>3. ASSUME NEW i \in 1..(m + n) PROVE c[i] \in Range(a) \union Range(b)
    <3>1. CASE i \in 1..m
      BY <1>3, <1>4, <3>1 DEF Range
    <3>2. CASE i - m \in 1..n /\ ~(i <= m)
      BY <1>3, <3>2 DEF Range
    <3>3. QED
      BY <1>6, <3>1, <3>2
  <2>4. Range(c) \subseteq Range(a) \union Range(b)
    BY <1>3, <2>3 DEF Range
  <2>5. QED
    BY <2>1, <2>2, <2>4
<1>8. QED
  BY <1>1, <1>7 DEF c

LEMMA PartOfList ==
    ASSUME NEW S, NEW s \in Seq(S), NEW m \in Int, NEW n \in Int, 1 <= m, n <= Len(s)
    PROVE  /\ SubSeq(s, m, n) \in Seq(S)
           /\ Len(SubSeq(s, m, n)) = IF m <= n THEN n - m + 1 ELSE 0
           /\ Range(SubSeq(s, m, n)) = {s[i] : i \in m..n}
<1>1. Len(s) \in Nat /\ \A i \in 1..Len(s) : s[i] \in S
  BY LenProperties
<1>2. \A i \in m..n : s[i] \in S
  BY <1>1
<1> DEFINE p == SubSeq(s, m, n)
<1>3. /\ p \in Seq(S) /\ Len(p) = IF m <= n THEN n - m + 1 ELSE 0
      /\ \A i \in 1..(n - m + 1) : p[i] = s[m + i - 1]
  BY <1>2, SubSeqProperties
<1>4. DOMAIN p = 1..Len(p)
  BY <1>3, LenProperties
<1> HIDE DEF p
<1>5. DOMAIN p = 1..(n - m + 1)
  BY <1>3, <1>4
<1>6. \A i \in m..n : i - m + 1 \in 1..(n - m + 1) /\ m + (i - m + 1) - 1 = i
  OBVIOUS
<1>7. \A i \in 1..(n - m + 1) : m + i - 1 \in m..n
  OBVIOUS
<1>8. ASSUME NEW i \in m..n PROVE s[i] \in Range(p)
  <2>1. p[i - m + 1] = s[m + (i - m + 1) - 1] /\ i - m + 1 \in DOMAIN p
    BY <1>3, <1>5, <1>6
  <2>2. QED
    BY <1>6, <2>1 DEF Range
<1>9. Range(p) = {s[i] : i \in m..n}
  BY <1>3, <1>5, <1>7, <1>8 DEF Range
<1>10. QED
  BY <1>3, <1>9 DEF p

\* A list is a list of its own elements.
LEMMA ListOfOwn ==
    ASSUME NEW S, NEW s \in Seq(S)
    PROVE  s \in Seq(Range(s)) /\ Range(s) \subseteq S /\ Range(s) = {s[i] : i \in 1..Len(s)}
           /\ Len(s) \in Nat /\ DOMAIN s = 1..Len(s)
<1>1. Len(s) \in Nat /\ DOMAIN s = 1..Len(s) /\ s \in [1..Len(s) -> S]
  BY LenProperties
<1>2. \A i \in 1..Len(s) : s[i] \in Range(s) /\ s[i] \in S
  BY <1>1 DEF Range
<1> DEFINE n == Len(s)
           R == Range(s)
<1>3. s = [i \in 1..n |-> s[i]] /\ n \in Nat /\ \A i \in 1..n : s[i] \in R
  BY <1>1, <1>2
<1>4. R = {s[i] : i \in 1..n} /\ R \subseteq S
  BY <1>1, <1>2 DEF Range
<1> HIDE DEF n, R
<1>5. s \in Seq(R)
  BY <1>3
<1>6. QED
  BY <1>1, <1>4, <1>5 DEF n, R

-----------------------------------------------------------------------------
(* Pages *)

LEMMA PageOf ==
    ASSUME NEW S, NEW x \in Seq(S), \A t \in Range(x) : IsToken(t)
    PROVE  IsPage(x)
BY ListOfOwn DEF IsPage

LEMMA PagePlaces ==
    ASSUME NEW doc, IsPage(doc)
    PROVE  /\ doc \in Seq(Range(doc)) /\ Len(doc) \in Nat /\ DOMAIN doc = 1..Len(doc)
           /\ Range(doc) = {doc[i] : i \in 1..Len(doc)}
           /\ \A i \in 1..Len(doc) : doc[i] \in Range(doc) /\ IsToken(doc[i])
<1> DEFINE R == Range(doc)
<1>1. doc \in Seq(R) /\ \A t \in R : IsToken(t)
  BY DEF IsPage
<1>2. Len(doc) \in Nat /\ DOMAIN doc = 1..Len(doc) /\ R = {doc[i] : i \in 1..Len(doc)}
  BY <1>1, ListOfOwn
<1> HIDE DEF R
<1>3. QED
  BY <1>1, <1>2 DEF R

\* A mark of a page is one of its tokens'.
LEMMA MarkOfPage ==
    ASSUME NEW doc, IsPage(doc), NEW mark
    PROVE  HasMark(doc, mark) <=> \E t \in Range(doc) : mark \in t.marks
<1>1. DOMAIN doc = 1..Len(doc) /\ Range(doc) = {doc[i] : i \in 1..Len(doc)}
  BY PagePlaces
<1> DEFINE R == Range(doc)
           n == Len(doc)
<1> HIDE DEF R, n
<1>2. QED
  BY <1>1 DEF HasMark, R, n

LEMMA Tokens ==
    /\ \A kind : IsToken(Style(kind)) /\ IsToken(Close(kind))
    /\ \A marks : IsToken(Token("open", "div", marks)) /\ Token("open", "div", marks).marks = marks
    /\ IsToken(Broken)
BY DEF IsToken, Token, Style, Close, Broken

LEMMA JoinedPages ==
    ASSUME NEW a, NEW b, IsPage(a), IsPage(b)
    PROVE  /\ IsPage(a \o b) /\ Range(a \o b) = Range(a) \union Range(b)
           /\ Len(a \o b) = Len(a) + Len(b) /\ Len(a) \in Nat /\ Len(b) \in Nat
<1> DEFINE A == Range(a)
           B == Range(b)
           S == A \union B
<1>1. a \in Seq(A) /\ b \in Seq(B) /\ \A t \in S : IsToken(t)
  BY DEF IsPage
<1> HIDE DEF A, B
<1>2. a \in Seq(S) /\ b \in Seq(S)
  BY <1>1
<1> HIDE DEF S
<1>3. a \o b \in Seq(S) /\ Len(a \o b) = Len(a) + Len(b) /\ Len(a) \in Nat /\ Len(b) \in Nat
      /\ Range(a \o b) = Range(a) \union Range(b)
  BY <1>2, JoinedLists
<1>4. Range(a \o b) = S
  BY <1>3 DEF S, A, B
<1>5. IsPage(a \o b)
  BY <1>1, <1>3, <1>4, PageOf
<1>6. QED
  BY <1>3, <1>5

LEMMA PartOfPage ==
    ASSUME NEW doc, IsPage(doc), NEW m \in Int, NEW n \in Int, 1 <= m, n <= Len(doc)
    PROVE  /\ IsPage(SubSeq(doc, m, n)) /\ Range(SubSeq(doc, m, n)) = {doc[i] : i \in m..n}
           /\ Len(SubSeq(doc, m, n)) = IF m <= n THEN n - m + 1 ELSE 0
<1> DEFINE R == Range(doc)
<1>1. doc \in Seq(R) /\ Len(doc) \in Nat /\ \A i \in 1..Len(doc) : IsToken(doc[i])
  BY PagePlaces
<1> HIDE DEF R
<1>2. /\ SubSeq(doc, m, n) \in Seq(R) /\ Range(SubSeq(doc, m, n)) = {doc[i] : i \in m..n}
      /\ Len(SubSeq(doc, m, n)) = IF m <= n THEN n - m + 1 ELSE 0
  BY <1>1, PartOfList
<1>3. \A i \in m..n : IsToken(doc[i])
  BY <1>1
<1>4. IsPage(SubSeq(doc, m, n))
  BY <1>2, <1>3, PageOf
<1>5. QED
  BY <1>2, <1>4

LEMMA PutPage ==
    ASSUME NEW doc, NEW fragment, IsPage(doc), IsPage(fragment), NEW i \in 0..Len(doc)
    PROVE  /\ IsPage(Put(doc, i, fragment))
           /\ Range(Put(doc, i, fragment)) = Range(doc) \union Range(fragment)
           /\ Len(Put(doc, i, fragment)) = Len(doc) + Len(fragment)
           /\ Len(doc) \in Nat /\ Len(fragment) \in Nat
<1> DEFINE n == Len(doc)
           a == SubSeq(doc, 1, i)
           b == SubSeq(doc, i + 1, n)
<1>1. n \in Nat /\ Len(fragment) \in Nat /\ Range(doc) = {doc[j] : j \in 1..n}
  BY PagePlaces
<1>2. IsPage(a) /\ Range(a) = {doc[j] : j \in 1..i} /\ Len(a) = i
  <2>1. i \in Int /\ 1 <= 1 /\ i <= Len(doc) /\ (IF 1 <= i THEN i - 1 + 1 ELSE 0) = i
    BY <1>1
  <2>2. QED
    BY <2>1, PartOfPage
<1>3. IsPage(b) /\ Range(b) = {doc[j] : j \in (i + 1)..n} /\ Len(b) = n - i
  <2>1. i + 1 \in Int /\ n \in Int /\ 1 <= i + 1 /\ n <= Len(doc)
        /\ (IF i + 1 <= n THEN n - (i + 1) + 1 ELSE 0) = n - i
    BY <1>1
  <2>2. QED
    BY <2>1, PartOfPage
<1>4. Put(doc, i, fragment) = a \o fragment \o b
  BY DEF Put
<1> HIDE DEF n, a, b
<1>5. IsPage(a \o fragment) /\ Range(a \o fragment) = Range(a) \union Range(fragment)
      /\ Len(a \o fragment) = i + Len(fragment)
  BY <1>2, JoinedPages
<1>6. /\ IsPage(a \o fragment \o b)
      /\ Range(a \o fragment \o b) = Range(a) \union Range(fragment) \union Range(b)
      /\ Len(a \o fragment \o b) = i + Len(fragment) + (n - i)
  BY <1>3, <1>5, JoinedPages
<1>7. Range(doc) = Range(a) \union Range(b)
  <2>1. \A j \in 1..n : j \in 1..i \/ j \in (i + 1)..n
    BY <1>1
  <2>2. \A j : j \in 1..i \/ j \in (i + 1)..n => j \in 1..n
    BY <1>1 DEF n
  <2>3. QED
    BY <1>1, <1>2, <1>3, <2>1, <2>2
<1>8. i + Len(fragment) + (n - i) = n + Len(fragment)
  BY <1>1
<1>9. QED
  BY <1>1, <1>4, <1>6, <1>7, <1>8 DEF n

\* The first and the last of some places, or none.
LEMMA FirstAndLast ==
    ASSUME NEW n \in Nat, NEW E, E \subseteq 1..n
    PROVE  /\ (IF E # {} THEN Min(E) ELSE 0) \in 0..n
           /\ (IF E # {} THEN Max(E) ELSE 0) \in 0..n
           /\ E # {} => Min(E) \in E /\ Max(E) \in E /\ \A i \in E : Min(E) <= i /\ i <= Max(E)
<1>1. CASE E = {}
  BY <1>1
<1>2. CASE E # {}
  <2>1. 1 \in Int /\ n \in Int
    OBVIOUS
  <2>2. Min(E) \in E /\ \A i \in E : Min(E) <= i
    BY <1>2, <2>1, BoundedMin
  <2>3. Max(E) \in E /\ \A i \in E : i <= Max(E)
    BY <1>2, <2>1, BoundedMax
  <2>4. \A i \in E : i \in 0..n
    OBVIOUS
  <2>5. QED
    BY <1>2, <2>2, <2>3, <2>4
<1>3. QED
  BY <1>1, <1>2

\* The style is there, and nothing else is new.
LEMMA StyleOnce ==
    ASSUME NEW doc, IsPage(doc), NEW kind
    PROVE  /\ IsPage(InjectStyleOnce(doc, kind))
           /\ Range(InjectStyleOnce(doc, kind)) = Range(doc) \union {Style(kind)}
           /\ Contains(doc, Style(kind)) => InjectStyleOnce(doc, kind) = doc
           /\ Contains(InjectStyleOnce(doc, kind), Style(kind))
<1> DEFINE n == Len(doc)
           style == <<Style(kind)>>
           heads == {i \in 1..n : doc[i] = Close("head")}
           head == SelectInSeq(doc, LAMBDA t : t = Close("head"))
           new == InjectStyleOnce(doc, kind)
<1>1. n \in Nat /\ Range(doc) = {doc[i] : i \in 1..n}
  BY PagePlaces
<1>2. IsPage(style) /\ Range(style) = {Style(kind)}
  <2>1. style \in Seq({Style(kind)}) /\ Range(style) = {Style(kind)}
    BY DEF Range
  <2>2. QED
    BY <2>1, PageOf, Tokens
<1>3. head \in 0..n
  <2>1. head = IF heads # {} THEN Min(heads) ELSE 0
    BY DEF SelectInSeq
  <2>2. heads \subseteq 1..n
    OBVIOUS
  <2> HIDE DEF heads, head, n
  <2>3. QED
    BY <1>1, <2>1, <2>2, FirstAndLast
<1>4. Contains(doc, Style(kind)) <=> Style(kind) \in Range(doc)
  BY <1>1 DEF Contains
<1>5. new = IF Contains(doc, Style(kind)) THEN doc
            ELSE IF head = 0 THEN style \o doc ELSE Put(doc, head - 1, style)
  BY DEF InjectStyleOnce
<1> HIDE DEF style, head, heads, new
<1>6. IsPage(new) /\ Range(new) = Range(doc) \union {Style(kind)}
  <2>1. CASE Contains(doc, Style(kind))
    BY <1>4, <1>5, <2>1
  <2>2. CASE ~Contains(doc, Style(kind)) /\ head = 0
    <3>1. new = style \o doc
      BY <1>5, <2>2
    <3>2. QED
      BY <1>2, <3>1, JoinedPages
  <2>3. CASE ~Contains(doc, Style(kind)) /\ head # 0
    <3>1. new = Put(doc, head - 1, style) /\ head - 1 \in 0..n
      BY <1>1, <1>3, <1>5, <2>3
    <3>2. /\ IsPage(Put(doc, head - 1, style))
          /\ Range(Put(doc, head - 1, style)) = Range(doc) \union Range(style)
      BY <1>2, <3>1, PutPage DEF n
    <3>3. QED
      BY <1>2, <3>1, <3>2
  <2>4. QED
    BY <2>1, <2>2, <2>3
<1>7. Contains(new, Style(kind))
  <2>1. Range(new) = {new[i] : i \in 1..Len(new)}
    BY <1>6, PagePlaces
  <2>2. PICK i \in 1..Len(new) : new[i] = Style(kind)
    BY <1>6, <2>1
  <2>3. QED
    BY <2>2 DEF Contains
<1>8. QED
  BY <1>5, <1>6, <1>7 DEF new

LEMMA AppendedPage ==
    ASSUME NEW doc, NEW fragment, IsPage(doc), IsPage(fragment)
    PROVE  /\ IsPage(AppendToBody(doc, fragment))
           /\ Range(AppendToBody(doc, fragment)) = Range(doc) \union Range(fragment)
<1> DEFINE n == Len(doc)
           bodies == {i \in 1..n : doc[i] = Close("body")}
           last == SelectLastInSeq(doc, LAMBDA t : t = Close("body"))
<1>1. n \in Nat
  BY PagePlaces
<1>2. last \in 0..n
  <2>1. last = IF bodies # {} THEN Max(bodies) ELSE 0
    BY DEF SelectLastInSeq
  <2>2. bodies \subseteq 1..n
    OBVIOUS
  <2> HIDE DEF bodies, last, n
  <2>3. QED
    BY <1>1, <2>1, <2>2, FirstAndLast
<1>3. AppendToBody(doc, fragment) = IF last = 0 THEN doc \o fragment ELSE Put(doc, last - 1, fragment)
  BY DEF AppendToBody
<1> HIDE DEF last
<1>4. CASE last = 0
  BY <1>3, <1>4, JoinedPages
<1>5. CASE last # 0
  <2>1. last - 1 \in 0..n
    BY <1>1, <1>2, <1>5
  <2>2. QED
    BY <1>3, <1>5, <2>1, PutPage
<1>6. QED
  BY <1>4, <1>5

\* What is wrapped is a page with the mark.
LEMMA WrappedPage ==
    ASSUME NEW mark, NEW fragment, IsPage(fragment)
    PROVE  /\ IsPage(Wrapped(mark, fragment))
           /\ Token("open", "div", {mark}) \in Range(Wrapped(mark, fragment))
<1> DEFINE S == {t \in Range(fragment) :
                    t.is = "word" \/ (t.is \in {"open", "close"} /\ t.name \in AllowedTags)}
           front == <<Token("open", "div", {mark})>>
           back == <<Close("div")>>
           clean == Sanitize(fragment)
<1>1. clean = Keeping(fragment, S) /\ S \subseteq Range(fragment)
  BY DEF Sanitize
<1>2. IsPage(clean)
  <2>1. fragment \in Seq(Range(fragment)) /\ \A t \in Range(fragment) : IsToken(t)
    BY DEF IsPage
  <2> HIDE DEF S
  <2>2. Keeping(fragment, S) \in Seq(S) /\ Range(Keeping(fragment, S)) = Range(fragment) \intersect S
    BY <2>1, KeepingLists
  <2> HIDE DEF clean
  <2>3. QED
    BY <1>1, <2>1, <2>2, PageOf
<1>3. IsPage(front) /\ Range(front) = {Token("open", "div", {mark})}
  <2>1. front \in Seq({Token("open", "div", {mark})}) /\ Range(front) = {Token("open", "div", {mark})}
    BY DEF Range
  <2>2. QED
    BY <2>1, PageOf, Tokens
<1>4. IsPage(back)
  <2>1. back \in Seq({Close("div")}) /\ Range(back) = {Close("div")}
    BY DEF Range
  <2>2. QED
    BY <2>1, PageOf, Tokens
<1>5. Wrapped(mark, fragment) = front \o clean \o back
  BY DEF Wrapped
<1> HIDE DEF front, back, clean
<1>6. IsPage(front \o clean) /\ Range(front \o clean) = Range(front) \union Range(clean)
  BY <1>2, <1>3, JoinedPages
<1>7. IsPage(front \o clean \o back)
      /\ Range(front \o clean \o back) = Range(front \o clean) \union Range(back)
  BY <1>4, <1>6, JoinedPages
<1>8. QED
  BY <1>3, <1>5, <1>6, <1>7

-----------------------------------------------------------------------------
(* The rewriter *)

Modes == {"before", "prepend", "append", "after", "replace"}

\* Placing a fragment keeps what is in front, and leaves the fragment there
\* unless there is no place for it.
LEMMA PlacedAt ==
    ASSUME NEW doc, NEW fragment, IsPage(doc), IsPage(fragment), NEW i \in 1..Len(doc),
           NEW mode \in Modes
    PROVE  /\ IsPage(PlaceAt(doc, i, mode, fragment))
           /\ i <= Len(PlaceAt(doc, i, mode, fragment)) /\ Len(PlaceAt(doc, i, mode, fragment)) \in Nat
           /\ \/ PlaceAt(doc, i, mode, fragment) = doc
              \/ Range(fragment) \subseteq Range(PlaceAt(doc, i, mode, fragment))
<1> DEFINE n == Len(doc)
           m == Len(fragment)
           placed == PlaceAt(doc, i, mode, fragment)
           end == CHOOSE j \in EndTag(doc, i) : TRUE
<1>1. n \in Nat /\ m \in Nat /\ i \in 1..n
  BY PagePlaces
<1>2. ASSUME NEW j \in 0..n, i - 1 <= j, placed = Put(doc, j, fragment)
      PROVE  IsPage(placed) /\ i <= Len(placed) + 1 /\ Len(placed) \in Nat
             /\ Len(placed) = n + m /\ Range(fragment) \subseteq Range(placed)
  <2>1. /\ IsPage(placed) /\ Range(placed) = Range(doc) \union Range(fragment)
        /\ Len(placed) = n + m
    BY <1>2, PutPage DEF n, m
  <2> HIDE DEF placed, n, m
  <2>2. QED
    BY <1>1, <2>1
<1>3. EndTag(doc, i) \subseteq i..n
  BY DEF EndTag
<1>4. EndTag(doc, i) # {} => end \in i..n
  BY <1>3
<1>5. CASE \E j \in 0..n : i - 1 <= j /\ placed = Put(doc, j, fragment)
  <2>1. IsPage(placed) /\ Len(placed) = n + m /\ Range(fragment) \subseteq Range(placed)
    BY <1>2, <1>5
  <2> HIDE DEF placed, n, m
  <2>2. i <= Len(placed) /\ Len(placed) \in Nat
    BY <1>1, <2>1
  <2>3. QED
    BY <2>1, <2>2 DEF placed
<1>6. CASE mode = "before"
  <2>1. placed = Put(doc, i - 1, fragment)
    BY <1>6 DEF PlaceAt
  <2>2. i - 1 \in 0..n /\ i - 1 <= i - 1
    BY <1>1
  <2>3. QED
    BY <1>5, <2>1, <2>2
<1>7. CASE mode = "prepend"
  <2>1. placed = Put(doc, i, fragment)
    BY <1>7 DEF PlaceAt
  <2>2. i \in 0..n /\ i - 1 <= i
    BY <1>1
  <2>3. QED
    BY <1>5, <2>1, <2>2
<1>8. CASE mode \in {"append", "after", "replace"} /\ EndTag(doc, i) = {}
  BY <1>1, <1>8 DEF PlaceAt
<1>9. CASE mode = "append" /\ EndTag(doc, i) # {}
  <2>1. placed = Put(doc, end - 1, fragment)
    BY <1>9 DEF PlaceAt
  <2>2. end - 1 \in 0..n /\ i - 1 <= end - 1
    <3> HIDE DEF end, n
    <3>1. QED
      BY <1>1, <1>4, <1>9
  <2>3. QED
    BY <1>5, <2>1, <2>2
<1>10. CASE mode = "after" /\ EndTag(doc, i) # {}
  <2>1. placed = Put(doc, end, fragment)
    BY <1>10 DEF PlaceAt
  <2>2. end \in 0..n /\ i - 1 <= end
    <3> HIDE DEF end, n
    <3>1. QED
      BY <1>1, <1>4, <1>10
  <2>3. QED
    BY <1>5, <2>1, <2>2
<1>11. CASE mode = "replace" /\ EndTag(doc, i) # {}
  <2> DEFINE a == SubSeq(doc, 1, i)
             b == SubSeq(doc, end, n)
  <2>1. placed = a \o fragment \o b
    BY <1>11 DEF PlaceAt
  <2> HIDE DEF end
  <2>2. IsPage(a) /\ Len(a) = i
    <3>1. i \in Int /\ 1 <= i /\ i <= Len(doc) /\ i - 1 + 1 = i
      BY <1>1
    <3>2. QED
      BY <3>1, PartOfPage
  <2>3. IsPage(b)
    <3>1. end \in Int /\ 1 <= end /\ n \in Int /\ n <= Len(doc)
      BY <1>1, <1>4, <1>11
    <3>2. QED
      BY <3>1, PartOfPage
  <2> HIDE DEF a, b, placed
  <2>4. /\ IsPage(a \o fragment) /\ Range(a \o fragment) = Range(a) \union Range(fragment)
        /\ Len(a \o fragment) = i + m
    BY <2>2, JoinedPages
  <2>5. /\ IsPage(placed) /\ Range(placed) = Range(a \o fragment) \union Range(b)
        /\ Len(placed) = i + m + Len(b) /\ Len(b) \in Nat
    BY <2>1, <2>3, <2>4, JoinedPages
  <2> HIDE DEF m
  <2>6. i <= Len(placed) /\ Len(placed) \in Nat
    BY <1>1, <2>5
  <2>7. QED
    BY <2>4, <2>5, <2>6 DEF placed
<1>12. QED
  BY <1>6, <1>7, <1>8, <1>9, <1>10, <1>11 DEF Modes

\* What a fragment placed at every target makes of a page.
LEMMA PlacedPage ==
    ASSUME NEW doc, NEW fragment, IsPage(doc), IsPage(fragment), NEW selector, NEW mode \in Modes
    PROVE  /\ IsPage(Place(doc, selector, mode, fragment))
           /\ \/ Place(doc, selector, mode, fragment) = doc
              \/ Range(fragment) \subseteq Range(Place(doc, selector, mode, fragment))
<1> DEFINE n == Len(doc)
           targets == Targets(doc, selector)
           P(h) == h = [i \in 1..(n + 1) |->
                           IF i > n THEN doc
                           ELSE IF i \in targets THEN PlaceAt(h[i + 1], i, mode, fragment)
                           ELSE h[i + 1]]
           job == [of |-> "places", last |-> n, targets |-> targets, mode |-> mode, fragment |-> fragment]
<1>1. n \in Nat
  BY PagePlaces
<1>2. Place(doc, selector, mode, fragment) = (CHOOSE h : P(h))[1]
  BY Zenon DEF Place
<1>3. \A x, k : Do(job, x, k) =
         IF n + 1 - k \in targets THEN PlaceAt(x, n + 1 - k, mode, fragment) ELSE x
  BY DEF Do
<1> HIDE DEF n, targets, job
<1>4. \E h : P(h)
  <2>1. PICK g : Steps(job, doc, n, g)
    BY <1>1, StepsExist
  <2> DEFINE h == [i \in 1..(n + 1) |-> g[n + 1 - i]]
  <2>2. g[0] = doc
    BY <2>1 DEF Steps
  <2>3. ASSUME NEW i \in 1..(n + 1)
        PROVE  h[i] = IF i > n THEN doc
                      ELSE IF i \in targets THEN PlaceAt(h[i + 1], i, mode, fragment)
                      ELSE h[i + 1]
    <3>1. CASE i > n
      <4>1. n + 1 - i = 0
        BY <1>1, <3>1
      <4>2. QED
        BY <2>2, <3>1, <4>1
    <3>2. CASE ~(i > n)
      <4>1. /\ i + 1 \in 1..(n + 1) /\ n + 1 - i \in 1..n
        BY <1>1, <3>2
      <4>2. PICK k \in 1..n : k = n + 1 - i
        BY <4>1
      <4>3. n + 1 - (i + 1) = k - 1 /\ n + 1 - k = i
        BY <1>1, <4>2
      <4>4. g[k] = Do(job, g[k - 1], k)
        BY <2>1 DEF Steps
      <4>5. h[i] = g[k] /\ h[i + 1] = g[k - 1]
        BY <4>1, <4>2, <4>3
      <4> HIDE DEF h
      <4>6. h[i] = Do(job, h[i + 1], k)
        BY <4>4, <4>5
      <4>7. h[i] = IF i \in targets THEN PlaceAt(h[i + 1], i, mode, fragment) ELSE h[i + 1]
        BY <1>3, <4>3, <4>6
      <4>8. QED
        BY <3>2, <4>7
    <3>3. QED
      BY <3>1, <3>2
  <2>4. h = [i \in 1..(n + 1) |-> h[i]]
    OBVIOUS
  <2> HIDE DEF h
  <2>5. P(h)
    BY <2>3, <2>4
  <2>6. QED
    BY <2>5
<1> DEFINE h == CHOOSE h : P(h)
<1>5. P(h)
  <2> HIDE DEF P
  <2>1. QED
    BY <1>4
<1> HIDE DEF h
<1> DEFINE Fine(i) == /\ IsPage(h[i]) /\ i - 1 <= Len(h[i])
                      /\ h[i] = doc \/ Range(fragment) \subseteq Range(h[i])
           T == {k \in 0..n : Fine(n + 1 - k)}
<1>6. 0 \in T
  <2>1. h[n + 1] = doc /\ n + 1 - 0 = n + 1 /\ n + 1 - 1 <= n
    BY <1>1, <1>5
  <2>2. Fine(n + 1)
    BY <2>1 DEF n
  <2>3. QED
    BY <1>1, <2>1, <2>2
<1>7. ASSUME NEW k \in 1..n, k - 1 \in T PROVE k \in T
  <2> DEFINE i == n + 1 - k
  <2>1. i \in 1..n /\ n + 1 - (k - 1) = i + 1 /\ i + 1 - 1 = i /\ ~(i > n) /\ k \in 0..n
        /\ i \in 1..(n + 1)
    BY <1>1
  <2>2. Fine(i + 1)
    BY <1>7, <2>1
  <2> HIDE DEF i
  <2>3. IsPage(h[i + 1]) /\ i <= Len(h[i + 1])
        /\ (h[i + 1] = doc \/ Range(fragment) \subseteq Range(h[i + 1]))
    BY <2>1, <2>2
  <2>4. i \in 1..Len(h[i + 1]) /\ i - 1 <= Len(h[i + 1])
    <3>1. Len(h[i + 1]) \in Nat
      BY <2>3, PagePlaces
    <3>2. QED
      BY <1>1, <2>1, <2>3, <3>1
  <2>5. h[i] = IF i \in targets THEN PlaceAt(h[i + 1], i, mode, fragment) ELSE h[i + 1]
    BY <1>5, <2>1
  <2>6. Fine(i)
    <3>1. CASE i \notin targets
      BY <2>3, <2>4, <2>5, <3>1
    <3>2. CASE i \in targets
      <4> DEFINE d == h[i + 1]
      <4>1. h[i] = PlaceAt(d, i, mode, fragment)
        BY <2>5, <3>2
      <4>2. IsPage(d) /\ i \in 1..Len(d)
        BY <2>3, <2>4
      <4> HIDE DEF d
      <4>3. /\ IsPage(h[i]) /\ i <= Len(h[i]) /\ Len(h[i]) \in Nat
            /\ h[i] = d \/ Range(fragment) \subseteq Range(h[i])
        BY <4>1, <4>2, PlacedAt
      <4>4. i - 1 <= Len(h[i])
        BY <1>1, <2>1, <4>3
      <4>5. QED
        BY <2>3, <4>3, <4>4 DEF d
    <3>3. QED
      BY <3>1, <3>2
  <2> HIDE DEF Fine
  <2>7. QED
    BY <2>1, <2>6 DEF i
<1>8. Fine(1)
  <2> HIDE DEF T, Fine
  <2>1. n \in T
    <3>1. 0..n \subseteq T
      BY <1>1, <1>6, <1>7, SetInduction
    <3>2. QED
      BY <1>1, <3>1
  <2>2. n + 1 - n = 1
    BY <1>1
  <2>3. QED
    BY <2>1, <2>2 DEF T
<1>9. QED
  BY <1>2, <1>8 DEF h

-----------------------------------------------------------------------------
(* The renderers *)

\* Checked, with the marker and the new body apart.
Verdict(selector, doc, mark, new) ==
    IF selector \in {"", "*"} THEN Rejected
    ELSE IF IsMarked(doc, mark) THEN Rendered(doc)
    ELSE IF selector = "[" THEN Panicked
    ELSE Rendered(new)

LEMMA CheckedResult ==
    ASSUME NEW selector, NEW doc, NEW mark, NEW new, NEW r, r = Verdict(selector, doc, mark, new)
    PROVE  /\ r.kind = "ok" => /\ selector # "" /\ selector # "*"
                               /\ IsMarked(doc, mark) \/ selector # "["
           /\ selector # "" /\ selector # "*" /\ IsMarked(doc, mark) => r = Rendered(doc)
           /\ selector # "" /\ selector # "*" /\ selector # "[" /\ ~IsMarked(doc, mark)
                 => r = Rendered(new)
<1>1. Rejected.kind # "ok" /\ Panicked.kind # "ok"
  BY DEF Rejected, Panicked
<1>2. CASE selector = "" \/ selector = "*"
  BY <1>1, <1>2 DEF Verdict
<1>3. CASE selector # "" /\ selector # "*" /\ IsMarked(doc, mark)
  BY <1>3 DEF Verdict
<1>4. CASE selector # "" /\ selector # "*" /\ ~IsMarked(doc, mark)
  BY <1>1, <1>4 DEF Verdict
<1>5. QED
  BY <1>2, <1>3, <1>4

\* Marking the targets of a page leaves it a page.
Marking(doc, c) ==
    [i \in DOMAIN doc |->
        IF i \in Targets(doc, c.config.selector)
        THEN [doc[i] EXCEPT !.marks = @ \union {TruncatedMark}
                  \union IF c.config.fade THEN {<<"class", "fade">>} ELSE {}]
        ELSE doc[i]]

LEMMA MarkedPage ==
    ASSUME NEW doc, IsPage(doc), NEW c
    PROVE  /\ IsPage(Marking(doc, c))
           /\ Targets(doc, c.config.selector) = {} => Marking(doc, c) = doc
           /\ Targets(doc, c.config.selector) # {} => HasMark(Marking(doc, c), TruncatedMark)
<1> DEFINE n == Len(doc)
           marked == Marking(doc, c)
           targets == Targets(doc, c.config.selector)
           more == {TruncatedMark} \union IF c.config.fade THEN {<<"class", "fade">>} ELSE {}
<1>1. n \in Nat /\ DOMAIN doc = 1..n /\ doc = [i \in 1..n |-> doc[i]] /\ \A i \in 1..n : IsToken(doc[i])
  <2>1. doc \in Seq(Range(doc)) /\ n \in Nat /\ DOMAIN doc = 1..n /\ \A i \in 1..n : IsToken(doc[i])
    BY PagePlaces
  <2>2. doc \in [1..n -> Range(doc)]
    BY <2>1, LenProperties
  <2>3. QED
    BY <2>1, <2>2
<1>2. ASSUME NEW i \in targets
      PROVE  /\ i \in 1..n /\ marked[i] = Token("open", doc[i].name, doc[i].marks \union more)
             /\ IsToken(marked[i]) /\ TruncatedMark \in marked[i].marks
  <2>1. i \in 1..n /\ doc[i].is = "open" /\ IsToken(doc[i])
    BY <1>1 DEF Targets
  <2>2. marked[i] = [doc[i] EXCEPT !.marks = @ \union {TruncatedMark}
                        \union IF c.config.fade THEN {<<"class", "fade">>} ELSE {}]
    BY <1>1, <2>1 DEF Marking
  <2> DEFINE t == doc[i]
  <2>3. t = [is |-> t.is, name |-> t.name, marks |-> t.marks] /\ t.is = "open"
    BY <2>1 DEF IsToken, Token
  <2>4. marked[i] = [t EXCEPT !.marks = t.marks \union {TruncatedMark}
                        \union IF c.config.fade THEN {<<"class", "fade">>} ELSE {}]
    BY <2>2
  <2>5. t.marks \union {TruncatedMark} \union (IF c.config.fade THEN {<<"class", "fade">>} ELSE {})
           = t.marks \union more
    OBVIOUS
  <2>6. marked[i] = [t EXCEPT !.marks = t.marks \union more]
    BY <2>4, <2>5
  <2> HIDE DEF t, more, marked, targets, n
  <2>7. marked[i] = Token("open", t.name, t.marks \union more)
    BY <2>3, <2>6 DEF Token
  <2>8. IsToken(marked[i]) /\ marked[i].marks = t.marks \union more
    BY <2>7 DEF IsToken, Token
  <2>9. TruncatedMark \in more
    BY DEF more
  <2>10. QED
    BY <2>1, <2>7, <2>8, <2>9 DEF t
<1>3. ASSUME NEW i \in 1..n, i \notin targets PROVE marked[i] = doc[i]
  BY <1>1, <1>3 DEF Marking
<1>4. marked = [i \in 1..n |-> marked[i]]
  BY <1>1 DEF Marking
<1> HIDE DEF n, marked, targets, more
<1>5. \A i \in 1..n : IsToken(marked[i])
  BY <1>1, <1>2, <1>3
<1>6. IsPage(marked)
  <2> DEFINE S == {marked[i] : i \in 1..n}
  <2>1. marked \in Seq(S)
    BY <1>1, <1>4
  <2>2. Range(marked) \subseteq S
    BY <1>4 DEF Range
  <2>3. \A t \in Range(marked) : IsToken(t)
    BY <1>5, <2>2
  <2>4. QED
    BY <2>1, <2>3, PageOf
<1>7. targets = {} => marked = doc
  BY <1>1, <1>3, <1>4
<1>8. targets # {} => HasMark(marked, TruncatedMark)
  BY <1>2, <1>4 DEF HasMark
<1>9. QED
  BY <1>6, <1>7, <1>8 DEF targets, marked

\* Trimming keeps the mark; without one nothing is trimmed.
LEMMA TrimmedPage ==
    ASSUME NEW doc, IsPage(doc), NEW count
    PROVE  /\ IsPage(TrimMarked(doc, count))
           /\ ~HasMark(doc, TruncatedMark) => TrimMarked(doc, count) = doc
           /\ HasMark(doc, TruncatedMark) => HasMark(TrimMarked(doc, count), TruncatedMark)
<1> DEFINE n == Len(doc)
           at == {i \in 1..n : TruncatedMark \in doc[i].marks}
           pos == SelectInSeq(doc, LAMBDA t : TruncatedMark \in t.marks)
           first == 1 + pos
           ends == {j \in first..n : doc[j].is = "close"}
           end == CHOOSE j \in ends : \A k \in ends : j <= k
           E == {i \in first..(end - 1) : FirstPiece(doc, first, i) <= count}
           kept == Ascending(E)
           middle == [k \in DOMAIN kept |-> IF LastPiece(doc, first, kept[k]) <= count
                                            THEN doc[kept[k]] ELSE Broken]
           trimmed == TrimMarked(doc, count)
<1>1. n \in Nat /\ DOMAIN doc = 1..n /\ \A i \in 1..n : doc[i] \in Range(doc) /\ IsToken(doc[i])
  BY PagePlaces
<1>2. /\ pos \in 0..n
      /\ pos = 0 <=> at = {}
      /\ pos # 0 => TruncatedMark \in doc[pos].marks
  <2>1. pos = IF at # {} THEN Min(at) ELSE 0
    BY DEF SelectInSeq
  <2>2. at \subseteq 1..n
    OBVIOUS
  <2>3. at # {} => Min(at) \in at
    <3> HIDE DEF at, n
    <3>1. QED
      BY <1>1, <2>2, FirstAndLast
  <2>4. \A i \in at : i \in 1..n /\ i # 0 /\ TruncatedMark \in doc[i].marks
    BY <1>1
  <2> HIDE DEF at, n, pos
  <2>5. at # {} => Min(at) \in 1..n /\ Min(at) # 0 /\ TruncatedMark \in doc[Min(at)].marks
    BY <2>3, <2>4
  <2>6. CASE at = {}
    BY <1>1, <2>1, <2>6
  <2>7. CASE at # {}
    <3>1. pos = Min(at)
      BY <2>1, <2>7
    <3>2. QED
      BY <1>1, <2>5, <2>7, <3>1
  <2>8. QED
    BY <2>6, <2>7
<1>3. HasMark(doc, TruncatedMark) <=> at # {}
  BY <1>1 DEF HasMark
<1>4. trimmed = IF count = 0 \/ first = 1 \/ ends = {} THEN doc
                ELSE SubSeq(doc, 1, first - 1) \o middle \o SubSeq(doc, end, n)
  BY DEF TrimMarked
<1>5. first = 1 <=> pos = 0
  <2> HIDE DEF pos, n
  <2>1. QED
    BY <1>1, <1>2
<1> HIDE DEF at, trimmed
<1>6. CASE count = 0 \/ pos = 0 \/ ends = {}
  <2>1. trimmed = doc
    <3> HIDE DEF first, ends, middle, pos
    <3>1. QED
      BY <1>4, <1>5, <1>6
  <2>2. QED
    BY <2>1 DEF trimmed
<1>7. CASE ~(count = 0 \/ pos = 0 \/ ends = {})
  <2>1. trimmed = SubSeq(doc, 1, first - 1) \o middle \o SubSeq(doc, end, n)
    <3> HIDE DEF first, ends, middle, pos, end, n
    <3>1. QED
      BY <1>4, <1>5, <1>7
  <2>2. first - 1 = pos /\ first \in 1..(n + 1) /\ pos \in 1..n
    <3> HIDE DEF pos, n
    <3>1. QED
      BY <1>1, <1>2, <1>7
  <2>3. end \in first..n
    <3>1. ends \subseteq first..n
      OBVIOUS
    <3>2. ends \subseteq Nat
      <4> HIDE DEF ends, first, n
      <4>1. QED
        BY <1>1, <2>2, <3>1
    <3> HIDE DEF ends, first
    <3>3. \E j \in ends : \A k \in ends : j <= k
      BY <1>7, <3>2, HasSmallest
    <3>4. end \in ends
      BY <3>3
    <3>5. QED
      BY <3>1, <3>4
  <2>4. E \subseteq DOMAIN doc
    <3>1. E \subseteq first..(end - 1)
      OBVIOUS
    <3> HIDE DEF E, end, first, n
    <3>2. QED
      BY <1>1, <2>2, <2>3, <3>1
  <2>5. /\ DOMAIN kept = 1..Cardinality(E) /\ Cardinality(E) \in Nat
        /\ \A k \in DOMAIN kept : kept[k] \in E
    <3> HIDE DEF E
    <3>1. doc \in Seq(Range(doc))
      BY PagePlaces
    <3>2. QED
      BY <2>4, <3>1, PlacesInOrder
  <2> DEFINE m == Cardinality(E)
             S == Range(doc) \union {Broken}
  <2>6. \A k \in 1..m : middle[k] \in S
    <3> HIDE DEF E
    <3>1. ASSUME NEW k \in 1..m PROVE middle[k] \in S
      <4>1. k \in DOMAIN kept /\ doc[kept[k]] \in Range(doc)
        BY <1>1, <2>4, <2>5
      <4>2. middle[k] \in {doc[kept[k]], Broken}
        BY <4>1
      <4>3. QED
        BY <4>1, <4>2
    <3>2. QED
      BY <3>1
  <2>7. middle = [k \in 1..m |-> middle[k]]
    BY <2>5
  <2>8. \A t \in S : IsToken(t)
    <3>1. \A t \in Range(doc) : IsToken(t)
      BY DEF IsPage
    <3>2. QED
      BY <3>1, Tokens
  <2>9. IsPage(middle)
    <3>1. m \in Nat
      BY <2>5
    <3> HIDE DEF middle, S, m
    <3>2. middle \in Seq(S)
      BY <2>6, <2>7, <3>1
    <3>3. Range(middle) \subseteq S
      BY <3>2, ListOfOwn
    <3>4. QED
      BY <2>8, <3>2, <3>3, PageOf
  <2> DEFINE a == SubSeq(doc, 1, first - 1)
             b == SubSeq(doc, end, n)
  <2>10. IsPage(a) /\ doc[pos] \in Range(a)
    <3>1. first - 1 \in Int /\ 1 <= 1 /\ first - 1 <= Len(doc) /\ pos \in 1..(first - 1)
      <4> HIDE DEF first, pos
      <4>1. QED
        BY <1>1, <2>2
    <3> HIDE DEF first, pos
    <3>2. IsPage(a) /\ Range(a) = {doc[i] : i \in 1..(first - 1)}
      BY <3>1, PartOfPage
    <3> HIDE DEF a
    <3>3. QED
      BY <3>1, <3>2
  <2>11. IsPage(b)
    <3>1. end \in Int /\ 1 <= end /\ n \in Int /\ n <= Len(doc)
      <4> HIDE DEF first, end
      <4>1. QED
        BY <1>1, <2>2, <2>3
    <3> HIDE DEF end, n
    <3>2. QED
      BY <3>1, PartOfPage
  <2> HIDE DEF a, b, middle, first, pos
  <2>12. IsPage(a \o middle) /\ Range(a \o middle) = Range(a) \union Range(middle)
    BY <2>9, <2>10, JoinedPages
  <2>13. IsPage(trimmed) /\ Range(trimmed) = Range(a \o middle) \union Range(b)
    <3>1. trimmed = a \o middle \o b
      BY <2>1 DEF a, b
    <3>2. QED
      BY <2>11, <2>12, <3>1, JoinedPages
  <2>14. HasMark(trimmed, TruncatedMark)
    <3>1. doc[pos] \in Range(trimmed) /\ TruncatedMark \in doc[pos].marks
      BY <1>2, <1>7, <2>10, <2>12, <2>13
    <3>2. QED
      BY <2>13, <3>1, MarkOfPage
  <2>15. HasMark(doc, TruncatedMark)
    BY <1>2, <1>3, <1>7
  <2>16. QED
    BY <2>13, <2>14, <2>15 DEF trimmed
<1>8. QED
  BY <1>6, <1>7

\* A page that is not a target is only given the style, once.
LEMMA TruncationPage ==
    ASSUME NEW doc, IsPage(doc), NEW c, c.config.fade \in BOOLEAN,
           ContentTruncation(doc, c).kind = "ok"
    PROVE  /\ IsPage(ContentTruncation(doc, c).doc)
           /\ ContentTruncation(ContentTruncation(doc, c).doc, c) = ContentTruncation(doc, c)
<1> DEFINE selector == c.config.selector
           fade == c.config.fade
           Trimming(d) == TrimMarked(Marking(d, c), c.config.count)
           New(d) == IF fade THEN InjectStyleOnce(Trimming(d), "fade") ELSE Trimming(d)
           r == ContentTruncation(doc, c)
           new == New(doc)
<1>1. \A d : ContentTruncation(d, c) = Verdict(selector, d, TruncatedMark, New(d))
  BY DEF ContentTruncation, Marking, Checked, Verdict
<1> HIDE DEF New
<1>2. /\ selector # "" /\ selector # "*"
      /\ IsMarked(doc, TruncatedMark) => r = Rendered(doc)
      /\ ~IsMarked(doc, TruncatedMark) => r = Rendered(new) /\ selector # "["
  <2>1. r = Verdict(selector, doc, TruncatedMark, new) /\ r.kind = "ok"
    BY <1>1
  <2> HIDE DEF r, new, selector
  <2>2. selector # "" /\ selector # "*" /\ (IsMarked(doc, TruncatedMark) \/ selector # "[")
    BY <2>1 DEF Verdict, Rejected, Panicked
  <2>3. CASE IsMarked(doc, TruncatedMark)
    BY <2>1, <2>2, <2>3, CheckedResult
  <2>4. CASE ~IsMarked(doc, TruncatedMark)
    BY <2>1, <2>2, <2>4 DEF Verdict
  <2>5. QED
    BY <2>2, <2>3, <2>4
<1>3. ASSUME NEW d, IsMarked(d, TruncatedMark) PROVE ContentTruncation(d, c) = Rendered(d)
  <2> DEFINE s == ContentTruncation(d, c)
             made == New(d)
  <2>1. s = Verdict(selector, d, TruncatedMark, made)
    BY <1>1
  <2>2. selector # "" /\ selector # "*"
    BY <1>2
  <2> HIDE DEF selector, s, made
  <2>3. s = Rendered(d)
    BY <1>3, <2>1, <2>2, CheckedResult
  <2>4. QED
    BY <2>3 DEF s
<1>4. \A d : Rendered(d).doc = d
  BY DEF Rendered
<1>5. IsPage(Marking(doc, c)) /\ IsPage(Trimming(doc))
  BY MarkedPage, TrimmedPage
<1>6. IsPage(new)
  BY <1>5, StyleOnce DEF New
<1>7. CASE IsMarked(doc, TruncatedMark)
  BY <1>2, <1>4, <1>7
<1>8. CASE ~IsMarked(doc, TruncatedMark) /\ Targets(doc, selector) # {}
  <2>1. HasMark(Trimming(doc), TruncatedMark)
    BY <1>5, <1>8, MarkedPage, TrimmedPage
  <2>2. HasMark(new, TruncatedMark)
    <3>1. CASE ~fade
      BY <2>1, <3>1 DEF New
    <3>2. CASE fade
      <4> DEFINE d == Trimming(doc)
      <4>1. IsPage(d) /\ HasMark(d, TruncatedMark) /\ new = InjectStyleOnce(d, "fade")
        BY <1>5, <2>1, <3>2 DEF New
      <4> HIDE DEF d, new
      <4>2. IsPage(new) /\ Range(d) \subseteq Range(new)
        BY <4>1, StyleOnce
      <4>3. QED
        BY <4>1, <4>2, MarkOfPage
    <3>3. QED
      BY <3>1, <3>2
  <2> HIDE DEF r, new
  <2>3. r = Rendered(new) /\ ContentTruncation(new, c) = Rendered(new)
    BY <1>2, <1>3, <1>8, <2>2 DEF IsMarked
  <2>4. QED
    BY <1>4, <1>6, <2>3 DEF r
<1>9. CASE ~IsMarked(doc, TruncatedMark) /\ Targets(doc, selector) = {}
  <2>1. ASSUME NEW d, IsPage(d), ~HasMark(d, TruncatedMark), Targets(d, selector) = {}
        PROVE  New(d) = IF fade THEN InjectStyleOnce(d, "fade") ELSE d
    <3>1. Marking(d, c) = d
      BY <2>1, MarkedPage
    <3>2. Trimming(d) = d
      BY <2>1, <3>1, TrimmedPage
    <3>3. QED
      BY <3>2 DEF New
  <2>2. new = IF fade THEN InjectStyleOnce(doc, "fade") ELSE doc
    BY <1>9, <2>1 DEF IsMarked
  <2>3. IsPage(new) /\ Range(new) \subseteq Range(doc) \union {Style("fade")}
    <3>1. /\ IsPage(InjectStyleOnce(doc, "fade"))
          /\ Range(InjectStyleOnce(doc, "fade")) = Range(doc) \union {Style("fade")}
      BY StyleOnce
    <3> HIDE DEF new
    <3>2. QED
      BY <2>2, <3>1
  <2>4. fade => InjectStyleOnce(new, "fade") = new
    <3>1. fade => new = InjectStyleOnce(doc, "fade")
      BY <2>2
    <3> HIDE DEF new
    <3>2. QED
      BY <2>3, <3>1, StyleOnce
  <2>5. ~HasMark(new, TruncatedMark)
    <3>1. ~\E t \in Range(doc) : TruncatedMark \in t.marks
      BY <1>9, MarkOfPage DEF IsMarked
    <3>2. TruncatedMark \notin Style("fade").marks
      BY DEF Style, Token
    <3> HIDE DEF new
    <3>3. QED
      BY <2>3, <3>1, <3>2, MarkOfPage
  <2>6. Targets(new, selector) = {}
    <3>1. ASSUME NEW t \in Range(doc) PROVE ~(t.is = "open" /\ t.name = selector)
      <4>1. PICK i \in DOMAIN doc : t = doc[i]
        BY DEF Range
      <4>2. QED
        BY <1>9, <4>1 DEF Targets
    <3>2. Style("fade").is # "open"
      BY DEF Style, Token
    <3>3. ASSUME NEW i \in DOMAIN new PROVE ~(new[i].is = "open" /\ new[i].name = selector)
      <4> HIDE DEF new, selector
      <4>1. new[i] \in Range(new)
        BY DEF Range
      <4>2. new[i] \in Range(doc) \/ new[i] = Style("fade")
        BY <2>3, <4>1
      <4>3. QED
        BY <3>1, <3>2, <4>2
    <3> HIDE DEF new, selector
    <3>4. QED
      BY <3>3 DEF Targets
  <2>7. New(new) = new
    <3> HIDE DEF new
    <3>1. New(new) = IF fade THEN InjectStyleOnce(new, "fade") ELSE new
      BY <2>1, <2>3, <2>5, <2>6
    <3>2. QED
      BY <2>4, <3>1
  <2> HIDE DEF new, selector
  <2>8. r = Rendered(new)
    BY <1>2, <1>9
  <2>9. ContentTruncation(new, c) = Rendered(new)
    <3> DEFINE s == ContentTruncation(new, c)
    <3>1. s = Verdict(selector, new, TruncatedMark, new)
      BY <1>1, <2>7
    <3> HIDE DEF s
    <3>2. ~IsMarked(new, TruncatedMark) /\ selector # "" /\ selector # "*" /\ selector # "["
      BY <1>2, <1>9, <2>5 DEF IsMarked
    <3>3. s = Rendered(new)
      BY <3>1, <3>2 DEF Verdict
    <3>4. QED
      BY <3>3 DEF s
  <2> HIDE DEF r
  <2>10. QED
    BY <1>4, <2>3, <2>8, <2>9 DEF r
<1>10. QED
  BY <1>7, <1>8, <1>9

LEMMA InjectionPage ==
    ASSUME NEW doc, IsPage(doc), NEW c, IsPage(c.config.html), c.config.mode \in Modes,
           HtmlInjection(doc, c).kind = "ok"
    PROVE  /\ IsPage(HtmlInjection(doc, c).doc)
           /\ HtmlInjection(HtmlInjection(doc, c).doc, c) = HtmlInjection(doc, c)
<1> DEFINE selector == c.config.selector
           mark == <<"injected", c.id>>
           wrapped == Wrapped(mark, c.config.html)
           New(d) == Place(d, selector, c.config.mode, wrapped)
           r == HtmlInjection(doc, c)
           new == New(doc)
<1>1. \A d : HtmlInjection(d, c) = Verdict(selector, d, mark, New(d))
  BY DEF HtmlInjection, Checked, Verdict
<1> HIDE DEF New
<1>2. /\ selector # "" /\ selector # "*"
      /\ IsMarked(doc, mark) => r = Rendered(doc)
      /\ ~IsMarked(doc, mark) => r = Rendered(new) /\ selector # "["
  <2>1. r = Verdict(selector, doc, mark, new) /\ r.kind = "ok"
    BY <1>1
  <2> HIDE DEF r, new, selector, mark
  <2>2. selector # "" /\ selector # "*" /\ (IsMarked(doc, mark) \/ selector # "[")
    BY <2>1 DEF Verdict, Rejected, Panicked
  <2>3. CASE IsMarked(doc, mark)
    BY <2>1, <2>2, <2>3, CheckedResult
  <2>4. CASE ~IsMarked(doc, mark)
    BY <2>1, <2>2, <2>4 DEF Verdict
  <2>5. QED
    BY <2>2, <2>3, <2>4
<1>3. ASSUME NEW d, IsMarked(d, mark) PROVE HtmlInjection(d, c) = Rendered(d)
  <2> DEFINE s == HtmlInjection(d, c)
             made == New(d)
  <2>1. s = Verdict(selector, d, mark, made)
    BY <1>1
  <2>2. selector # "" /\ selector # "*"
    BY <1>2
  <2> HIDE DEF selector, mark, s, made
  <2>3. s = Rendered(d)
    BY <1>3, <2>1, <2>2, CheckedResult
  <2>4. QED
    BY <2>3 DEF s
<1>4. \A d : Rendered(d).doc = d
  BY DEF Rendered
<1>5. IsPage(wrapped) /\ Token("open", "div", {mark}) \in Range(wrapped)
  <2> HIDE DEF mark
  <2>1. QED
    BY WrappedPage
<1>6. IsPage(new) /\ (new = doc \/ Range(wrapped) \subseteq Range(new))
  <2> HIDE DEF wrapped, selector
  <2>1. QED
    BY <1>5, PlacedPage DEF New
<1> HIDE DEF r, new, selector, mark, wrapped
<1>7. CASE r = Rendered(doc)
  BY <1>4, <1>7 DEF r
<1>8. CASE r # Rendered(doc)
  <2>1. ~IsMarked(doc, mark) /\ r = Rendered(new) /\ new # doc
    BY <1>2, <1>8
  <2>2. IsMarked(new, mark)
    <3>1. mark \in Token("open", "div", {mark}).marks
      BY Tokens
    <3>2. QED
      BY <1>5, <1>6, <2>1, <3>1, MarkOfPage DEF IsMarked
  <2>3. HtmlInjection(new, c) = Rendered(new)
    BY <1>3, <2>2
  <2>4. QED
    BY <1>4, <1>6, <2>1, <2>3 DEF r
<1>9. QED
  BY <1>7, <1>8

LEMMA WrapperPage ==
    ASSUME NEW doc, IsPage(doc), NEW c, IsPage(c.config.html)
    PROVE  /\ IsPage(PlacementWrapper(doc, c).doc)
           /\ PlacementWrapper(PlacementWrapper(doc, c).doc, c) = PlacementWrapper(doc, c)
<1> DEFINE mark == <<c.placement, c.id>>
           wrapped == Wrapped(mark, c.config.html)
           styled == InjectStyleOnce(doc, c.placement)
           new == AppendToBody(styled, wrapped)
           r == PlacementWrapper(doc, c)
<1>1. r = Rendered(IF IsMarked(doc, mark) THEN doc ELSE new)
  BY DEF PlacementWrapper
<1>2. \A d : IsMarked(d, mark) => PlacementWrapper(d, c) = Rendered(d)
  BY DEF PlacementWrapper
<1>3. \A d : Rendered(d).doc = d
  BY DEF Rendered
<1>4. IsPage(wrapped) /\ Token("open", "div", {mark}) \in Range(wrapped)
  <2> HIDE DEF mark
  <2>1. QED
    BY WrappedPage
<1>5. IsPage(styled)
  BY StyleOnce
<1>6. IsPage(new) /\ Range(wrapped) \subseteq Range(new)
  <2> HIDE DEF wrapped, styled
  <2>1. QED
    BY <1>4, <1>5, AppendedPage
<1> HIDE DEF r, new, mark, wrapped
<1>7. CASE IsMarked(doc, mark)
  BY <1>1, <1>2, <1>3, <1>7 DEF r
<1>8. CASE ~IsMarked(doc, mark)
  <2>1. r = Rendered(new)
    BY <1>1, <1>8
  <2>2. IsMarked(new, mark)
    <3>1. mark \in Token("open", "div", {mark}).marks
      BY Tokens
    <3>2. QED
      BY <1>4, <1>6, <3>1, MarkOfPage DEF IsMarked
  <2>3. QED
    BY <1>2, <1>3, <1>6, <2>1, <2>2 DEF r
<1>9. QED
  BY <1>7, <1>8

\* A component makes a page of a page, and nothing more of what it made.
LEMMA RenderedPage ==
    ASSUME NEW doc, IsPage(doc), NEW c, IsHtmlComponent(c), RenderComponent(doc, c).kind = "ok"
    PROVE  /\ IsPage(RenderComponent(doc, c).doc)
           /\ RenderComponent(RenderComponent(doc, c).doc, c) = RenderComponent(doc, c)
<1>1. CASE c.placement # "inline"
  <2>1. \A d : RenderComponent(d, c) = PlacementWrapper(d, c)
    BY <1>1 DEF RenderComponent
  <2>2. IsPage(c.config.html)
    BY <1>1 DEF IsHtmlComponent
  <2>3. QED
    BY <2>1, <2>2, WrapperPage
<1>2. CASE c.placement = "inline" /\ c.type = "html_injection"
  <2>1. \A d : RenderComponent(d, c) = HtmlInjection(d, c)
    BY <1>2 DEF RenderComponent
  <2>2. IsPage(c.config.html) /\ c.config.mode \in Modes
    BY <1>2 DEF IsHtmlComponent, Modes
  <2>3. QED
    BY <2>1, <2>2, InjectionPage
<1>3. CASE c.placement = "inline" /\ c.type = "content_truncation"
  <2>1. \A d : RenderComponent(d, c) = ContentTruncation(d, c)
    BY <1>3 DEF RenderComponent
  <2>2. c.config.fade \in BOOLEAN
    BY <1>3 DEF IsHtmlComponent
  <2>3. QED
    BY <2>1, <2>2, TruncationPage
<1>4. CASE c.placement = "inline" /\ c.type \notin {"html_injection", "content_truncation"}
  <2>1. \A d : RenderComponent(d, c) = Rendered(d)
    BY <1>4 DEF RenderComponent
  <2>2. QED
    BY <2>1 DEF Rendered
<1>5. QED
  BY <1>1, <1>2, <1>3, <1>4

-----------------------------------------------------------------------------
(* Pages through the pipeline *)

\* The order components are applied in leaves none out for another.
LEMMA OrderedKeeps ==
    ASSUME NEW components, components \in Seq(Range(components)),
           \A c \in Range(components) :
              c.placement \in {"inline", "sticky_footer", "popup"} /\ c.order \in Int
    PROVE  \A k \in 1..Len(components) : Ordered(components)[k] \in Range(components)
<1> DEFINE n == Len(components)
           D == DOMAIN components
           rank(i) == Rank(components[i].placement)
           order(i) == components[i].order
           before(i, j) == \/ rank(i) < rank(j)
                           \/ /\ rank(i) = rank(j)
                              /\ order(i) < order(j) \/ (order(i) = order(j) /\ i < j)
           R == {p \in D \X D : before(p[1], p[2])}
           Place1(k) == CHOOSE i \in D : Cardinality({j \in D : before(j, i)}) = k - 1
<1>1. n \in Nat /\ D = 1..n /\ IsFiniteSet(D) /\ Cardinality(D) = n
  <2>1. n \in Nat /\ D = 1..n
    BY LenProperties
  <2> HIDE DEF n, D
  <2>2. QED
    BY <2>1, FS_Interval
<1>2. ASSUME NEW k \in 1..n PROVE Ordered(components)[k] = components[Place1(k)]
  BY <1>1 DEF Ordered
<1>3. ASSUME NEW i \in D PROVE rank(i) \in Int /\ order(i) \in Int /\ i \in Int
  <2>1. components[i] \in Range(components)
    BY DEF Range
  <2>2. components[i].placement \in {"inline", "sticky_footer", "popup"}
    BY <2>1
  <2>3. \A placement \in {"inline", "sticky_footer", "popup"} : Rank(placement) \in Int
    BY DEF Rank
  <2>4. i \in Int
    BY <1>1
  <2>5. QED
    BY <2>1, <2>2, <2>3, <2>4
<1> HIDE DEF D, rank, order, n
<1>4. ASSUME NEW i \in D, NEW j \in D
      PROVE  /\ before(i, j) => ~before(j, i)
             /\ i = j \/ before(i, j) \/ before(j, i)
  BY <1>3
<1>5. ASSUME NEW i \in D, NEW j \in D, NEW k \in D, before(i, j), before(j, k)
      PROVE  before(i, k)
  BY <1>3, <1>5
<1> HIDE DEF before
<1>6. \A i, j \in D : <<i, j>> \in R <=> before(i, j)
  OBVIOUS
<1>7. ASSUME NEW k \in 1..n PROVE Place1(k) \in D
  <2>1. IsRow(R, D)
    <3> HIDE DEF R
    <3>1. QED
      BY <1>4, <1>5, <1>6 DEF IsRow
  <2>2. PICK i \in D : Cardinality(AheadIn(R, D, i)) = k - 1
    <3> HIDE DEF R
    <3>1. \A l \in 1..Cardinality(D) : \E i \in D : Cardinality(AheadIn(R, D, i)) = l - 1
      BY <1>1, <2>1, RanksAll
    <3>2. k \in 1..Cardinality(D)
      BY <1>1
    <3>3. QED
      BY <3>1, <3>2
  <2>3. AheadIn(R, D, i) = {j \in D : before(j, i)}
    BY <1>6 DEF AheadIn
  <2> HIDE DEF R
  <2>4. \E l \in D : Cardinality({j \in D : before(j, l)}) = k - 1
    BY <2>2, <2>3
  <2>5. QED
    BY <2>4
<1>8. QED
  <2>1. ASSUME NEW k \in 1..n PROVE Ordered(components)[k] \in Range(components)
    <3> DEFINE p == Place1(k)
    <3>1. p \in D /\ Ordered(components)[k] = components[p]
      BY <1>2, <1>7, <2>1
    <3> HIDE DEF p
    <3>2. QED
      BY <3>1 DEF D, Range
  <2>2. QED
    BY <2>1 DEF n

LEMMA RenderedKind ==
    ASSUME NEW doc, NEW c
    PROVE  RenderComponent(doc, c).kind \in {"ok", "error", "panic"}
<1>1. \A d : Rendered(d).kind = "ok"
  BY DEF Rendered
<1>2. Rejected.kind = "error" /\ Panicked.kind = "panic"
  BY DEF Rejected, Panicked
<1>3. \A selector, result : Checked(selector, doc, result).kind \in {"ok", "error", "panic"}
  BY <1>1, <1>2 DEF Checked
<1>4. CASE c.placement # "inline"
  BY <1>1, <1>4 DEF RenderComponent, PlacementWrapper
<1>5. CASE c.placement = "inline" /\ c.type = "html_injection"
  <2>1. RenderComponent(doc, c) = HtmlInjection(doc, c)
    BY <1>5 DEF RenderComponent
  <2>2. QED
    BY <1>3, <2>1 DEF HtmlInjection
<1>6. CASE c.placement = "inline" /\ c.type = "content_truncation"
  <2>1. RenderComponent(doc, c) = ContentTruncation(doc, c)
    BY <1>6 DEF RenderComponent
  <2>2. QED
    BY <1>3, <2>1 DEF ContentTruncation
<1>7. CASE c.placement = "inline" /\ c.type \notin {"html_injection", "content_truncation"}
  BY <1>1, <1>7 DEF RenderComponent
<1>8. QED
  BY <1>4, <1>5, <1>6, <1>7

\* An outcome makes a page of a page, also where it ends in a panic.
LEMMA OutcomePage ==
    ASSUME NEW b, IsBody(b, "html"), IsPage(b.value),
           NEW components, components \in Seq(Range(components)),
           \A c \in Range(components) : IsHtmlComponent(c)
    PROVE  IsPage(ApplyOutcomeHtml(b, components).tree.value)
<1> DEFINE job == OutcomeJob("html", components)
           n == Len(components)
<1>1. PICK g : Steps(job, Result(b, FALSE), n, g) /\ ApplyOutcomeHtml(b, components) = g[n]
  BY OutcomeHtmlSteps
<1>2. n \in Nat
  BY OrderedLen
<1>3. \A k \in 1..n : IsHtmlComponent(job.list[k])
  <2>1. \A k \in 1..n : Ordered(components)[k] \in Range(components)
    BY OrderedKeeps DEF IsHtmlComponent
  <2>2. QED
    BY <2>1 DEF OutcomeJob
<1> DEFINE T == {k \in 0..n : IsBody(g[k].tree, "html") /\ IsPage(g[k].tree.value)}
<1>4. 0 \in T
  <2>1. g[0] = Result(b, FALSE)
    BY <1>1 DEF Steps
  <2>2. g[0].tree = b
    BY <2>1 DEF Result
  <2>3. QED
    BY <1>2, <2>2
<1>5. ASSUME NEW k \in 1..n, k - 1 \in T PROVE k \in T
  <2> DEFINE x == g[k - 1]
             r == RenderComponent(x.tree.value, job.list[k])
             next == IF x.tree.panicked \/ r.kind = "error" THEN Result(x.tree, FALSE)
                     ELSE IF r.kind = "panic" THEN Result([x.tree EXCEPT !.panicked = TRUE], FALSE)
                     ELSE Result([x.tree EXCEPT !.value = r.doc], r.doc # x.tree.value)
  <2>1. g[k] = Do(job, x, k)
    BY <1>1 DEF Steps
  <2>2. Do(job, x, k) = Result(next.tree, x.changed \/ next.changed)
    BY DEF Do, OutcomeJob
  <2>3. IsBody(x.tree, "html") /\ IsPage(x.tree.value)
    BY <1>5
  <2>4. r.kind \in {"ok", "error", "panic"}
    BY RenderedKind
  <2>5. r.kind = "ok" => IsPage(r.doc)
    BY <1>3, <2>3, RenderedPage
  <2> HIDE DEF x, r
  <2>6. IsBody(next.tree, "html") /\ IsPage(next.tree.value)
    <3>1. CASE x.tree.panicked \/ r.kind = "error"
      BY <2>3, <3>1 DEF Result
    <3>2. CASE ~x.tree.panicked /\ r.kind = "panic"
      <4>1. next.tree = [x.tree EXCEPT !.panicked = TRUE]
        BY <3>2 DEF Result
      <4> DEFINE t == x.tree
      <4>2. IsBody(t, "html") /\ IsPage(t.value) /\ next.tree = [t EXCEPT !.panicked = TRUE]
        BY <2>3, <4>1
      <4> HIDE DEF next, t
      <4>3. IsBody([t EXCEPT !.panicked = TRUE], "html") /\ [t EXCEPT !.panicked = TRUE].value = t.value
        BY <4>2, BodyWith, Zenon
      <4>4. QED
        BY <4>2, <4>3, Zenon
    <3>3. CASE ~x.tree.panicked /\ r.kind = "ok"
      <4>1. next.tree = [x.tree EXCEPT !.value = r.doc]
        BY <3>3 DEF Result
      <4> DEFINE t == x.tree
                 d == r.doc
      <4>2. IsBody(t, "html") /\ IsPage(d) /\ next.tree = [t EXCEPT !.value = d]
        BY <2>3, <2>5, <3>3, <4>1
      <4> HIDE DEF next, t, d
      <4>3. IsBody([t EXCEPT !.value = d], "html") /\ [t EXCEPT !.value = d].value = d
        BY <4>2 DEF IsBody
      <4>4. QED
        BY <4>2, <4>3, Zenon
    <3>4. QED
      BY <2>4, <3>1, <3>2, <3>3
  <2> HIDE DEF next
  <2>7. g[k].tree = next.tree
    BY <2>1, <2>2 DEF Result
  <2>8. QED
    BY <1>2, <2>6, <2>7
<1>6. n \in T
  <2> HIDE DEF T, n
  <2>1. 0..n \subseteq T
    BY <1>2, <1>4, <1>5, SetInduction
  <2>2. QED
    BY <1>2, <2>1
<1>7. QED
  BY <1>1, <1>6

\* The outcomes of a feature are those of a version that is served.
ServedIn(w, outcomes) == \E versions \in Range(w.served) : \E v \in versions : outcomes = v.outcomes

LEMMA ServedOutcomes ==
    ASSUME NEW w, IsWorld(w), NEW outcomes, ServedIn(w, outcomes)
    PROVE  /\ IsOutcomes(outcomes)
           /\ \A components \in Range(outcomes) : Range(components) \subseteq ComponentsIn(w)
<1>1. PICK id \in DOMAIN w.served : \E v \in w.served[id] : outcomes = v.outcomes
  BY DEF ServedIn, Range
<1>2. PICK v \in w.served[id] : outcomes = v.outcomes
  BY <1>1
<1>3. IsVersion(v)
  BY DEF IsWorld
<1>4. IsOutcomes(outcomes)
  BY <1>2, <1>3, CanvasIsOne
<1>5. v \in UNION Range(w.served)
  BY <1>1 DEF Range
<1>6. ASSUME NEW components \in Range(outcomes) PROVE Range(components) \subseteq ComponentsIn(w)
  <2> DEFINE V == UNION Range(w.served)
             C == UNION {Range(u.outcomes) : u \in V}
  <2>1. components \in C
    BY <1>2, <1>5
  <2>2. ComponentsIn(w) = UNION {Range(cs) : cs \in C}
    BY DEF ComponentsIn
  <2> HIDE DEF C
  <2>3. QED
    BY <2>1, <2>2
<1>7. QED
  BY <1>4, <1>6

\* The running body is of the upstream's kind, and a page if that is HTML.
IsRunning(w, b) ==
    /\ IsBody(b, ContentKind(w.upstream))
    /\ ContentKind(w.upstream) = "html" => IsPage(b.value)

LEMMA ApplyPage ==
    ASSUME NEW w, IsWorld(w), IsMet(w), w.upstream.error = "none", NEW b, IsRunning(w, b),
           NEW action, NEW outcomes, ServedIn(w, outcomes)
    PROVE  IsRunning(w, Apply(b, action, outcomes).tree)
<1> DEFINE kind == ContentKind(w.upstream)
           c == Apply(b, action, outcomes).tree
<1>1. IsOutcomes(outcomes) /\ IsBody(b, kind)
  BY ServedOutcomes DEF IsRunning
<1>2. IsBody(c, kind)
  <2> HIDE DEF kind
  <2>1. QED
    BY <1>1, ApplyBody
<1>3. ASSUME kind = "html" PROVE IsPage(c.value)
  <2>1. b.kind = "html" /\ IsPage(b.value) /\ IsBody(b, "html")
    BY <1>3 DEF IsRunning, IsBody
  <2>2. CASE action.type = "apply_outcome" /\ action.outcome \in DOMAIN outcomes
    <3> DEFINE components == outcomes[action.outcome]
    <3>1. components \in Range(outcomes)
      BY <2>2 DEF Range
    <3>2. components \in Seq(Range(components)) /\ \A d \in Range(components) : IsHtmlComponent(d)
      <4>1. components \in Seq(Range(components))
        BY <1>1, <3>1 DEF IsOutcomes
      <4>2. Range(components) \subseteq ComponentsIn(w)
        BY <3>1, ServedOutcomes
      <4>3. \A d \in ComponentsIn(w) : IsHtmlComponent(d)
        BY <1>3 DEF IsMet
      <4>4. QED
        BY <4>1, <4>2, <4>3
    <3>3. c = ApplyOutcomeHtml(b, components).tree
      BY <2>1, <2>2 DEF Apply
    <3> HIDE DEF components, c
    <3>4. QED
      BY <2>1, <3>2, <3>3, OutcomePage
  <2>3. CASE ~(action.type = "apply_outcome" /\ action.outcome \in DOMAIN outcomes)
    BY <2>1, <2>3 DEF Apply, Result
  <2>4. QED
    BY <2>2, <2>3
<1>4. QED
  BY <1>2, <1>3 DEF IsRunning

PagesInv ==
    /\ IsWorld(world) /\ IsMet(world)
    /\ phase \in {"copy", "send", "decode"} => body = {} /\ serving = {} /\ queue = <<>>
    /\ phase \notin {"copy", "send", "sent"} => Up.error = "none"
    /\ phase = "fold" => body # {}
    /\ queue \in Seq(Range(world.listed))
    /\ \A b \in body : Up.error = "none" /\ IsRunning(world, b)
    /\ \A f \in serving : "outcomes" \in DOMAIN f /\ ServedIn(world, f.outcomes)

LEMMA FirstPages == Init => PagesInv
<1> SUFFICES ASSUME Init PROVE PagesInv
  OBVIOUS
<1>1. IsWorld(world) /\ IsMet(world)
  BY WorldAssumption DEF Init, WorldAssumption
<1>2. phase = "copy" /\ body = {} /\ serving = {} /\ queue = <<>>
  BY DEF Init
<1>3. QED
  BY <1>1, <1>2 DEF PagesInv

LEMMA NextPages == PagesInv /\ [Next]_vars => PagesInv'
<1> SUFFICES ASSUME PagesInv, [Next]_vars PROVE PagesInv'
  OBVIOUS
<1>1. world' = world
  BY DEF Next, vars, pipeline, request, CopyHeaders, SetSiteHeader, SendUpstream, Decode, StartFeature,
     ApplyAction, EndFeature, Reply, RunJourney, Finished
<1>2. IsWorld(world) /\ IsMet(world) /\ queue \in Seq(Range(world.listed))
  BY DEF PagesInv
<1>3. CASE CopyHeaders \/ SetSiteHeader
  <2>1. phase \in {"copy", "send"} /\ phase' \in {"copy", "send"}
        /\ UNCHANGED <<body, serving, queue>>
    BY <1>3 DEF CopyHeaders, SetSiteHeader
  <2>2. QED
    BY <1>1, <2>1 DEF PagesInv, Up
<1>4. CASE SendUpstream
  <2>1. phase = "send" /\ UNCHANGED <<body, serving, queue>>
        /\ (phase' = "sent" \/ (phase' = "decode" /\ Up.error = "none"))
    <3>1. CASE Up.error # "none"
      BY <1>4, <3>1, ZenonT(30) DEF SendUpstream
    <3>2. CASE Up.error = "none"
      BY <1>4, <3>2 DEF SendUpstream
    <3>3. QED
      BY <3>1, <3>2
  <2>2. QED
    BY <1>1, <2>1 DEF PagesInv, Up
<1>5. CASE Decode
  <2>1. phase = "decode" /\ serving' = serving /\ Up.error = "none" /\ body = {} /\ serving = {}
    BY <1>5 DEF Decode, PagesInv
  <2> DEFINE start == Fetched(world)
  <2>2. \/ phase' = "sent" /\ UNCHANGED <<queue, body>>
        \/ Decodes(Up) /\ phase' = "fold" /\ queue' = Features(world) /\ body' = {start}
    BY <1>5 DEF Decode, Features, OfKind, Fetched, Up
  <2>3. CASE phase' = "sent" /\ UNCHANGED <<queue, body>>
    BY <1>1, <1>2, <2>1, <2>3 DEF PagesInv, Up
  <2>4. CASE Decodes(Up) /\ phase' = "fold" /\ queue' = Features(world) /\ body' = {start}
    <3>1. Features(world) \in Seq(Range(world.listed))
      BY <1>2, FeaturesListed
    <3>2. IsRunning(world, start)
      <4>1. IsBody(start, ContentKind(world.upstream)) /\ start.value = world.upstream.wire.text.value
        BY DEF Fetched, IsBody
      <4>2. ContentKind(world.upstream) = "html" => IsPage(world.upstream.wire.text.value)
        BY <1>2, <2>1, <2>4 DEF IsMet, IsText, Decodes, Up
      <4> HIDE DEF start
      <4>3. QED
        BY <4>1, <4>2 DEF IsRunning
    <3> HIDE DEF start
    <3>3. QED
      BY <1>1, <1>2, <2>1, <2>4, <3>1, <3>2 DEF PagesInv, Up
  <2>5. QED
    BY <2>2, <2>3, <2>4
<1>6. CASE StartFeature
  <2>1. phase = "fold" /\ phase' = phase /\ body' = body /\ queue # <<>> /\ queue' = Tail(queue)
    BY <1>6 DEF StartFeature
  <2>2. queue[1] \in Range(world.listed) /\ queue' \in Seq(Range(world.listed))
    <3> DEFINE L == Range(world.listed)
    <3>1. queue \in Seq(L) /\ queue # <<>>
      BY <1>2, <2>1
    <3> HIDE DEF L
    <3>2. queue[1] \in L /\ Tail(queue) \in Seq(L)
      BY <3>1
    <3>3. QED
      BY <2>1, <3>2 DEF L
  <2>3. ASSUME NEW f \in serving' PROVE "outcomes" \in DOMAIN f /\ ServedIn(world, f.outcomes)
    <3> DEFINE versions == world.served[queue[1].id]
    <3>1. PICK v \in versions : "outcomes" \in DOMAIN f /\ f.outcomes = v.outcomes
      BY <1>6, <2>3 DEF StartFeature
    <3>2. versions \in Range(world.served)
      BY <1>2, <2>2 DEF IsWorld, Range
    <3> HIDE DEF versions
    <3>3. QED
      BY <3>1, <3>2 DEF ServedIn
  <2>4. QED
    BY <1>1, <1>2, <2>1, <2>2, <2>3 DEF PagesInv, Up
<1>7. CASE ApplyAction
  <2>1. phase = "fold" /\ phase' \in {"fold", "panicked"} /\ queue' = queue
    BY <1>7 DEF ApplyAction
  <2>2. PICK f \in serving :
           /\ body' = {Apply(Running, f.left[1], f.outcomes).tree}
           /\ \A e \in serving' : "outcomes" \in DOMAIN e /\ e.outcomes = f.outcomes
    <3>1. PICK f \in serving :
             \E r \in {Apply(Running, f.left[1], f.outcomes)} :
                /\ body' = {r.tree}
                /\ serving' = {[f EXCEPT !.left = Tail(@), !.applied = @ \/ r.changed,
                                         !.run = Append(@, f.left[1].node)]}
      BY <1>7 DEF ApplyAction
    <3>2. PICK e : serving' = {[f EXCEPT !.left = e.left, !.applied = e.applied, !.run = e.run]}
      <4>1. PICK r \in {Apply(Running, f.left[1], f.outcomes)} :
               serving' = {[f EXCEPT !.left = Tail(@), !.applied = @ \/ r.changed,
                                     !.run = Append(@, f.left[1].node)]}
        BY <3>1
      <4> DEFINE e == [left |-> Tail(f.left), applied |-> f.applied \/ r.changed,
                       run |-> Append(f.run, f.left[1].node)]
      <4>2. serving' = {[f EXCEPT !.left = e.left, !.applied = e.applied, !.run = e.run]}
        BY <4>1
      <4>3. QED
        BY <4>2
    <3>3. \A x \in serving' : "outcomes" \in DOMAIN x /\ x.outcomes = f.outcomes
      <4>1. "outcomes" \in DOMAIN f
        BY DEF PagesInv
      <4>2. QED
        BY <3>2, <4>1
    <3>4. QED
      BY <3>1, <3>3
  <2>3. body # {} /\ Up.error = "none" /\ Running \in body /\ IsRunning(world, Running)
    BY <2>1 DEF PagesInv, Running
  <2>4. ServedIn(world, f.outcomes)
    BY <2>2 DEF PagesInv
  <2> DEFINE c == Apply(Running, f.left[1], f.outcomes).tree
             b == Running
             action == f.left[1]
             outcomes == f.outcomes
  <2>5. IsRunning(world, c)
    <3>1. IsRunning(world, b) /\ ServedIn(world, outcomes) /\ world.upstream.error = "none"
          /\ c = Apply(b, action, outcomes).tree
      BY <2>3, <2>4 DEF Up
    <3> HIDE DEF b, action, outcomes, c
    <3>2. QED
      BY <1>2, <3>1, ApplyPage
  <2>6. \A e \in serving' : "outcomes" \in DOMAIN e /\ ServedIn(world, e.outcomes)
    BY <2>2, <2>4
  <2>7. body' = {c}
    BY <2>2
  <2> HIDE DEF c
  <2>8. QED
    BY <1>1, <1>2, <2>1, <2>3, <2>5, <2>6, <2>7 DEF PagesInv, Up
<1>8. CASE EndFeature
  <2>1. phase = "fold" /\ UNCHANGED <<phase, body, queue>> /\ serving' = {}
    BY <1>8 DEF EndFeature
  <2>2. QED
    BY <1>1, <1>2, <2>1 DEF PagesInv, Up
<1>9. CASE Reply
  <2>1. phase' = "sent" /\ UNCHANGED <<body, queue, serving>>
    BY <1>9 DEF Reply, pipeline
  <2>2. QED
    BY <1>1, <1>2, <2>1 DEF PagesInv, Up
<1>10. CASE RunJourney \/ Finished \/ UNCHANGED vars
  <2>1. UNCHANGED <<world, phase, body, queue, serving>>
    BY <1>10 DEF RunJourney, Finished, vars, pipeline
  <2>2. QED
    BY <2>1 DEF PagesInv, Up
<1>11. QED
  BY <1>3, <1>4, <1>5, <1>6, <1>7, <1>8, <1>9, <1>10 DEF Next

\* html_injection.rs, content_truncation.rs and the placement wrappers:
\* whatever page a request meets, whichever components the features in front
\* changed it with and in whatever order, rendering a component on what it has
\* made changes nothing: its marker survives its own rendering, also where the
\* words behind it are cut, and where there was nothing to mark there still is
\* nothing.
THEOREM RenderersAlwaysIdempotent == Spec => []RenderersIdempotent
<1>1. Init => PagesInv
  BY FirstPages
<1>2. PagesInv => RenderersIdempotent
  <2> SUFFICES ASSUME PagesInv, NEW b \in body, b.kind = "html", NEW c \in HtmlComponents,
                      RenderComponent(b.value, c).kind = "ok"
               PROVE  RenderComponent(RenderComponent(b.value, c).doc, c) = RenderComponent(b.value, c)
    BY DEF RenderersIdempotent
  <2>1. IsRunning(world, b) /\ IsMet(world) /\ Up.error = "none"
    BY DEF PagesInv
  <2>2. IsPage(b.value) /\ ContentKind(world.upstream) = "html"
    BY <2>1 DEF IsRunning, IsBody
  <2>3. IsHtmlComponent(c)
    BY <2>1, <2>2 DEF IsMet, HtmlComponents, Up
  <2>4. QED
    BY <2>2, <2>3, RenderedPage
<1>3. QED
  BY <1>1, <1>2, NextPages, PTL DEF Spec

-----------------------------------------------------------------------------
(* Paths *)

LEMMA PrefixPlaces ==
    ASSUME NEW S, NEW p \in Seq(S), NEW q \in Seq(S)
    PROVE  IsPrefix(p, q) <=> Len(p) <= Len(q) /\ \A i \in 1..Len(p) : p[i] = q[i]
<1> DEFINE m == Len(p)
           a == SubSeq(p, 1, m)
           b == SubSeq(q, 1, m)
<1>1. m \in Nat /\ Len(q) \in Nat /\ a = p
  BY LenProperties, SubSeqFull
<1>2. CASE ~(m <= Len(q))
  BY <1>2 DEF IsPrefix
<1>3. CASE m <= Len(q)
  <2>1. \A i \in 1..m : q[i] \in S
    BY <1>1, <1>3, ElementOfSeq
  <2>2. b \in Seq(S) /\ Len(b) = m /\ \A i \in 1..m : b[i] = q[i]
    <3>1. 1 \in Int /\ m \in Int /\ m - 1 + 1 = m /\ (~(1 <= m) => m = 0)
      BY <1>1
    <3>2. /\ b \in Seq(S) /\ Len(b) = IF 1 <= m THEN m - 1 + 1 ELSE 0
          /\ \A i \in 1..(m - 1 + 1) : b[i] = q[1 + i - 1]
      <4> HIDE DEF m
      <4>1. QED
        BY <2>1, <3>1, SubSeqProperties
    <3> HIDE DEF b, m
    <3>3. \A i \in 1..m : 1 + i - 1 = i
      BY <1>1
    <3>4. QED
      BY <3>1, <3>2, <3>3
  <2> HIDE DEF b
  <2>3. p = b <=> \A i \in 1..m : p[i] = q[i]
    <3>1. ASSUME \A i \in 1..m : p[i] = q[i] PROVE p = b
      BY <2>2, <3>1, SeqEqual
    <3>2. QED
      BY <2>2, <3>1
  <2>4. QED
    BY <1>1, <1>3, <2>3 DEF IsPrefix, b
<1>4. QED
  BY <1>2, <1>3

LEMMA FrontAndLast ==
    ASSUME NEW S, NEW p \in Seq(S), p # <<>>
    PROVE  /\ Len(p) \in Nat \ {0}
           /\ Front(p) \in Seq(S) /\ Len(Front(p)) = Len(p) - 1
           /\ \A i \in 1..(Len(p) - 1) : Front(p)[i] = p[i]
           /\ Last(p) = p[Len(p)] /\ Last(p) \in S
<1> DEFINE n == Len(p)
           f == Front(p)
<1>1. n \in Nat \ {0}
  BY EmptySeq
<1>2. \A i \in 1..n : p[i] \in S
  BY ElementOfSeq
<1>3. f = SubSeq(p, 1, n - 1) /\ Last(p) = p[n]
  BY DEF Front, Last
<1> HIDE DEF n, f
<1>4. 1 \in Int /\ n - 1 \in Int /\ (\A i \in 1..(n - 1) : p[i] \in S) /\ n \in 1..n
  BY <1>1, <1>2
<1>5. /\ f \in Seq(S) /\ Len(f) = IF 1 <= n - 1 THEN n - 1 - 1 + 1 ELSE 0
      /\ \A i \in 1..(n - 1 - 1 + 1) : f[i] = p[1 + i - 1]
  BY <1>3, <1>4, SubSeqProperties
<1>6. Len(f) = n - 1 /\ \A i \in 1..(n - 1) : f[i] = p[i]
  <2>1. n - 1 - 1 + 1 = n - 1 /\ (~(1 <= n - 1) => n - 1 = 0) /\ \A i \in 1..(n - 1) : 1 + i - 1 = i
    BY <1>1
  <2>2. QED
    BY <1>5, <2>1
<1>7. QED
  BY <1>1, <1>2, <1>3, <1>4, <1>5, <1>6 DEF n, f

\* A path is its parent and its last segment.
LEMMA SameFront ==
    ASSUME NEW S, NEW p \in Seq(S), NEW q \in Seq(S), p # <<>>, q # <<>>,
           Front(p) = Front(q), Last(p) = Last(q)
    PROVE  p = q
<1> DEFINE n == Len(p)
<1>1. n \in Nat \ {0} /\ Len(q) = n
  BY FrontAndLast
<1>2. ASSUME NEW i \in 1..n PROVE p[i] = q[i]
  <2>1. CASE i = n
    BY <1>1, <2>1, FrontAndLast
  <2>2. CASE i # n
    <3>1. i \in 1..(n - 1)
      BY <1>1, <2>2
    <3>2. Front(p)[i] = p[i] /\ Front(q)[i] = q[i]
      BY <1>1, <3>1, FrontAndLast
    <3>3. QED
      BY <3>2
  <2>3. QED
    BY <2>1, <2>2
<1>3. QED
  BY <1>1, <1>2, SeqEqual

\* How prefixes and parents go together.
LEMMA PrefixFacts ==
    ASSUME NEW S, NEW s \in Seq(S), NEW q \in Seq(S)
    PROVE  /\ IsPrefix(s, s)
           /\ s # <<>> => ~IsPrefix(s, <<>>) /\ ~IsPrefix(s, Front(s))
           /\ q # <<>> => (IsPrefix(s, q) <=> IsPrefix(s, Front(q)) \/ s = q)
<1>1. Len(s) \in Nat /\ Len(q) \in Nat /\ (s # <<>> => Len(s) # 0) /\ <<>> \in Seq(S) /\ Len(<<>>) = 0
  BY EmptySeq
<1>2. IsPrefix(s, s)
  BY <1>1, PrefixPlaces
<1>3. ASSUME s # <<>> PROVE ~IsPrefix(s, <<>>) /\ ~IsPrefix(s, Front(s))
  <2>1. ~(Len(s) <= 0)
    BY <1>1, <1>3
  <2>2. Front(s) \in Seq(S) /\ Len(Front(s)) = Len(s) - 1
    BY <1>3, FrontAndLast
  <2>3. ~(Len(s) <= Len(s) - 1)
    BY <1>1
  <2>4. QED
    BY <1>1, <2>1, <2>2, <2>3, PrefixPlaces
<1>4. ASSUME q # <<>> PROVE IsPrefix(s, q) <=> IsPrefix(s, Front(q)) \/ s = q
  <2> DEFINE f == Front(q)
             n == Len(q)
             m == Len(s)
  <2>1. f \in Seq(S) /\ n \in Nat \ {0} /\ Len(f) = n - 1 /\ \A i \in 1..(n - 1) : f[i] = q[i]
    BY <1>4, FrontAndLast
  <2> HIDE DEF f
  <2>2. IsPrefix(s, f) <=> m <= n - 1 /\ \A i \in 1..m : s[i] = f[i]
    BY <2>1, PrefixPlaces
  <2>3. IsPrefix(s, q) <=> m <= n /\ \A i \in 1..m : s[i] = q[i]
    BY PrefixPlaces
  <2>4. CASE m <= n - 1
    <3> HIDE DEF m, n
    <3>1. m <= n /\ (\A i \in 1..m : i \in 1..(n - 1)) /\ m # n
      BY <1>1, <2>1, <2>4 DEF m, n
    <3>2. s # q
      BY <3>1 DEF m, n
    <3>3. QED
      BY <2>1, <2>2, <2>3, <2>4, <3>1, <3>2 DEF f
  <2>5. CASE m = n
    <3>1. ~(m <= n - 1) /\ m <= n
      BY <2>1, <2>5
    <3>2. IsPrefix(s, q) <=> s = q
      <4>1. ASSUME \A i \in 1..m : s[i] = q[i] PROVE s = q
        BY <2>5, <4>1, SeqEqual
      <4>2. QED
        BY <2>3, <3>1, <4>1
    <3>3. QED
      BY <2>2, <3>1, <3>2 DEF f
  <2>6. CASE ~(m <= n)
    <3>1. ~(m <= n - 1)
      BY <1>1, <2>1, <2>6
    <3>2. s # q
      BY <1>1, <2>6
    <3>3. QED
      BY <2>2, <2>3, <2>6, <3>1, <3>2 DEF f
  <2>7. m <= n - 1 \/ m = n \/ ~(m <= n)
    BY <1>1
  <2>8. QED
    BY <2>4, <2>5, <2>6, <2>7
<1>5. QED
  BY <1>2, <1>3, <1>4

\* What is behind a prefix.
LEMMA Joining ==
    ASSUME NEW S, NEW s \in Seq(S), NEW r \in Seq(S)
    PROVE  /\ s \o r \in Seq(S) /\ IsPrefix(s, s \o r) /\ Relative(s, s \o r) = r
           /\ r # <<>> => /\ s \o r # <<>> /\ Front(s \o r) = s \o Front(r)
                          /\ Last(s \o r) = Last(r)
           /\ s \o <<>> = s
<1> DEFINE t == s \o r
           m == Len(s)
           n == Len(r)
<1>1. m \in Nat /\ n \in Nat
  BY LenProperties
<1>2. t \in Seq(S) /\ Len(t) = m + n /\ \A i \in 1..(m + n) : t[i] = IF i <= m THEN s[i] ELSE r[i - m]
  BY ConcatProperties
<1>3. s \o <<>> = s
  BY ConcatEmptySeq
<1> HIDE DEF t
<1>4. IsPrefix(s, t)
  <2> HIDE DEF m, n
  <2>1. m <= m + n /\ \A i \in 1..m : i \in 1..(m + n) /\ i <= m
    BY <1>1
  <2>2. \A i \in 1..m : s[i] = t[i]
    BY <1>2, <2>1
  <2>3. m <= Len(t)
    BY <1>2, <2>1
  <2>4. QED
    BY <1>2, <2>2, <2>3, PrefixPlaces DEF m
<1>5. Relative(s, t) = r
  <2> DEFINE a == m + 1
             e == m + n
             x == SubSeq(t, a, e)
  <2>1. Relative(s, t) = x
    BY <1>2 DEF Relative
  <2> HIDE DEF m, n
  <2>2. \A i \in (m + 1)..(m + n) : i \in 1..(m + n)
    BY <1>1
  <2>3. \A i \in (m + 1)..(m + n) : t[i] \in S
    BY <1>2, <2>2, ElementOfSeq
  <2>4. a \in Int /\ e \in Int /\ e - a + 1 = n /\ (~(a <= e) => n = 0) /\ (\A i \in a..e : t[i] \in S)
    BY <1>1, <2>3
  <2>5. \A i \in 1..n : a + i - 1 = m + i /\ m + i \in 1..(m + n) /\ ~(m + i <= m) /\ m + i - m = i
    BY <1>1
  <2> HIDE DEF x, a, e
  <2>6. /\ x \in Seq(S) /\ Len(x) = IF a <= e THEN e - a + 1 ELSE 0
        /\ \A i \in 1..(e - a + 1) : x[i] = t[a + i - 1]
    BY <2>4, SubSeqProperties DEF x
  <2>7. Len(x) = n /\ \A i \in 1..n : x[i] = t[m + i]
    BY <2>4, <2>5, <2>6
  <2>8. ASSUME NEW i \in 1..n PROVE x[i] = r[i]
    <3>1. m + i \in 1..(m + n) /\ ~(m + i <= m) /\ m + i - m = i
      BY <2>5
    <3>2. \A j \in 1..(m + n) : ~(j <= m) => t[j] = r[j - m]
      BY <1>2
    <3>3. t[m + i] = r[m + i - m]
      BY <1>1, <3>1, <3>2
    <3>4. x[i] = t[m + i]
      BY <2>7
    <3>5. QED
      BY <3>1, <3>3, <3>4
  <2>9. x = r
    BY <2>6, <2>7, <2>8, SeqEqual DEF n
  <2>10. QED
    BY <2>1, <2>9
<1>6. ASSUME r # <<>>
      PROVE  t # <<>> /\ Front(t) = s \o Front(r) /\ Last(t) = Last(r)
  <2>1. n # 0 /\ Front(r) \in Seq(S) /\ Len(Front(r)) = n - 1 /\ Last(r) = r[n]
        /\ \A i \in 1..(n - 1) : Front(r)[i] = r[i]
    BY <1>6, FrontAndLast
  <2>2. t # <<>>
    BY <1>1, <1>2, <2>1
  <2>3. Last(t) = t[m + n] /\ Front(t) \in Seq(S) /\ Len(Front(t)) = m + n - 1
        /\ \A i \in 1..(m + n - 1) : Front(t)[i] = t[i]
    <3>1. Last(t) = t[Len(t)] /\ Front(t) \in Seq(S) /\ Len(Front(t)) = Len(t) - 1
          /\ \A i \in 1..(Len(t) - 1) : Front(t)[i] = t[i]
      BY <1>2, <2>2, FrontAndLast
    <3> DEFINE e == m + n
               k == Len(t)
               f == Front(t)
    <3>2. k = e
      BY <1>2
    <3>3. Last(t) = t[k] /\ f \in Seq(S) /\ Len(f) = k - 1 /\ \A i \in 1..(k - 1) : f[i] = t[i]
      BY <3>1
    <3> HIDE DEF k, e, f
    <3>4. Last(t) = t[e] /\ f \in Seq(S) /\ Len(f) = e - 1 /\ \A i \in 1..(e - 1) : f[i] = t[i]
      BY <3>2, <3>3
    <3>5. QED
      BY <3>4 DEF e, f
  <2> DEFINE f == Front(r)
             u == s \o f
             v == Front(t)
  <2>4. u \in Seq(S) /\ Len(u) = m + (n - 1)
        /\ \A i \in 1..(m + (n - 1)) : u[i] = IF i <= m THEN s[i] ELSE f[i - m]
    <3>1. f \in Seq(S) /\ Len(f) = n - 1
      BY <2>1
    <3> HIDE DEF f
    <3>2. /\ u \in Seq(S) /\ Len(u) = Len(s) + Len(f)
          /\ \A i \in 1..(Len(s) + Len(f)) : u[i] = IF i <= Len(s) THEN s[i] ELSE f[i - Len(s)]
      BY <3>1, ConcatProperties
    <3> HIDE DEF u, n
    <3>3. QED
      BY <3>1, <3>2
  <2> HIDE DEF m, n, u, v, f
  <2>5. ASSUME NEW i \in 1..(m + n - 1) PROVE v[i] = u[i]
    <3>1. i \in 1..(m + n) /\ i \in 1..(m + (n - 1)) /\ (~(i <= m) => i - m \in 1..(n - 1))
      BY <1>1, <2>1
    <3>2. v[i] = IF i <= m THEN s[i] ELSE r[i - m]
      BY <1>2, <2>3, <3>1 DEF v
    <3>3. u[i] = IF i <= m THEN s[i] ELSE r[i - m]
      BY <2>1, <2>4, <3>1 DEF f
    <3>4. QED
      BY <3>2, <3>3
  <2>6. v \in Seq(S) /\ Len(v) = Len(u) /\ Len(v) = m + n - 1
    BY <1>1, <2>1, <2>3, <2>4 DEF v
  <2>7. v = u
    BY <2>4, <2>5, <2>6, SeqEqual
  <2>8. m + n \in 1..(m + n) /\ ~(m + n <= m) /\ m + n - m = n
    BY <1>1, <2>1
  <2>9. Last(t) = Last(r)
    <3>1. \A j \in 1..(m + n) : ~(j <= m) => t[j] = r[j - m]
      BY <1>2
    <3>2. t[m + n] = r[m + n - m]
      BY <1>1, <2>8, <3>1
    <3>3. QED
      BY <2>1, <2>3, <2>8, <3>2
  <2>10. QED
    BY <2>2, <2>7, <2>9 DEF u, v, f
<1>7. QED
  BY <1>2, <1>3, <1>4, <1>5, <1>6 DEF t

LEMMA Splitting ==
    ASSUME NEW S, NEW s \in Seq(S), NEW q \in Seq(S), IsPrefix(s, q)
    PROVE  Relative(s, q) \in Seq(S) /\ s \o Relative(s, q) = q
<1> DEFINE m == Len(s)
           n == Len(q)
           x == SubSeq(q, m + 1, n)
<1>1. m \in Nat /\ n \in Nat /\ m <= n /\ \A i \in 1..m : s[i] = q[i]
  BY LenProperties, PrefixPlaces
<1>2. Relative(s, q) = x
  BY DEF Relative
<1>3. \A i \in 1..n : q[i] \in S
  BY ElementOfSeq
<1> HIDE DEF m, n
<1>4. m + 1 \in Int /\ n \in Int /\ (\A i \in (m + 1)..n : q[i] \in S)
      /\ n - (m + 1) + 1 = n - m /\ (~(m + 1 <= n) => n - m = 0)
  BY <1>1, <1>3
<1>5. /\ x \in Seq(S) /\ Len(x) = IF m + 1 <= n THEN n - (m + 1) + 1 ELSE 0
      /\ \A i \in 1..(n - (m + 1) + 1) : x[i] = q[m + 1 + i - 1]
  BY <1>4, SubSeqProperties
<1> HIDE DEF x
<1>6. Len(x) = n - m /\ \A i \in 1..(n - m) : x[i] = q[m + 1 + i - 1]
  BY <1>4, <1>5
<1> DEFINE u == s \o x
<1>7. /\ u \in Seq(S) /\ Len(u) = m + (n - m)
      /\ \A i \in 1..(m + (n - m)) : u[i] = IF i <= m THEN s[i] ELSE x[i - m]
  <2>1. /\ u \in Seq(S) /\ Len(u) = Len(s) + Len(x)
        /\ \A i \in 1..(Len(s) + Len(x)) : u[i] = IF i <= Len(s) THEN s[i] ELSE x[i - Len(s)]
    BY <1>5, ConcatProperties
  <2>2. Len(s) = m /\ Len(x) = n - m
    BY <1>6 DEF m
  <2> HIDE DEF u
  <2>3. QED
    BY <2>1, <2>2
<1> HIDE DEF u
<1>8. m + (n - m) = n
  BY <1>1
<1>9. ASSUME NEW i \in 1..n PROVE u[i] = q[i]
  <2>1. CASE i <= m
    BY <1>1, <1>7, <1>8, <2>1
  <2>2. CASE ~(i <= m)
    <3>1. i - m \in 1..(n - m) /\ m + 1 + (i - m) - 1 = i
      BY <1>1, <2>2
    <3>2. QED
      BY <1>6, <1>7, <1>8, <2>2, <3>1
  <2>3. QED
    BY <2>1, <2>2
<1>10. u = q
  BY <1>7, <1>8, <1>9, SeqEqual DEF n
<1>11. QED
  BY <1>2, <1>5, <1>10 DEF u

-----------------------------------------------------------------------------
(* Trees *)

Row(n) == {Index(i) : i \in 0..(n - 1)}
ChildPaths(t, p) == {q \in DOMAIN t : q # <<>> /\ Front(q) = p}
Slots(t, p) == {Last(q) : q \in ChildPaths(t, p)}
Holder(seg) == IF IsKey(seg) THEN "object" ELSE "array"

\* A tree whose segments are in S.
Tree(S, t) ==
    /\ t = [p \in DOMAIN t |-> t[p]]
    /\ DOMAIN t \subseteq Seq(S)
    /\ <<>> \in DOMAIN t
    /\ \A p \in DOMAIN t : p # <<>> => Front(p) \in DOMAIN t /\ t[Front(p)] = Holder(Last(p))
    /\ \A p \in DOMAIN t : t[p] = "array" => \E n \in Nat : Slots(t, p) = Row(n)

LEMMA WiderLists ==
    ASSUME NEW S, NEW R, S \subseteq R
    PROVE  Seq(S) \subseteq Seq(R)
OBVIOUS

LEMMA WiderTree ==
    ASSUME NEW S, NEW R, S \subseteq R, NEW t, Tree(S, t)
    PROVE  Tree(R, t)
<1>1. Seq(S) \subseteq Seq(R)
  BY WiderLists
<1>2. DOMAIN t \subseteq Seq(R)
  BY <1>1 DEF Tree
<1>3. QED
  BY <1>2 DEF Tree

\* The children of a value are behind its path.
LEMMA ChildrenAre ==
    ASSUME NEW S, NEW t, DOMAIN t \subseteq Seq(S), NEW p \in Seq(S)
    PROVE  Children(t, p) = ChildPaths(t, p)
<1>1. Len(p) \in Nat
  BY LenProperties
<1>2. ASSUME NEW q \in DOMAIN t
      PROVE  IsPrefix(p, q) /\ Len(q) = Len(p) + 1 <=> q # <<>> /\ Front(q) = p
  <2>1. q \in Seq(S)
    OBVIOUS
  <2>2. CASE q = <<>>
    <3>1. Len(q) = 0
      BY <2>2
    <3>2. QED
      BY <1>1, <2>2, <3>1
  <2>3. CASE q # <<>>
    <3> DEFINE f == Front(q)
    <3>1. f \in Seq(S) /\ Len(f) = Len(q) - 1 /\ Len(q) \in Nat
      BY <2>1, <2>3, FrontAndLast
    <3>2. IsPrefix(p, q) <=> IsPrefix(p, f) \/ p = q
      BY <2>1, <2>3, PrefixFacts
    <3>3. IsPrefix(p, p)
      BY PrefixFacts
    <3> HIDE DEF f
    <3>4. ASSUME IsPrefix(p, f), Len(f) = Len(p) PROVE f = p
      <4>1. \A i \in 1..Len(p) : p[i] = f[i]
        BY <3>1, <3>4, PrefixPlaces
      <4>2. QED
        BY <3>1, <3>4, <4>1, SeqEqual
    <3>5. p = q => Len(q) # Len(p) + 1
      BY <1>1
    <3>6. Len(q) = Len(p) + 1 <=> Len(f) = Len(p)
      BY <1>1, <3>1
    <3>7. QED
      BY <2>3, <3>2, <3>3, <3>4, <3>5, <3>6 DEF f
  <2>4. QED
    BY <2>2, <2>3
<1>3. QED
  BY <1>2 DEF Children, Below, ChildPaths

LEMMA Indexes ==
    /\ \A i, j : Index(i) = Index(j) <=> i = j
    /\ \A i : ~IsKey(Index(i)) /\ Index(i).index = i /\ Holder(Index(i)) = "array"
    /\ \A name : IsKey(Key(name)) /\ Holder(Key(name)) = "object"
<1>1. ASSUME NEW i, NEW j, Index(i) = Index(j) PROVE i = j
  <2>1. Index(i).index = i /\ Index(j).index = j
    BY DEF Index
  <2>2. QED
    BY <1>1, <2>1
<1>2. ASSUME NEW i PROVE ~IsKey(Index(i)) /\ Index(i).index = i
  BY DEF Index, IsKey
<1>3. ASSUME NEW name PROVE IsKey(Key(name))
  BY DEF Key, IsKey
<1>4. QED
  BY <1>1, <1>2, <1>3 DEF Holder

\* A row of n elements has n paths.
LEMMA RowCount ==
    ASSUME NEW S, NEW t, DOMAIN t \subseteq Seq(S), NEW p \in Seq(S), NEW n \in Nat,
           Slots(t, p) = Row(n)
    PROVE  Cardinality(Children(t, p)) = n
<1> DEFINE C == ChildPaths(t, p)
           N == 0..(n - 1)
           f == [i \in N |-> CHOOSE q \in C : Last(q) = Index(i)]
<1>1. \A i \in N : \E q \in C : Last(q) = Index(i)
  BY DEF Slots, Row
<1>2. \A i \in N : f[i] \in C /\ Last(f[i]) = Index(i)
  <2> HIDE DEF C
  <2>1. QED
    BY <1>1
<1>3. f \in [N -> C]
  <2> HIDE DEF C
  <2>1. QED
    BY <1>1
<1> HIDE DEF f
<1>4. ASSUME NEW i \in N, NEW j \in N, f[i] = f[j] PROVE i = j
  <2>1. Index(i) = Index(j)
    BY <1>2, <1>4
  <2>2. QED
    BY <2>1, Indexes
<1>5. ASSUME NEW q \in C PROVE \E i \in N : f[i] = q
  <2>1. PICK i \in N : Last(q) = Index(i)
    BY <1>5 DEF Slots, Row
  <2>2. f[i] \in C /\ Last(f[i]) = Last(q)
    BY <1>2, <2>1
  <2>3. q \in Seq(S) /\ f[i] \in Seq(S) /\ q # <<>> /\ f[i] # <<>> /\ Front(q) = Front(f[i])
    BY <1>5, <2>2 DEF ChildPaths
  <2>4. f[i] = q
    BY <2>2, <2>3, SameFront
  <2>5. QED
    BY <2>4
<1> HIDE DEF C, N
<1>6. f \in Injection(N, C)
  BY <1>3, <1>4 DEF Injection, IsInjective
<1>7. f \in Bijection(N, C)
  BY <1>3, <1>5, <1>6 DEF Bijection, Surjection
<1>8. ExistsBijection(N, C)
  BY <1>7 DEF ExistsBijection
<1>9. IsFiniteSet(N) /\ Cardinality(N) = n
  <2>1. 0 \in Int /\ n - 1 \in Int /\ (IF 0 > n - 1 THEN 0 ELSE n - 1 - 0 + 1) = n
    OBVIOUS
  <2>2. QED
    BY <2>1, FS_Interval DEF N
<1>10. Cardinality(C) = n
  BY <1>8, <1>9, FS_Bijection
<1>11. QED
  BY <1>10, ChildrenAre DEF C

\* The trees a world has are trees, and those are well formed.
LEMMA TreeOf ==
    ASSUME NEW t, IsTree(t)
    PROVE  \E S : Tree(S, t)
<1> DEFINE S == UNION {Range(p) : p \in DOMAIN t}
<1>1. DOMAIN t \subseteq Seq(S)
  <2>1. ASSUME NEW p \in DOMAIN t PROVE p \in Seq(S)
    <3> DEFINE R == Range(p)
    <3>1. p \in Seq(R) /\ R \subseteq S
      BY DEF IsTree
    <3> HIDE DEF R, S
    <3>2. QED
      BY <3>1, WiderLists
  <2>2. QED
    BY <2>1
<1> HIDE DEF S
<1>2. t = [p \in DOMAIN t |-> t[p]] /\ IsFiniteSet(DOMAIN t)
  BY DEF IsTree
<1>3. <<>> \in DOMAIN t
  BY DEF IsTree, WellFormed
<1>4. \A p \in DOMAIN t : p # <<>> => Front(p) \in DOMAIN t /\ t[Front(p)] = Holder(Last(p))
  BY DEF IsTree, WellFormed, Holder
<1>5. ASSUME NEW p \in DOMAIN t, t[p] = "array" PROVE \E n \in Nat : Slots(t, p) = Row(n)
  <2> DEFINE n == Cardinality(Children(t, p))
  <2>1. p \in Seq(S) /\ Children(t, p) = ChildPaths(t, p)
    BY <1>1, ChildrenAre
  <2>2. n \in Nat
    <3>1. Children(t, p) \in SUBSET DOMAIN t
      BY DEF Children, Below
    <3>2. IsFiniteSet(Children(t, p))
      BY <1>2, <3>1, FS_Subset
    <3>3. QED
      BY <3>2, FS_CardinalityType
  <2>3. {Last(q) : q \in Children(t, p)} = {Index(i) : i \in 0..(n - 1)}
    BY <1>5 DEF IsTree, WellFormed
  <2> HIDE DEF n
  <2>4. Slots(t, p) = Row(n)
    BY <2>1, <2>3 DEF Slots, Row
  <2>5. QED
    BY <2>2, <2>4
<1>6. Tree(S, t)
  BY <1>1, <1>2, <1>3, <1>4, <1>5 DEF Tree
<1>7. QED
  BY <1>6

LEMMA TreeIs ==
    ASSUME NEW S, NEW t, Tree(S, t)
    PROVE  WellFormed(t)
<1>1. DOMAIN t \subseteq Seq(S) /\ <<>> \in DOMAIN t
  BY DEF Tree
<1>2. \A p \in DOMAIN t \ {<<>>} : Front(p) \in DOMAIN t
                                    /\ t[Front(p)] = IF IsKey(Last(p)) THEN "object" ELSE "array"
  BY DEF Tree, Holder
<1>3. ASSUME NEW p \in DOMAIN t, t[p] = "array"
      PROVE  {Last(q) : q \in Children(t, p)} =
                {Index(i) : i \in 0..(Cardinality(Children(t, p)) - 1)}
  <2>1. PICK n \in Nat : Slots(t, p) = Row(n)
    BY <1>3 DEF Tree
  <2>2. p \in Seq(S)
    BY <1>1
  <2>3. Cardinality(Children(t, p)) = n /\ Children(t, p) = ChildPaths(t, p)
    BY <1>1, <2>1, <2>2, RowCount, ChildrenAre
  <2>4. QED
    BY <2>1, <2>3 DEF Slots, Row
<1>4. QED
  BY <1>1, <1>2, <1>3 DEF WellFormed

\* What is in front of a path of a tree is one, too.
LEMMA PrefixClosed ==
    ASSUME NEW S, NEW t, Tree(S, t), NEW s \in Seq(S), NEW q \in DOMAIN t, IsPrefix(s, q)
    PROVE  s \in DOMAIN t
<1> DEFINE N == Len(q)
           Short(n) == \A p \in DOMAIN t : Len(p) = n /\ IsPrefix(s, p) => s \in DOMAIN t
           T == {n \in 0..N : Short(n)}
<1>1. DOMAIN t \subseteq Seq(S)
  BY DEF Tree
<1>2. N \in Nat
  BY <1>1, LenProperties
<1>3. 0 \in T
  <2>1. ASSUME NEW p \in DOMAIN t, Len(p) = 0, IsPrefix(s, p) PROVE s \in DOMAIN t
    <3>1. p \in Seq(S) /\ p = <<>>
      BY <1>1, <2>1, EmptySeq
    <3>2. s = <<>>
      BY <2>1, <3>1, PrefixFacts
    <3>3. QED
      BY <3>2 DEF Tree
  <2>2. QED
    BY <1>2, <2>1
<1>4. ASSUME NEW n \in 1..N, n - 1 \in T PROVE n \in T
  <2>1. ASSUME NEW p \in DOMAIN t, Len(p) = n, IsPrefix(s, p) PROVE s \in DOMAIN t
    <3>1. p \in Seq(S) /\ p # <<>>
      <4>1. Len(<<>>) = 0 /\ n # 0
        BY <1>2
      <4>2. QED
        BY <1>1, <2>1, <4>1
    <3> DEFINE f == Front(p)
    <3>2. f \in DOMAIN t /\ Len(f) = n - 1
      BY <2>1, <3>1, FrontAndLast DEF Tree
    <3>3. IsPrefix(s, f) \/ s = p
      BY <2>1, <3>1, PrefixFacts
    <3> HIDE DEF f
    <3>4. Short(n - 1)
      BY <1>4
    <3>5. QED
      BY <3>2, <3>3, <3>4
  <2>2. QED
    BY <2>1
<1>5. N \in T
  <2> HIDE DEF T, N
  <2>1. 0..N \subseteq T
    BY <1>2, <1>3, <1>4, SetInduction
  <2>2. QED
    BY <1>2, <2>1
<1>6. QED
  BY <1>5

\* What is where in u when value is put into t.
IsInserted(S, t, segs, value, u) ==
    /\ u = [p \in DOMAIN u |-> u[p]] /\ DOMAIN u \subseteq Seq(S)
    /\ \A r \in DOMAIN value : segs \o r \in DOMAIN u /\ u[segs \o r] = value[r]
    /\ \A p \in DOMAIN t : ~IsPrefix(segs, p) => p \in DOMAIN u /\ u[p] = t[p]
    /\ \A p \in DOMAIN u : (p \in DOMAIN t /\ ~IsPrefix(segs, p))
                           \/ \E r \in DOMAIN value : p = segs \o r

LEMMA Inserted ==
    ASSUME NEW S, NEW t, DOMAIN t \subseteq Seq(S), NEW value, DOMAIN value \subseteq Seq(S),
           NEW segs \in Seq(S)
    PROVE  IsInserted(S, t, segs, value, Insert(t, segs, value))
<1> DEFINE u == Insert(t, segs, value)
           below == {segs \o r : r \in DOMAIN value}
           kept == DOMAIN Without(t, segs)
<1>1. u = [p \in below \union kept |-> IF p \in below THEN value[Relative(segs, p)] ELSE t[p]]
  BY DEF Insert
<1>2. kept = {p \in DOMAIN t : ~IsPrefix(segs, p)}
  BY DEF Without, Below, Restrict
<1>3. ASSUME NEW r \in DOMAIN value
      PROVE  segs \o r \in Seq(S) /\ IsPrefix(segs, segs \o r) /\ Relative(segs, segs \o r) = r
  <2>1. r \in Seq(S)
    OBVIOUS
  <2>2. QED
    BY <2>1, Joining
<1>4. \A p \in below : p \in Seq(S) /\ IsPrefix(segs, p)
  BY <1>3
<1> HIDE DEF u
<1>5. \A r \in DOMAIN value : segs \o r \in below
  OBVIOUS
<1>6. \A p \in below : \E r \in DOMAIN value : p = segs \o r
  OBVIOUS
<1> HIDE DEF below, kept
<1>7. DOMAIN u = below \union kept
  BY <1>1
<1>8. \A r \in DOMAIN value : segs \o r \in DOMAIN u /\ u[segs \o r] = value[r]
  BY <1>1, <1>3, <1>5
<1>9. \A p \in DOMAIN t : ~IsPrefix(segs, p) => p \in DOMAIN u /\ u[p] = t[p]
  BY <1>1, <1>2, <1>4
<1>10. DOMAIN u \subseteq Seq(S)
  BY <1>2, <1>4, <1>7
<1>11. u = [p \in DOMAIN u |-> u[p]]
  BY <1>1
<1>12. \A p \in DOMAIN u : (p \in DOMAIN t /\ ~IsPrefix(segs, p))
                          \/ \E r \in DOMAIN value : p = segs \o r
  BY <1>2, <1>6, <1>7
<1>13. IsInserted(S, t, segs, value, u)
  BY <1>8, <1>9, <1>10, <1>11, <1>12 DEF IsInserted
<1>14. QED
  BY <1>13 DEF u

\* A tree put into a tree, where there is a place for it, makes a tree.
LEMMA InsertedTree ==
    ASSUME NEW S, NEW t, Tree(S, t), NEW value, Tree(S, value), NEW segs \in Seq(S), segs # <<>>,
           Front(segs) \in DOMAIN t, t[Front(segs)] = Holder(Last(segs)),
           IsKey(Last(segs)) \/ segs \in DOMAIN t
    PROVE  Tree(S, Insert(t, segs, value))
<1> DEFINE u == Insert(t, segs, value)
           old(p) == p \in DOMAIN t /\ ~IsPrefix(segs, p)
           here == Front(segs)
<1>1. DOMAIN t \subseteq Seq(S) /\ DOMAIN value \subseteq Seq(S) /\ <<>> \in DOMAIN value /\ <<>> \in DOMAIN t
  BY DEF Tree
<1>2. /\ u = [p \in DOMAIN u |-> u[p]] /\ DOMAIN u \subseteq Seq(S)
      /\ \A r \in DOMAIN value : segs \o r \in DOMAIN u /\ u[segs \o r] = value[r]
      /\ \A p \in DOMAIN t : ~IsPrefix(segs, p) => p \in DOMAIN u /\ u[p] = t[p]
      /\ \A p \in DOMAIN u : old(p) \/ \E r \in DOMAIN value : p = segs \o r
  <2>1. IsInserted(S, t, segs, value, u)
    BY <1>1, Inserted
  <2> HIDE DEF u
  <2>2. QED
    BY <2>1 DEF IsInserted
<1> HIDE DEF u
<1>3. ASSUME NEW r \in DOMAIN value
      PROVE  /\ IsPrefix(segs, segs \o r) /\ Relative(segs, segs \o r) = r
             /\ r = <<>> => segs \o r = segs
             /\ r # <<>> => /\ Front(r) \in DOMAIN value /\ value[Front(r)] = Holder(Last(r))
                            /\ segs \o r # <<>> /\ Front(segs \o r) = segs \o Front(r)
                            /\ Last(segs \o r) = Last(r)
  <2>1. r \in Seq(S)
    BY <1>1
  <2>2. /\ IsPrefix(segs, segs \o r) /\ Relative(segs, segs \o r) = r /\ segs \o <<>> = segs
        /\ r # <<>> => /\ segs \o r # <<>> /\ Front(segs \o r) = segs \o Front(r)
                       /\ Last(segs \o r) = Last(r)
    BY <2>1, Joining
  <2>3. r # <<>> => Front(r) \in DOMAIN value /\ value[Front(r)] = Holder(Last(r))
    BY DEF Tree
  <2>4. QED
    BY <2>2, <2>3
<1>4. old(<<>>) /\ old(here)
  BY <1>1, PrefixFacts
<1>5. ASSUME NEW q \in DOMAIN t, q # <<>>
      PROVE  /\ Front(q) \in DOMAIN t /\ t[Front(q)] = Holder(Last(q))
             /\ IsPrefix(segs, q) <=> IsPrefix(segs, Front(q)) \/ segs = q
  <2>1. q \in Seq(S)
    BY <1>1
  <2>2. QED
    BY <1>5, <2>1, PrefixFacts DEF Tree
<1>6. ASSUME NEW q \in DOMAIN u, q # <<>>
      PROVE  Front(q) \in DOMAIN u /\ u[Front(q)] = Holder(Last(q))
  <2>1. CASE old(q)
    <3>1. old(Front(q)) /\ t[Front(q)] = Holder(Last(q))
      BY <1>5, <1>6, <2>1
    <3>2. QED
      BY <1>2, <3>1
  <2>2. ASSUME NEW r \in DOMAIN value, q = segs \o r
        PROVE  Front(q) \in DOMAIN u /\ u[Front(q)] = Holder(Last(q))
    <3>1. CASE r = <<>>
      <4>1. q = segs
        BY <1>3, <2>2, <3>1
      <4>2. here \in DOMAIN u /\ u[here] = Holder(Last(segs))
        BY <1>2, <1>4
      <4>3. QED
        BY <4>1, <4>2
    <3>2. CASE r # <<>>
      <4>1. Front(q) = segs \o Front(r) /\ Last(q) = Last(r) /\ Front(r) \in DOMAIN value
            /\ value[Front(r)] = Holder(Last(r))
        BY <1>3, <2>2, <3>2
      <4>2. QED
        BY <1>2, <4>1
    <3>3. QED
      BY <3>1, <3>2
  <2>3. QED
    BY <1>2, <2>1, <2>2
<1>7. ASSUME NEW p \in DOMAIN u, u[p] = "array"
      PROVE  \E n \in Nat : Slots(u, p) = Row(n)
  <2>1. ASSUME NEW r \in DOMAIN value, p = segs \o r
        PROVE  \E n \in Nat : Slots(u, p) = Row(n)
    <3>1. value[r] = "array"
      BY <1>2, <1>7, <2>1
    <3>2. PICK n \in Nat : Slots(value, r) = Row(n)
      BY <3>1 DEF Tree
    <3>3. ASSUME NEW q \in ChildPaths(u, p) PROVE Last(q) \in Slots(value, r)
      <4>1. q \in DOMAIN u /\ q # <<>> /\ Front(q) = p /\ IsPrefix(segs, p)
        BY <1>3, <2>1, <3>3 DEF ChildPaths
      <4>2. ~old(q)
        BY <1>5, <4>1
      <4>3. PICK x \in DOMAIN value : q = segs \o x
        BY <1>2, <4>1, <4>2
      <4>4. x # <<>>
        <5>1. x = <<>> => q = segs /\ IsPrefix(segs, here)
          BY <1>3, <4>1, <4>3
        <5>2. QED
          BY <1>4, <5>1
      <4>5. segs \o Front(x) = segs \o r /\ Last(q) = Last(x) /\ Front(x) \in DOMAIN value
        BY <1>3, <2>1, <4>1, <4>3, <4>4
      <4>6. Front(x) = r
        BY <1>3, <4>5
      <4>7. QED
        BY <4>4, <4>5, <4>6 DEF Slots, ChildPaths
    <3>4. ASSUME NEW x \in ChildPaths(value, r) PROVE Last(x) \in Slots(u, p)
      <4>1. x \in DOMAIN value /\ x # <<>> /\ Front(x) = r
        BY <3>4 DEF ChildPaths
      <4> DEFINE q == segs \o x
      <4>2. q \in DOMAIN u /\ q # <<>> /\ Front(q) = p /\ Last(q) = Last(x)
        BY <1>2, <1>3, <2>1, <4>1
      <4> HIDE DEF q
      <4>3. QED
        BY <4>2 DEF Slots, ChildPaths
    <3>5. Slots(u, p) = Slots(value, r)
      BY <3>3, <3>4 DEF Slots
    <3>6. QED
      BY <3>2, <3>5
  <2>2. ASSUME old(p) PROVE \E n \in Nat : Slots(u, p) = Row(n)
    <3>1. t[p] = "array"
      BY <1>2, <1>7, <2>2
    <3>2. PICK n \in Nat : Slots(t, p) = Row(n)
      BY <2>2, <3>1 DEF Tree
    <3>3. ASSUME NEW q \in ChildPaths(u, p) PROVE q \in ChildPaths(t, p)
      <4>1. q \in DOMAIN u /\ q # <<>> /\ Front(q) = p
        BY <3>3 DEF ChildPaths
      <4>2. CASE old(q)
        BY <4>1, <4>2 DEF ChildPaths
      <4>3. ASSUME NEW x \in DOMAIN value, q = segs \o x PROVE q \in ChildPaths(t, p)
        <5>1. x = <<>>
          <6>1. x # <<>> => Front(q) = segs \o Front(x) /\ Front(x) \in DOMAIN value
            BY <1>3, <4>3
          <6>2. x # <<>> => IsPrefix(segs, p)
            BY <1>3, <4>1, <6>1
          <6>3. QED
            BY <2>2, <6>2
        <5>2. q = segs
          BY <1>3, <4>3, <5>1
        <5>3. Holder(Last(segs)) = "array"
          BY <3>1, <4>1, <5>2
        <5>4. segs \in DOMAIN t
          BY <5>3 DEF Holder
        <5>5. QED
          BY <4>1, <5>2, <5>4 DEF ChildPaths
      <4>4. QED
        BY <1>2, <4>1, <4>2, <4>3
    <3>4. ASSUME NEW q \in ChildPaths(t, p) PROVE q \in ChildPaths(u, p)
      <4>1. q \in DOMAIN t /\ q # <<>> /\ Front(q) = p
        BY <3>4 DEF ChildPaths
      <4>2. CASE old(q)
        BY <1>2, <4>1, <4>2 DEF ChildPaths
      <4>3. CASE ~old(q)
        <5>1. q = segs
          BY <1>5, <2>2, <4>1, <4>3
        <5>2. segs \in DOMAIN u
          BY <1>1, <1>2, <1>3
        <5>3. QED
          BY <4>1, <5>1, <5>2 DEF ChildPaths
      <4>4. QED
        BY <4>2, <4>3
    <3>5. Slots(u, p) = Slots(t, p)
      BY <3>3, <3>4 DEF Slots
    <3>6. QED
      BY <3>2, <3>5
  <2>3. QED
    BY <1>2, <2>1, <2>2
<1>8. <<>> \in DOMAIN u
  BY <1>2, <1>4
<1> HIDE DEF old
<1>9. Tree(S, u)
  BY <1>2, <1>6, <1>7, <1>8 DEF Tree
<1>10. QED
  BY <1>9 DEF u

\* Where an element is, its path is one of the tree.
LEMMA ElementThere ==
    ASSUME NEW S, NEW t, Tree(S, t), NEW segs \in Seq(S), segs # <<>>, Front(segs) \in DOMAIN t,
           NEW i \in Nat, Last(segs) = Index(i), HasIndex(t, Front(segs), i)
    PROVE  segs \in DOMAIN t
<1> DEFINE p == Front(segs)
<1>1. t[p] = "array" /\ i < Cardinality(Children(t, p)) /\ DOMAIN t \subseteq Seq(S)
  BY DEF HasIndex, Tree
<1>2. PICK n \in Nat : Slots(t, p) = Row(n)
  BY <1>1 DEF Tree
<1>3. p \in Seq(S) /\ Cardinality(Children(t, p)) = n
  BY <1>1, <1>2, RowCount
<1>4. Index(i) \in Row(n)
  <2>1. i \in 0..(n - 1)
    BY <1>1, <1>3
  <2>2. QED
    BY <2>1 DEF Row
<1>5. PICK q \in ChildPaths(t, p) : Last(q) = Index(i)
  BY <1>2, <1>4 DEF Slots
<1>6. q \in DOMAIN t /\ q # <<>> /\ Front(q) = p /\ q \in Seq(S)
  BY <1>1, <1>5 DEF ChildPaths
<1>7. q = segs
  BY <1>5, <1>6, SameFront
<1>8. QED
  BY <1>6, <1>7

LEMMA EmptyObjectTree == \A S : Tree(S, EmptyObject)
<1> SUFFICES ASSUME NEW S PROVE Tree(S, EmptyObject)
  OBVIOUS
<1> DEFINE t == EmptyObject
<1>1. t = [p \in {<<>>} |-> "object"]
  BY DEF EmptyObject, Scalar
<1>2. <<>> \in Seq(S)
  OBVIOUS
<1> HIDE DEF t
<1>3. DOMAIN t = {<<>>} /\ t[<<>>] = "object"
  BY <1>1
<1>4. Tree(S, t)
  BY <1>1, <1>2, <1>3 DEF Tree
<1>5. QED
  BY <1>4 DEF t

\* u is t with an empty object more, at segs.
IsPlanted(t, segs, u) ==
    /\ DOMAIN u = DOMAIN t \union {segs}
    /\ u[segs] = "object"
    /\ \A p \in DOMAIN t : u[p] = t[p]

\* A key that an object lacks is planted and nothing else changes.
LEMMA Planted ==
    ASSUME NEW S, NEW t, Tree(S, t), NEW segs \in Seq(S), segs # <<>>, segs \notin DOMAIN t,
           Front(segs) \in DOMAIN t, t[Front(segs)] = "object", IsKey(Last(segs))
    PROVE  /\ Tree(S, Insert(t, segs, EmptyObject))
           /\ IsPlanted(t, segs, Insert(t, segs, EmptyObject))
<1> DEFINE u == Insert(t, segs, EmptyObject)
<1>1. Tree(S, EmptyObject) /\ DOMAIN t \subseteq Seq(S)
  BY EmptyObjectTree DEF Tree
<1>2. Tree(S, u)
  <2>1. t[Front(segs)] = Holder(Last(segs))
    BY DEF Holder
  <2>2. QED
    BY <1>1, <2>1, InsertedTree
<1>3. DOMAIN EmptyObject = {<<>>} /\ EmptyObject[<<>>] = "object" /\ <<>> \in Seq(S)
  BY DEF EmptyObject, Scalar
<1>4. segs \o <<>> = segs
  BY Joining
<1>5. \A p \in DOMAIN t : ~IsPrefix(segs, p)
  BY PrefixClosed
<1>6. IsInserted(S, t, segs, EmptyObject, u)
  BY <1>1, <1>3, Inserted
<1> HIDE DEF u
<1>7. segs \in DOMAIN u /\ u[segs] = "object" /\ (\A p \in DOMAIN t : p \in DOMAIN u /\ u[p] = t[p])
      /\ \A p \in DOMAIN u : p \in DOMAIN t \/ p = segs
  BY <1>3, <1>4, <1>5, <1>6 DEF IsInserted
<1>8. IsPlanted(t, segs, u)
  BY <1>7 DEF IsPlanted
<1>9. QED
  BY <1>2, <1>8 DEF u

\* Leaving out what is below a key leaves a tree.
LEMMA WithoutTree ==
    ASSUME NEW S, NEW t, Tree(S, t), NEW segs \in Seq(S), segs # <<>>, segs \in DOMAIN t,
           IsKey(Last(segs))
    PROVE  Tree(S, Without(t, segs))
<1> DEFINE u == Without(t, segs)
<1>1. DOMAIN t \subseteq Seq(S) /\ <<>> \in DOMAIN t
  BY DEF Tree
<1>2. DOMAIN u = {p \in DOMAIN t : ~IsPrefix(segs, p)} /\ u = [p \in DOMAIN u |-> t[p]]
  BY DEF Without, Below, Restrict
<1> HIDE DEF u
<1>3. <<>> \in DOMAIN u
  BY <1>1, <1>2, PrefixFacts
<1>4. ASSUME NEW q \in DOMAIN t, q # <<>>
      PROVE  /\ Front(q) \in DOMAIN t /\ t[Front(q)] = Holder(Last(q))
             /\ IsPrefix(segs, q) <=> IsPrefix(segs, Front(q)) \/ segs = q
  <2>1. q \in Seq(S)
    BY <1>1
  <2>2. QED
    BY <1>4, <2>1, PrefixFacts DEF Tree
<1>5. \A q \in DOMAIN u : q # <<>> => Front(q) \in DOMAIN u /\ u[Front(q)] = Holder(Last(q))
  BY <1>2, <1>4
<1>6. ASSUME NEW p \in DOMAIN u, u[p] = "array" PROVE \E n \in Nat : Slots(u, p) = Row(n)
  <2>1. p \in DOMAIN t /\ t[p] = "array" /\ ~IsPrefix(segs, p)
    BY <1>2, <1>6
  <2>2. ASSUME NEW q \in DOMAIN t, q # <<>>, Front(q) = p PROVE q \in DOMAIN u
    <3>1. IsPrefix(segs, q) <=> segs = q
      BY <1>4, <2>1, <2>2
    <3>2. segs # q
      BY <1>4, <2>1, <2>2 DEF Holder
    <3>3. QED
      BY <1>2, <3>1, <3>2
  <2>3. ChildPaths(u, p) = ChildPaths(t, p)
    BY <1>2, <2>2 DEF ChildPaths
  <2>4. QED
    BY <2>1, <2>3 DEF Tree, Slots
<1>7. Tree(S, u)
  BY <1>1, <1>2, <1>3, <1>5, <1>6 DEF Tree
<1>8. QED
  BY <1>7 DEF u

\* A path strictly below another and the segment behind that.
LEMMA StrictlyBelow ==
    ASSUME NEW S, NEW s \in Seq(S), NEW q \in Seq(S), q # <<>>
    PROVE  /\ IsPrefix(s, Front(q)) /\ Front(q) # s =>
                 Len(Front(q)) > Len(s) /\ Front(q)[Len(s) + 1] = q[Len(s) + 1]
           /\ Front(q) = s => Last(q) = q[Len(s) + 1] /\ Len(q) = Len(s) + 1
           /\ IsPrefix(s, q) /\ q # s => IsPrefix(s, Front(q)) /\ Len(q) >= Len(s) + 1
<1> DEFINE f == Front(q)
           m == Len(s)
           n == Len(q)
<1>1. f \in Seq(S) /\ n \in Nat \ {0} /\ Len(f) = n - 1 /\ (\A i \in 1..(n - 1) : f[i] = q[i])
      /\ Last(q) = q[n] /\ m \in Nat
  BY FrontAndLast, LenProperties
<1>2. IsPrefix(s, q) <=> IsPrefix(s, f) \/ s = q
  BY PrefixFacts
<1>3. IsPrefix(s, f) <=> m <= Len(f) /\ \A i \in 1..m : s[i] = f[i]
  <2>1. f \in Seq(S)
    BY <1>1
  <2>2. ASSUME NEW g \in Seq(S)
        PROVE  IsPrefix(s, g) <=> m <= Len(g) /\ \A i \in 1..m : s[i] = g[i]
    BY PrefixPlaces
  <2>3. QED
    BY <2>1, <2>2
<1>4. ASSUME IsPrefix(s, f), f # s PROVE n - 1 > m
  <2>1. Len(f) # m
    <3>1. ASSUME Len(f) = m PROVE f = s
      BY <1>1, <1>3, <1>4, <3>1, SeqEqual
    <3>2. QED
      BY <1>4, <3>1
  <2> HIDE DEF m, n, f
  <2>2. QED
    BY <1>1, <1>3, <1>4, <2>1
<1> HIDE DEF m, n, f
<1>5. ASSUME IsPrefix(s, f), f # s PROVE Len(f) > m /\ f[m + 1] = q[m + 1]
  <2>1. m + 1 \in 1..(n - 1)
    BY <1>1, <1>4, <1>5
  <2>2. QED
    BY <1>1, <1>4, <1>5, <2>1
<1>6. ASSUME f = s PROVE n = m + 1
  <2>1. n - 1 = m
    BY <1>1, <1>6 DEF m
  <2>2. QED
    BY <1>1, <2>1
<1>7. ASSUME IsPrefix(s, q), q # s PROVE IsPrefix(s, f) /\ n >= m + 1
  <2>1. IsPrefix(s, f)
    BY <1>2, <1>7, Zenon
  <2>2. m <= n - 1
    BY <1>1, <1>3, <2>1
  <2>3. QED
    BY <1>1, <2>1, <2>2
<1>8. QED
  BY <1>1, <1>5, <1>6, <1>7 DEF m, n, f

\* The first elements of an array make an array.
LEMMA TrimmedTree ==
    ASSUME NEW S, NEW t, Tree(S, t), NEW segs \in Seq(S), NEW length \in Int
    PROVE  Tree(S, TrimArray(t, segs, length).tree)
<1> DEFINE keep == IF length < 0 THEN 0 ELSE length
           m == Len(segs)
           cut == {p \in Below(t, segs) \ {segs} : p[m + 1].index >= keep}
           u == Restrict(t, DOMAIN t \ cut)
<1>1. CASE segs \notin DOMAIN t \/ t[segs] # "array" \/ cut = {}
  <2>1. TrimArray(t, segs, length).tree = t
    BY <1>1 DEF TrimArray, Result
  <2>2. QED
    BY <2>1
<1>2. CASE segs \in DOMAIN t /\ t[segs] = "array" /\ cut # {}
  <2>1. TrimArray(t, segs, length).tree = u
    BY <1>2 DEF TrimArray, Result
  <2>2. keep \in Nat /\ m \in Nat
    BY LenProperties
  <2>3. DOMAIN t \subseteq Seq(S) /\ <<>> \in DOMAIN t
    BY DEF Tree
  <2>4. DOMAIN u = DOMAIN t \ cut /\ u = [p \in DOMAIN u |-> t[p]]
    BY DEF Restrict
  <2>5. \A p \in DOMAIN t : p \in cut <=> IsPrefix(segs, p) /\ p # segs /\ p[m + 1].index >= keep
    BY DEF Below
  <2> HIDE DEF u, cut, keep
  <2>6. segs \in DOMAIN u /\ <<>> \in DOMAIN u
    <3>1. IsPrefix(segs, <<>>) => segs = <<>>
      BY PrefixFacts
    <3>2. QED
      BY <1>2, <2>3, <2>4, <2>5, <3>1
  <2>7. ASSUME NEW q \in DOMAIN t, q # <<>>
        PROVE  /\ Front(q) \in DOMAIN t /\ t[Front(q)] = Holder(Last(q))
               /\ Front(q) # segs => (q \in cut <=> Front(q) \in cut)
               /\ Front(q) = segs => (q \in cut <=> Last(q).index >= keep)
               /\ segs \notin cut
    <3> DEFINE f == Front(q)
    <3>1. q \in Seq(S)
      BY <2>3
    <3>2. f \in DOMAIN t /\ t[f] = Holder(Last(q))
      BY <2>7 DEF Tree
    <3>3. IsPrefix(segs, q) <=> IsPrefix(segs, f) \/ segs = q
      BY <2>7, <3>1, PrefixFacts
    <3>4. IsPrefix(segs, f) /\ f # segs => f[m + 1] = q[m + 1]
      BY <2>7, <3>1, StrictlyBelow
    <3>5. f = segs => Last(q) = q[m + 1] /\ Len(q) = m + 1
      BY <2>7, <3>1, StrictlyBelow
    <3>6. IsPrefix(segs, segs) /\ (segs # <<>> => ~IsPrefix(segs, Front(segs)))
      BY PrefixFacts
    <3>7. f = segs => q # segs
      BY <2>2, <3>5
    <3>8. segs \notin cut
      BY <1>2, <2>5
    <3>9. IsPrefix(segs, f) => q # segs
      BY <2>7, <3>6
    <3> HIDE DEF f
    <3>10. f # segs => (q \in cut <=> f \in cut)
      BY <2>5, <3>2, <3>3, <3>4, <3>9
    <3>11. f = segs => (q \in cut <=> Last(q).index >= keep)
      BY <2>5, <3>3, <3>5, <3>6, <3>7
    <3>12. QED
      BY <3>2, <3>8, <3>10, <3>11 DEF f
  <2>8. \A q \in DOMAIN u : q # <<>> => Front(q) \in DOMAIN u /\ u[Front(q)] = Holder(Last(q))
    BY <2>4, <2>6, <2>7
  <2>9. ASSUME NEW p \in DOMAIN u, u[p] = "array" PROVE \E n \in Nat : Slots(u, p) = Row(n)
    <3>1. p \in DOMAIN t /\ t[p] = "array" /\ p \notin cut
      BY <2>4, <2>9
    <3>2. PICK n \in Nat : Slots(t, p) = Row(n)
      BY <3>1 DEF Tree
    <3>3. CASE p # segs
      <4>1. ChildPaths(u, p) = ChildPaths(t, p)
        BY <2>4, <2>7, <3>1, <3>3 DEF ChildPaths
      <4>2. QED
        BY <3>2, <4>1 DEF Slots
    <3>4. CASE p = segs
      <4> DEFINE k == IF keep < n THEN keep ELSE n
      <4>1. k \in Nat /\ \A i : i \in 0..(k - 1) <=> i \in 0..(n - 1) /\ ~(i >= keep)
        BY <2>2
      <4> HIDE DEF k
      <4>2. ASSUME NEW seg PROVE seg \in Slots(u, p) <=> seg \in Slots(t, p) /\ ~(seg.index >= keep)
        <5>1. \A q \in DOMAIN t : q # <<>> /\ Front(q) = p => (q \in DOMAIN u <=> ~(Last(q).index >= keep))
          BY <2>4, <2>7, <3>4
        <5>2. \A q : q \in ChildPaths(u, p) <=> q \in ChildPaths(t, p) /\ ~(Last(q).index >= keep)
          BY <2>4, <5>1 DEF ChildPaths
        <5>3. QED
          BY <5>2 DEF Slots
      <4>3. ASSUME NEW seg PROVE seg \in Row(k) <=> seg \in Row(n) /\ ~(seg.index >= keep)
        <5>1. \A i : Index(i).index = i
          BY Indexes
        <5>2. ASSUME seg \in Row(k) PROVE seg \in Row(n) /\ ~(seg.index >= keep)
          <6>1. PICK i \in 0..(k - 1) : seg = Index(i)
            BY <5>2 DEF Row
          <6>2. seg.index = i /\ i \in 0..(n - 1) /\ ~(i >= keep)
            BY <4>1, <5>1, <6>1
          <6>3. QED
            BY <6>1, <6>2 DEF Row
        <5>3. ASSUME seg \in Row(n), ~(seg.index >= keep) PROVE seg \in Row(k)
          <6>1. PICK i \in 0..(n - 1) : seg = Index(i)
            BY <5>3 DEF Row
          <6>2. i \in 0..(k - 1)
            BY <4>1, <5>1, <5>3, <6>1
          <6>3. QED
            BY <6>1, <6>2 DEF Row
        <5>4. QED
          BY <5>2, <5>3
      <4>4. Slots(u, p) = Row(k)
        BY <3>2, <4>2, <4>3
      <4>5. QED
        BY <4>1, <4>4
    <3>5. QED
      BY <3>3, <3>4
  <2>10. Tree(S, u)
    BY <2>3, <2>4, <2>6, <2>8, <2>9 DEF Tree
  <2>11. QED
    BY <2>1, <2>10
<1>3. QED
  BY <1>1, <1>2

\* Whether p is behind the element at segs, and where it is without that.
BehindIn(t, segs, p) ==
    p \in Below(t, Front(segs)) \ {Front(segs)} /\ p[Len(segs)].index > Last(segs).index
ShiftedIn(t, segs, p) ==
    IF BehindIn(t, segs, p) THEN [p EXCEPT ![Len(segs)] = Index(@.index - 1)] ELSE p

\* Below an array the next segment is one of its numbers.
LEMMA SlotBelow ==
    ASSUME NEW S, NEW t, Tree(S, t), NEW s \in Seq(S), NEW n \in Nat, Slots(t, s) = Row(n),
           NEW p \in DOMAIN t, IsPrefix(s, p), p # s
    PROVE  Len(s) + 1 \in 1..Len(p) /\ \E j \in 0..(n - 1) : p[Len(s) + 1] = Index(j)
<1> DEFINE m == Len(s) + 1
           x == SubSeq(p, 1, m)
<1>1. p \in Seq(S) /\ Len(s) \in Nat
  BY LenProperties DEF Tree
<1>2. p # <<>>
  BY PrefixFacts
<1>3. Len(p) >= m /\ Len(p) \in Nat /\ m \in Nat
  BY <1>1, <1>2, StrictlyBelow, LenProperties
<1>4. m \in 1..Len(p)
  <2> HIDE DEF m
  <2>1. m >= 1
    BY <1>1 DEF m
  <2>2. QED
    BY <1>3, <2>1
<1>5. x \in Seq(S) /\ Len(x) = m /\ \A k \in 1..m : x[k] = p[k]
  <2>1. \A k \in 1..m : p[k] \in S
    <3> HIDE DEF m
    <3>1. \A k \in 1..m : k \in 1..Len(p)
      BY <1>3
    <3>2. QED
      BY <1>1, <3>1, ElementOfSeq
  <2> HIDE DEF m
  <2>2. 1 \in Int /\ m \in Int /\ m - 1 + 1 = m /\ 1 <= m /\ \A k \in 1..m : 1 + k - 1 = k
    BY <1>3, <1>4
  <2>3. /\ x \in Seq(S) /\ Len(x) = IF 1 <= m THEN m - 1 + 1 ELSE 0
        /\ \A k \in 1..(m - 1 + 1) : x[k] = p[1 + k - 1]
    BY <2>1, <2>2, SubSeqProperties
  <2> HIDE DEF x
  <2>4. QED
    BY <2>2, <2>3
<1> HIDE DEF x
<1>6. IsPrefix(x, p)
  BY <1>1, <1>3, <1>5, PrefixPlaces
<1>7. x \in DOMAIN t
  BY <1>5, <1>6, PrefixClosed
<1>8. x # <<>> /\ Front(x) = s /\ Last(x) = p[m]
  <2>1. x # <<>>
    <3>1. Len(<<>>) = 0 /\ m # 0
      BY <1>4
    <3>2. QED
      BY <1>5, <3>1
  <2> DEFINE f == Front(x)
  <2>2. f \in Seq(S) /\ Len(f) = Len(x) - 1 /\ (\A k \in 1..(Len(x) - 1) : f[k] = x[k])
        /\ Last(x) = x[Len(x)]
    BY <1>5, <2>1, FrontAndLast
  <2> HIDE DEF f
  <2>3. Len(x) - 1 = Len(s) /\ \A k \in 1..Len(s) : k \in 1..m
    BY <1>1, <1>5
  <2>4. \A k \in 1..Len(s) : s[k] = p[k]
    BY <1>1, PrefixPlaces
  <2>5. \A k \in 1..Len(s) : f[k] = s[k]
    BY <1>5, <2>2, <2>3, <2>4
  <2>6. f = s
    BY <2>2, <2>3, <2>5, SeqEqual
  <2>7. m \in 1..m
    <3> HIDE DEF m
    <3>1. QED
      BY <1>4
  <2>8. Last(x) = p[m]
    BY <1>5, <2>2, <2>7
  <2>9. QED
    BY <2>1, <2>6, <2>8 DEF f
<1>9. Last(x) \in Row(n)
  BY <1>7, <1>8 DEF Slots, ChildPaths
<1>10. QED
  BY <1>4, <1>8, <1>9 DEF Row

\* The number of an element after another has gone.
After(j, i) == IF j > i THEN j - 1 ELSE j

\* p is moved to y when the i-th of the n elements at s goes.
Moves(R, s, i, n, p, y) ==
    /\ y \in Seq(R) /\ Len(y) = Len(p)
    /\ \A k \in 1..Len(p) : k # Len(s) + 1 => y[k] = p[k]
    /\ IF IsPrefix(s, p) /\ p # s
       THEN /\ Len(s) + 1 \in 1..Len(p)
            /\ \E j \in 0..(n - 1) : p[Len(s) + 1] = Index(j) /\ y[Len(s) + 1] = Index(After(j, i))
       ELSE y = p

LEMMA ShiftMoves ==
    ASSUME NEW S, NEW t, Tree(S, t), NEW segs \in Seq(S), segs # <<>>,
           NEW n \in Nat, Slots(t, Front(segs)) = Row(n), NEW i \in Nat, Last(segs) = Index(i),
           NEW R, R = S \union {Index(j) : j \in Nat}, NEW p \in DOMAIN t
    PROVE  Moves(R, Front(segs), i, n, p, ShiftedIn(t, segs, p))
<1> DEFINE s == Front(segs)
           m == Len(segs)
           y == ShiftedIn(t, segs, p)
<1>1. s \in Seq(S) /\ Len(s) = m - 1 /\ m \in Nat /\ Len(s) \in Nat /\ m = Len(s) + 1
  BY FrontAndLast, LenProperties
<1>2. p \in Seq(S) /\ Seq(S) \subseteq Seq(R) /\ Len(p) \in Nat
  <2>1. S \subseteq R
    OBVIOUS
  <2>2. Seq(S) \subseteq Seq(R)
    <3> HIDE DEF s, m, y
    <3>1. QED
      BY <2>1, WiderLists
  <2>3. p \in Seq(S)
    BY DEF Tree
  <2>4. QED
    BY <2>2, <2>3, LenProperties
<1>3. y = IF BehindIn(t, segs, p) THEN [p EXCEPT ![m] = Index(@.index - 1)] ELSE p
  BY DEF ShiftedIn
<1>4. BehindIn(t, segs, p) <=> IsPrefix(s, p) /\ p # s /\ p[m].index > i
  <2>1. Last(segs).index = i
    BY Indexes
  <2>2. QED
    BY <2>1 DEF BehindIn, Below
<1>5. IsPrefix(s, p) /\ p # s => m \in 1..Len(p) /\ \E j \in 0..(n - 1) : p[m] = Index(j)
  BY <1>1, SlotBelow
<1> HIDE DEF s, y, m
<1>6. CASE ~(IsPrefix(s, p) /\ p # s)
  <2>1. y = p
    BY <1>3, <1>4, <1>6
  <2>2. Moves(R, s, i, n, p, y)
    BY <1>2, <1>6, <2>1 DEF Moves
  <2>3. QED
    BY <2>2 DEF s, y
<1>7. ASSUME IsPrefix(s, p), p # s PROVE Moves(R, s, i, n, p, y)
  <2>1. PICK j \in 0..(n - 1) : p[m] = Index(j) /\ m \in 1..Len(p)
    BY <1>5, <1>7
  <2>2. p[m].index = j
    BY <2>1, Indexes
  <2>3. CASE j > i
    <3>1. y = [p EXCEPT ![m] = Index(j - 1)]
      BY <1>3, <1>4, <1>7, <2>2, <2>3
    <3>2. Index(j - 1) \in R
      <4>1. j - 1 \in Nat
        BY <2>3
      <4>2. QED
        BY <4>1
    <3> DEFINE e == Index(j - 1)
    <3>3. e \in R /\ y = [p EXCEPT ![m] = e] /\ p \in Seq(R)
      BY <1>2, <3>1, <3>2
    <3>4. After(j, i) = j - 1
      BY <2>3 DEF After
    <3> HIDE DEF e
    <3>5. y \in Seq(R) /\ Len(y) = Len(p) /\ (\A k \in 1..Len(p) : k # m => y[k] = p[k]) /\ y[m] = e
      BY <2>1, <3>3, ExceptSeq
    <3>6. QED
      BY <1>1, <1>7, <2>1, <3>4, <3>5 DEF Moves, e
  <2>4. CASE ~(j > i)
    <3>1. y = p
      BY <1>3, <1>4, <2>2, <2>4
    <3>2. After(j, i) = j
      BY <2>4 DEF After
    <3>3. QED
      BY <1>1, <1>2, <1>7, <2>1, <3>1, <3>2 DEF Moves
  <2>5. QED
    BY <2>3, <2>4
<1>8. QED
  BY <1>6, <1>7 DEF s, y

\* Two paths move to one only if both are there after the move.
LEMMA MovesApart ==
    ASSUME NEW S, NEW R, NEW s \in Seq(S), NEW i \in Nat, NEW n \in Nat, NEW y,
           NEW p \in Seq(S), Moves(R, s, i, n, p, y),
           NEW q \in Seq(S), Moves(R, s, i, n, q, y),
           IsPrefix(s, p) /\ p # s => p[Len(s) + 1] # Index(i),
           IsPrefix(s, q) /\ q # s => q[Len(s) + 1] # Index(i)
    PROVE  p = q
<1> DEFINE m == Len(s) + 1
           N == Len(p)
           low(x) == IsPrefix(s, x) /\ x # s
<1>1. Len(s) \in Nat /\ N \in Nat /\ Len(q) = N
  BY LenProperties DEF Moves
<1>2. \A k \in 1..N : k # m => p[k] = q[k]
  BY <1>1 DEF Moves
<1>3. IsPrefix(s, p) <=> IsPrefix(s, q)
  <2>1. \A k \in 1..Len(s) : Len(s) <= N => k \in 1..N /\ k # m
    BY <1>1
  <2> HIDE DEF m
  <2>2. \A x \in {p, q} : IsPrefix(s, x) <=> Len(s) <= N /\ \A k \in 1..Len(s) : s[k] = x[k]
    BY <1>1, PrefixPlaces
  <2>3. QED
    BY <1>2, <2>1, <2>2
<1>4. low(p) => m \in 1..N /\ \E j \in 0..(n - 1) : p[m] = Index(j) /\ y[m] = Index(After(j, i))
  BY DEF Moves
<1>5. low(q) => m \in 1..N /\ \E j \in 0..(n - 1) : q[m] = Index(j) /\ y[m] = Index(After(j, i))
  BY <1>1 DEF Moves
<1>6. low(p) <=> low(q)
  <2>1. m \in 1..N => p # s /\ q # s
    BY <1>1
  <2>2. QED
    BY <1>3, <1>4, <1>5, <2>1
<1>7. CASE ~low(p)
  BY <1>6, <1>7 DEF Moves
<1>8. ASSUME low(p) PROVE p = q
  <2>1. PICK j \in 0..(n - 1) : p[m] = Index(j) /\ y[m] = Index(After(j, i))
    BY <1>4, <1>8
  <2>2. PICK l \in 0..(n - 1) : q[m] = Index(l) /\ y[m] = Index(After(l, i))
    BY <1>5, <1>6, <1>8
  <2>3. After(j, i) = After(l, i) /\ j # i /\ l # i
    BY <1>6, <1>8, <2>1, <2>2, Indexes
  <2>4. j = l
    BY <2>3 DEF After
  <2> HIDE DEF m, low
  <2>5. \A k \in 1..N : p[k] = q[k]
    BY <1>2, <2>1, <2>2, <2>4
  <2>6. QED
    BY <1>1, <2>5, SeqEqual
<1>9. QED
  BY <1>7, <1>8

\* A path's parent moves with it.
LEMMA MovesFront ==
    ASSUME NEW S, NEW R, S \subseteq R, NEW s \in Seq(S), NEW i \in Nat, NEW n \in Nat,
           NEW p \in Seq(S), p # <<>>, NEW y, Moves(R, s, i, n, p, y),
           NEW z, Moves(R, s, i, n, Front(p), z)
    PROVE  /\ y # <<>> /\ Front(y) = z
           /\ Front(p) # s => Last(y) = Last(p)
           /\ Front(p) = s => \E j \in 0..(n - 1) : Last(p) = Index(j) /\ Last(y) = Index(After(j, i))
<1> DEFINE f == Front(p)
           g == Front(y)
           m == Len(s) + 1
           N == Len(p)
           low(x) == IsPrefix(s, x) /\ x # s
<1>1. /\ f \in Seq(S) /\ N \in Nat \ {0} /\ Len(f) = N - 1
      /\ (\A k \in 1..(N - 1) : f[k] = p[k]) /\ Last(p) = p[N]
  BY FrontAndLast
<1>2. y \in Seq(R) /\ Len(y) = N /\ Len(s) \in Nat /\ s \in Seq(S)
  BY LenProperties DEF Moves
<1>3. y # <<>>
  <2>1. Len(<<>>) = 0
    OBVIOUS
  <2>2. QED
    BY <1>1, <1>2, <2>1
<1>4. g \in Seq(R) /\ Len(g) = N - 1 /\ (\A k \in 1..(N - 1) : g[k] = y[k]) /\ Last(y) = y[N]
  <2> DEFINE e == Len(y)
  <2>1. g \in Seq(R) /\ Len(g) = e - 1 /\ (\A k \in 1..(e - 1) : g[k] = y[k]) /\ Last(y) = y[e]
    BY <1>2, <1>3, FrontAndLast
  <2>2. e = N
    BY <1>2
  <2> HIDE DEF e, g, N
  <2>3. QED
    BY <2>1, <2>2
<1>5. /\ IsPrefix(s, f) /\ f # s => Len(f) > Len(s) /\ f[m] = p[m]
      /\ f = s => Last(p) = p[m] /\ N = m
      /\ low(p) => IsPrefix(s, f) /\ N >= m
  BY StrictlyBelow
<1>6. /\ IsPrefix(s, p) <=> IsPrefix(s, f) \/ s = p
      /\ IsPrefix(s, s) /\ (s # <<>> => ~IsPrefix(s, Front(s)))
  BY PrefixFacts
<1>7. low(f) => low(p)
  BY <1>6
<1>8. f = s => low(p) /\ ~low(f)
  BY <1>6
<1>9. low(p) /\ f # s => low(f)
  BY <1>5
<1>10. \A k \in 1..N : k # m => y[k] = p[k]
  BY DEF Moves
<1>11. low(p) => m \in 1..N /\ \E j \in 0..(n - 1) : p[m] = Index(j) /\ y[m] = Index(After(j, i))
  BY DEF Moves
<1>12. z \in Seq(R) /\ Len(z) = N - 1 /\ (\A k \in 1..(N - 1) : k # m => z[k] = f[k])
  BY <1>1 DEF Moves
<1>13. low(f) => m \in 1..(N - 1) /\ \E j \in 0..(n - 1) : f[m] = Index(j) /\ z[m] = Index(After(j, i))
  BY <1>1 DEF Moves
<1>14. ~low(f) => z = f
  BY DEF Moves
<1>15. ~low(p) => y = p
  BY DEF Moves
<1> HIDE DEF low, m, f, g, N
<1>16. CASE ~low(p)
  <2>1. z = f /\ y = p /\ f # s
    BY <1>7, <1>8, <1>14, <1>15, <1>16
  <2>2. QED
    BY <1>3, <2>1 DEF f
<1>17. CASE f = s
  <2>1. PICK j \in 0..(n - 1) : p[m] = Index(j) /\ y[m] = Index(After(j, i))
    BY <1>8, <1>11, <1>17
  <2>2. N = m /\ Last(p) = Index(j) /\ Last(y) = Index(After(j, i)) /\ z = f
    BY <1>4, <1>5, <1>8, <1>14, <1>17, <2>1
  <2>3. \A k \in 1..(N - 1) : k \in 1..N /\ k # m
    BY <1>1, <2>2
  <2>4. \A k \in 1..(N - 1) : g[k] = f[k]
    BY <1>1, <1>4, <1>10, <2>3
  <2>5. f \in Seq(R)
    BY <1>12, <2>2
  <2>6. g = f
    BY <1>1, <1>4, <2>4, <2>5, SeqEqual
  <2>7. QED
    BY <1>3, <1>17, <2>2, <2>6 DEF f, g
<1>18. CASE low(p) /\ f # s
  <2>1. PICK j \in 0..(n - 1) : p[m] = Index(j) /\ y[m] = Index(After(j, i))
    BY <1>11, <1>18
  <2>2. PICK l \in 0..(n - 1) : f[m] = Index(l) /\ z[m] = Index(After(l, i))
    BY <1>9, <1>13, <1>18
  <2>3. m \in 1..(N - 1) /\ N \in 1..N /\ N # m /\ \A k \in 1..(N - 1) : k \in 1..N
    BY <1>1, <1>9, <1>13, <1>18
  <2>4. f[m] = p[m]
    BY <1>1, <2>3
  <2>5. j = l
    BY <2>1, <2>2, <2>4, Indexes
  <2>6. \A k \in 1..(N - 1) : g[k] = z[k]
    <3>1. ASSUME NEW k \in 1..(N - 1), k # m PROVE g[k] = z[k]
      BY <1>1, <1>4, <1>10, <1>12, <2>3, <3>1
    <3>2. g[m] = z[m]
      BY <1>4, <2>1, <2>2, <2>3, <2>5
    <3>3. QED
      BY <3>1, <3>2
  <2>7. g = z
    BY <1>4, <1>12, <2>6, SeqEqual
  <2>8. Last(y) = Last(p)
    BY <1>1, <1>4, <1>10, <2>3
  <2>9. QED
    BY <1>3, <1>18, <2>7, <2>8 DEF f, g
<1>19. QED
  BY <1>16, <1>17, <1>18

LEMMA NumbersAfter ==
    ASSUME NEW n \in Nat, NEW i \in 0..(n - 1)
    PROVE  /\ \A j \in 0..(n - 1) : j # i => After(j, i) \in 0..(n - 1 - 1)
           /\ \A k \in 0..(n - 1 - 1) : \E j \in 0..(n - 1) : j # i /\ After(j, i) = k
           /\ n - 1 \in Nat
<1>1. ASSUME NEW j \in 0..(n - 1), j # i PROVE After(j, i) \in 0..(n - 1 - 1)
  BY <1>1 DEF After
<1>2. ASSUME NEW k \in 0..(n - 1 - 1) PROVE \E j \in 0..(n - 1) : j # i /\ After(j, i) = k
  <2>1. CASE k < i
    <3>1. k \in 0..(n - 1) /\ k # i /\ After(k, i) = k
      BY <2>1 DEF After
    <3>2. QED
      BY <3>1
  <2>2. CASE ~(k < i)
    <3>1. k + 1 \in 0..(n - 1) /\ k + 1 # i /\ After(k + 1, i) = k
      BY <2>2 DEF After
    <3>2. QED
      BY <3>1
  <2>3. QED
    BY <2>1, <2>2
<1>3. QED
  BY <1>1, <1>2

\* Removing leaves a tree; behind a removed element the others move up.
LEMMA RemovedTree ==
    ASSUME NEW S, NEW t, Tree(S, t), NEW segs \in DOMAIN t, segs # <<>>
    PROVE  \E R : Tree(R, RemoveNode(t, segs))
<1> DEFINE s == Front(segs)
           m == Len(s) + 1
           R == S \union {Index(j) : j \in Nat}
           K == DOMAIN Without(t, segs)
           sh(p) == ShiftedIn(t, segs, p)
           u == RemoveNode(t, segs)
           low(p) == IsPrefix(s, p) /\ p # s
<1>1. segs \in Seq(S) /\ DOMAIN t \subseteq Seq(S) /\ <<>> \in DOMAIN t
      /\ s \in DOMAIN t /\ t[s] = Holder(Last(segs)) /\ s \in Seq(S)
  BY DEF Tree
<1>2. CASE IsKey(Last(segs))
  <2>1. u = Without(t, segs)
    BY <1>2 DEF RemoveNode
  <2>2. QED
    BY <1>1, <1>2, <2>1, WithoutTree
<1>3. CASE ~IsKey(Last(segs))
  <2>1. PICK n \in Nat : Slots(t, s) = Row(n)
    BY <1>1, <1>3 DEF Tree, Holder
  <2>2. Last(segs) \in Row(n)
    BY <1>1, <2>1 DEF Slots, ChildPaths
  <2>3. PICK i \in 0..(n - 1) : Last(segs) = Index(i)
    BY <2>2 DEF Row
  <2>4. i \in Nat /\ S \subseteq R
    OBVIOUS
  <2>5. K = {p \in DOMAIN t : ~IsPrefix(segs, p)}
    BY DEF Without, Below, Restrict
  <2>6. u = [q \in {sh(p) : p \in K} |-> t[CHOOSE p \in K : sh(p) = q]]
    BY <1>3 DEF RemoveNode, ShiftedIn, BehindIn
  <2>7. ASSUME NEW p \in DOMAIN t PROVE Moves(R, s, i, n, p, sh(p)) /\ p \in Seq(S)
    <3>1. R = S \union {Index(j) : j \in Nat}
      OBVIOUS
    <3> HIDE DEF R
    <3>2. QED
      BY <1>1, <2>1, <2>3, <2>4, <3>1, ShiftMoves
  <2>8. ASSUME NEW p \in K, low(p) PROVE p[m] # Index(i)
    <3>1. p \in DOMAIN t /\ ~IsPrefix(segs, p) /\ p \in Seq(S)
      BY <2>5, <2>7, <2>8
    <3>2. m \in 1..Len(p)
      BY <2>8, <3>1, <2>7 DEF Moves
    <3>3. Len(segs) = m /\ (\A k \in 1..(m - 1) : s[k] = segs[k]) /\ Last(segs) = segs[m]
          /\ Len(s) = m - 1 /\ m \in Nat /\ Len(p) \in Nat
      <4> DEFINE e == Len(segs)
      <4>1. e \in Nat \ {0} /\ Len(s) = e - 1 /\ (\A k \in 1..(e - 1) : s[k] = segs[k])
            /\ Last(segs) = segs[e]
        BY <1>1, FrontAndLast
      <4>2. Len(p) \in Nat
        BY <3>1, LenProperties
      <4>3. e = m
        <5> HIDE DEF e
        <5>1. QED
          BY <4>1
      <4> HIDE DEF e, s, m
      <4>4. QED
        BY <4>1, <4>2, <4>3 DEF e
    <3>4. IsPrefix(s, p) => \A k \in 1..(m - 1) : s[k] = p[k]
      BY <1>1, <3>1, <3>3, PrefixPlaces
    <3> HIDE DEF m, s
    <3>5. ASSUME p[m] = Index(i) PROVE IsPrefix(segs, p)
      <4>1. \A k \in 1..m : segs[k] = p[k]
        <5>1. \A k \in 1..m : k \in 1..(m - 1) \/ k = m
          BY <3>3
        <5>2. QED
          BY <2>3, <2>8, <3>3, <3>4, <3>5, <5>1
      <4>2. m <= Len(p)
        BY <3>2
      <4>3. QED
        BY <1>1, <3>1, <3>3, <4>1, <4>2, PrefixPlaces
    <3>6. QED
      BY <3>1, <3>5
  <2>9. ASSUME NEW p \in K, NEW q \in K, sh(p) = sh(q) PROVE p = q
    <3>1. p \in DOMAIN t /\ q \in DOMAIN t /\ Moves(R, s, i, n, p, sh(p)) /\ Moves(R, s, i, n, q, sh(p))
          /\ p \in Seq(S) /\ q \in Seq(S)
      BY <2>5, <2>7, <2>9
    <3>2. (low(p) => p[m] # Index(i)) /\ (low(q) => q[m] # Index(i))
      BY <2>8
    <3> DEFINE y == sh(p)
    <3>3. Moves(R, s, i, n, p, y) /\ Moves(R, s, i, n, q, y)
      BY <3>1
    <3> HIDE DEF R, s, K, sh, y
    <3>4. QED
      BY <1>1, <2>4, <3>1, <3>2, <3>3, MovesApart
  <2>10. ASSUME NEW p \in K, p # <<>>
         PROVE  /\ Front(p) \in K /\ t[Front(p)] = Holder(Last(p))
                /\ sh(p) # <<>> /\ Front(sh(p)) = sh(Front(p))
                /\ Front(p) # s => Last(sh(p)) = Last(p)
                /\ Front(p) = s => \E j \in 0..(n - 1) :
                      j # i /\ Last(p) = Index(j) /\ Last(sh(p)) = Index(After(j, i))
    <3> DEFINE f == Front(p)
               y == sh(p)
               z == sh(f)
    <3>1. p \in DOMAIN t /\ ~IsPrefix(segs, p) /\ p \in Seq(S) /\ Moves(R, s, i, n, p, y)
      BY <2>5, <2>7
    <3>2. f \in DOMAIN t /\ t[f] = Holder(Last(p))
      BY <2>10, <3>1 DEF Tree
    <3>3. f \in K
      BY <1>1, <2>5, <2>10, <3>1, <3>2, PrefixFacts
    <3>4. Moves(R, s, i, n, f, z)
      BY <2>7, <3>2
    <3>5. f = s => low(p) /\ Last(p) = p[m]
      <4>1. f = s => IsPrefix(s, p) /\ Last(p) = p[m] /\ Len(p) = m
        BY <1>1, <2>10, <3>1, PrefixFacts, StrictlyBelow
      <4>2. f = s => p # s
        <5>1. Len(s) \in Nat
          BY <1>1, LenProperties
        <5>2. Len(s) # m
          BY <5>1
        <5>3. QED
          BY <4>1, <5>2
      <4>3. QED
        BY <4>1, <4>2
    <3>6. f = s => Last(p) # Index(i)
      BY <2>8, <3>5
    <3>7. /\ y # <<>> /\ Front(y) = z
          /\ f # s => Last(y) = Last(p)
          /\ f = s => \E j \in 0..(n - 1) : Last(p) = Index(j) /\ Last(y) = Index(After(j, i))
      <4> HIDE DEF R, s, K, sh, y, z
      <4>1. QED
        BY <1>1, <2>4, <2>10, <3>1, <3>4, MovesFront DEF f
    <3> HIDE DEF R, s, K, sh, f
    <3>8. QED
      BY <3>2, <3>3, <3>6, <3>7 DEF f
  <2>11. <<>> \in K /\ s \in K /\ sh(<<>>) = <<>> /\ sh(s) = s
    <3>1. <<>> \in K /\ s \in K
      BY <1>1, <2>5, PrefixFacts
    <3>2. IsPrefix(s, <<>>) => s = <<>>
      BY <1>1, PrefixFacts
    <3>3. sh(<<>>) = <<>> /\ sh(s) = s
      BY <1>1, <2>7, <3>2 DEF Moves
    <3>4. QED
      BY <3>1, <3>3
  <2> HIDE DEF sh, K, u
  <2>12. /\ u = [q \in DOMAIN u |-> u[q]]
         /\ \A q : q \in DOMAIN u <=> \E p \in K : q = sh(p)
         /\ \A p \in K : u[sh(p)] = t[p]
    <3>1. DOMAIN u = {sh(p) : p \in K} /\ u = [q \in DOMAIN u |-> u[q]]
      BY <2>6
    <3>2. ASSUME NEW p \in K PROVE u[sh(p)] = t[p]
      <4> DEFINE q == sh(p)
                 x == CHOOSE x \in K : sh(x) = q
      <4>1. q \in {sh(a) : a \in K}
        OBVIOUS
      <4>2. x \in K /\ sh(x) = q
        OBVIOUS
      <4>3. u[q] = t[x]
        BY <2>6, <4>1
      <4> HIDE DEF x
      <4>4. x = p
        BY <2>9, <4>2
      <4>5. QED
        BY <4>3, <4>4
    <3>3. QED
      BY <3>1, <3>2
  <2>13. DOMAIN u \subseteq Seq(R)
    BY <2>5, <2>7, <2>12 DEF Moves
  <2> HIDE DEF R, s
  <2>14. <<>> \in DOMAIN u
    BY <2>11, <2>12
  <2>15. \A q \in DOMAIN u : q # <<>> => Front(q) \in DOMAIN u /\ u[Front(q)] = Holder(Last(q))
    <3>1. ASSUME NEW q \in DOMAIN u, q # <<>>
          PROVE  Front(q) \in DOMAIN u /\ u[Front(q)] = Holder(Last(q))
      <4>1. PICK p \in K : q = sh(p)
        BY <2>12, <3>1
      <4>2. p # <<>>
        BY <2>11, <3>1, <4>1
      <4>3. Front(p) \in K /\ Front(q) = sh(Front(p)) /\ t[Front(p)] = Holder(Last(p))
        BY <2>10, <4>1, <4>2
      <4>4. Holder(Last(p)) = Holder(Last(q))
        BY <2>10, <4>1, <4>2, Indexes
      <4>5. QED
        BY <2>12, <4>3, <4>4
    <3>2. QED
      BY <3>1
  <2>16. ASSUME NEW q \in DOMAIN u, u[q] = "array" PROVE \E k \in Nat : Slots(u, q) = Row(k)
    <3>1. PICK p \in K : q = sh(p)
      BY <2>12, <2>16
    <3>2. t[p] = "array" /\ p \in DOMAIN t /\ ~IsPrefix(segs, p)
      BY <2>5, <2>12, <2>16, <3>1
    <3>3. ASSUME NEW x \in ChildPaths(u, q)
          PROVE  \E c \in K : c # <<>> /\ Front(c) = p /\ x = sh(c)
      <4>1. x \in DOMAIN u /\ x # <<>> /\ Front(x) = q
        BY <3>3 DEF ChildPaths
      <4>2. PICK c \in K : x = sh(c)
        BY <2>12, <4>1
      <4>3. c # <<>>
        BY <2>11, <4>1, <4>2
      <4>4. Front(c) \in K /\ sh(Front(c)) = sh(p)
        BY <2>10, <3>1, <4>1, <4>2, <4>3
      <4>5. Front(c) = p
        BY <2>9, <4>4
      <4>6. QED
        BY <4>2, <4>3, <4>5
    <3>4. ASSUME NEW c \in K, c # <<>>, Front(c) = p PROVE sh(c) \in ChildPaths(u, q)
      <4>1. sh(c) \in DOMAIN u /\ sh(c) # <<>> /\ Front(sh(c)) = q
        BY <2>10, <2>12, <3>1, <3>4
      <4>2. QED
        BY <4>1 DEF ChildPaths
    <3>5. ASSUME NEW c \in ChildPaths(t, p), c # segs PROVE c \in K /\ c # <<>> /\ Front(c) = p
      <4>1. c \in DOMAIN t /\ c # <<>> /\ Front(c) = p /\ c \in Seq(S)
        BY <1>1, <3>5 DEF ChildPaths
      <4>2. ~IsPrefix(segs, c)
        BY <1>1, <3>2, <3>5, <4>1, PrefixFacts
      <4>3. QED
        BY <2>5, <4>1, <4>2
    <3>6. CASE p # s
      <4>1. PICK k \in Nat : Slots(t, p) = Row(k)
        BY <3>2 DEF Tree
      <4>2. ASSUME NEW seg \in Slots(u, q) PROVE seg \in Slots(t, p)
        <5>1. PICK x \in ChildPaths(u, q) : seg = Last(x)
          BY <4>2 DEF Slots
        <5>2. PICK c \in K : c # <<>> /\ Front(c) = p /\ x = sh(c)
          BY <3>3
        <5>3. seg = Last(c) /\ c \in DOMAIN t
          BY <2>5, <2>10, <3>6, <5>1, <5>2
        <5>4. QED
          BY <5>2, <5>3 DEF Slots, ChildPaths
      <4>3. ASSUME NEW seg \in Slots(t, p) PROVE seg \in Slots(u, q)
        <5>1. PICK c \in ChildPaths(t, p) : seg = Last(c)
          BY <4>3 DEF Slots
        <5>2. c # segs
          BY <3>6, <5>1 DEF ChildPaths, s
        <5>3. c \in K /\ c # <<>> /\ Front(c) = p
          BY <3>5, <5>2
        <5>4. sh(c) \in ChildPaths(u, q) /\ Last(sh(c)) = seg
          BY <2>10, <3>4, <3>6, <5>1, <5>3
        <5>5. QED
          BY <5>4 DEF Slots
      <4>4. Slots(u, q) = Slots(t, p)
        BY <4>2, <4>3
      <4>5. QED
        BY <4>1, <4>4
    <3>7. CASE p = s
      <4>1. n - 1 \in Nat
        BY <2>4, NumbersAfter
      <4>2. ASSUME NEW seg \in Slots(u, q) PROVE seg \in Row(n - 1)
        <5>1. PICK x \in ChildPaths(u, q) : seg = Last(x)
          BY <4>2 DEF Slots
        <5>2. PICK c \in K : c # <<>> /\ Front(c) = p /\ x = sh(c)
          BY <3>3
        <5>3. PICK j \in 0..(n - 1) : j # i /\ seg = Index(After(j, i))
          BY <2>10, <3>7, <5>1, <5>2
        <5>4. After(j, i) \in 0..(n - 1 - 1)
          BY <5>3, NumbersAfter
        <5>5. QED
          BY <5>3, <5>4 DEF Row
      <4>3. ASSUME NEW seg \in Row(n - 1) PROVE seg \in Slots(u, q)
        <5>1. PICK k \in 0..(n - 1 - 1) : seg = Index(k)
          BY <4>3 DEF Row
        <5>2. PICK j \in 0..(n - 1) : j # i /\ After(j, i) = k
          BY <5>1, NumbersAfter
        <5>3. Index(j) \in Slots(t, s)
          BY <2>1, <5>2 DEF Row
        <5>4. PICK c \in ChildPaths(t, s) : Last(c) = Index(j)
          BY <5>3 DEF Slots
        <5>5. c # segs
          BY <2>3, <5>2, <5>4, Indexes
        <5>6. c \in K /\ c # <<>> /\ Front(c) = p
          BY <3>5, <3>7, <5>4, <5>5
        <5>7. PICK l \in 0..(n - 1) : Last(c) = Index(l) /\ Last(sh(c)) = Index(After(l, i))
          BY <2>10, <3>7, <5>6
        <5>8. l = j
          BY <5>4, <5>7, Indexes
        <5>9. sh(c) \in ChildPaths(u, q) /\ Last(sh(c)) = seg
          BY <3>4, <5>1, <5>2, <5>6, <5>7, <5>8
        <5>10. QED
          BY <5>9 DEF Slots
      <4>4. Slots(u, q) = Row(n - 1)
        BY <4>2, <4>3
      <4> DEFINE k == n - 1
      <4>5. k \in Nat /\ Slots(u, q) = Row(k)
        BY <4>1, <4>4
      <4> HIDE DEF k
      <4>6. QED
        BY <4>5
    <3>8. QED
      BY <3>6, <3>7
  <2>17. Tree(R, u)
    BY <2>12, <2>13, <2>14, <2>15, <2>16 DEF Tree
  <2>18. QED
    BY <2>17 DEF u
<1>4. QED
  BY <1>2, <1>3

-----------------------------------------------------------------------------
(* Paths that are parsed *)

\* Every segment is a key or the number of an element.
IsSegment(seg) == IsKey(seg) \/ \E i \in Nat : seg = Index(i)
IsPath(segs) == \E S : segs \in Seq(S) /\ \A seg \in S : IsSegment(seg)
IsParse(p) == p = [ok |-> p.ok, segs |-> p.segs, at |-> p.at] /\ IsPath(p.segs)

LEMMA BracketSegments == \A inner : \A s \in BracketSegment(inner) : IsSegment(s)
<1>1. \A name : IsKey(Key(name))
  BY Indexes
<1>2. \A word \in DOMAIN Numerals : Numerals[word] \in Nat
  BY NumeralsAssumption DEF NumeralsAssumption
<1>3. QED
  BY <1>1, <1>2 DEF BracketSegment, IsSegment

LEMMA LongerPath ==
    ASSUME NEW segs, IsPath(segs), NEW seg, IsSegment(seg)
    PROVE  IsPath(Append(segs, seg))
<1>1. PICK S : segs \in Seq(S) /\ \A s \in S : IsSegment(s)
  BY DEF IsPath
<1> DEFINE R == S \union {seg}
<1>2. S \subseteq R /\ seg \in R /\ \A s \in R : IsSegment(s)
  BY <1>1
<1> HIDE DEF R
<1>3. segs \in Seq(R)
  BY <1>1, <1>2, WiderLists
<1>4. Append(segs, seg) \in Seq(R)
  BY <1>2, <1>3, AppendProperties
<1>5. QED
  BY <1>2, <1>4 DEF IsPath

LEMMA ParseOf ==
    ASSUME NEW segs, IsPath(segs), NEW ok, NEW at
    PROVE  IsParse([ok |-> ok, segs |-> segs, at |-> at])
BY DEF IsParse

LEMMA ParseTurn ==
    ASSUME NEW text, NEW p, IsParse(p)
    PROVE  IsParse(ParseSegment(text, p))
<1> DEFINE next == ParseSegment(text, p)
<1>1. \/ next = p
      \/ next = [p EXCEPT !.ok = FALSE]
      \/ \E seg, at : IsSegment(seg) /\ next = [ok |-> TRUE, segs |-> Append(p.segs, seg), at |-> at]
  <2> DEFINE i == p.at
             n == Len(text)
             KeyEnd(from) == CHOOSE j \in from..(n + 1) :
                                /\ j = n + 1 \/ text[j] \in {".", "["}
                                /\ \A k \in from..(j - 1) : text[k] \notin {".", "["}
             closing == {j \in i..n : text[j] = "]" /\ \A k \in i..(j - 1) : text[k] # "]"}
             close == CHOOSE j \in closing : TRUE
             inside == BracketSegment(Trimmed(SubSeq(text, i + 1, close - 1)))
             Take(seg, at) == [ok |-> TRUE, segs |-> Append(p.segs, seg), at |-> at]
             KeyFrom(from) == Take(Key(SubSeq(text, from, KeyEnd(from) - 1)), KeyEnd(from))
             failed == [p EXCEPT !.ok = FALSE]
             key == CHOOSE s \in inside : TRUE
  <2>1. next = CASE ~p.ok \/ i > n -> p
                 [] p.ok /\ i <= n /\ text[i] = "." ->
                       IF KeyEnd(i + 1) = i + 1 THEN failed ELSE KeyFrom(i + 1)
                 [] p.ok /\ i <= n /\ text[i] = "[" ->
                       IF closing = {} \/ inside = {} THEN failed ELSE Take(key, close + 1)
                 [] OTHER -> IF p.segs = <<>> THEN KeyFrom(i) ELSE failed
    BY DEF ParseSegment
  <2>2. inside # {} => IsSegment(key)
    BY BracketSegments
  <2>3. \A from : \E seg, at : IsSegment(seg) /\ KeyFrom(from) = Take(seg, at)
    <3>1. \A name : IsSegment(Key(name))
      BY Indexes DEF IsSegment
    <3> HIDE DEF KeyEnd
    <3>2. QED
      BY <3>1
  <2> HIDE DEF KeyEnd, KeyFrom, closing, close, inside, key, i, n, next
  <2>4. \/ next = p \/ next = failed \/ \E from : next = KeyFrom(from)
        \/ next = Take(key, close + 1) /\ inside # {}
    BY <2>1
  <2>5. QED
    BY <2>2, <2>3, <2>4
<1> HIDE DEF next
<1>2. next = [p EXCEPT !.ok = FALSE] => next = [ok |-> FALSE, segs |-> p.segs, at |-> p.at]
  BY DEF IsParse
<1>3. \/ next = p
      \/ \E segs, ok, at : IsPath(segs) /\ next = [ok |-> ok, segs |-> segs, at |-> at]
  <2>1. IsPath(p.segs)
    BY DEF IsParse
  <2>2. \A seg : IsSegment(seg) => IsPath(Append(p.segs, seg))
    BY <2>1, LongerPath
  <2>3. QED
    BY <1>1, <1>2, <2>1, <2>2
<1>4. IsParse(next)
  BY <1>3, ParseOf
<1>5. QED
  BY <1>4 DEF next
LEMMA TrimmedList ==
    ASSUME NEW S, NEW path \in Seq(S)
    PROVE  Trimmed(path) \in Seq(S)
<1> DEFINE inked == {i \in DOMAIN path : path[i] # " "}
           m == CHOOSE i \in inked : \A j \in inked : i <= j
           n == CHOOSE i \in inked : \A j \in inked : i >= j
<1>1. Len(path) \in Nat /\ inked \subseteq 1..Len(path)
  BY LenProperties
<1>2. Trimmed(path) = IF inked = {} THEN <<>> ELSE SubSeq(path, m, n)
  BY DEF Trimmed
<1>3. <<>> \in Seq(S)
  OBVIOUS
<1>4. CASE inked # {}
  <2> HIDE DEF inked
  <2>0. 1 \in Int /\ Len(path) \in Int /\ inked \subseteq Nat /\ inked # {} /\ inked \subseteq 1..Len(path)
    BY <1>1, <1>4
  <2>1. \E i \in inked : \A j \in inked : i <= j
    BY <2>0, HasSmallest
  <2>2. \E i \in inked : \A j \in inked : i >= j
    <3>1. Max(inked) \in inked /\ \A j \in inked : j <= Max(inked)
      BY <2>0, BoundedMax, Zenon
    <3>2. PICK last \in inked : \A j \in inked : j <= last
      BY <3>1, Zenon
    <3>3. last \in Nat /\ \A j \in inked : j \in Nat
      BY <2>0
    <3>4. \A j \in inked : last >= j
      BY <3>2, <3>3
    <3>5. QED
      BY <3>4
  <2>3. m \in inked /\ n \in inked
    BY <2>1, <2>2
  <2> HIDE DEF m, n
  <2>4. m \in Int /\ n \in Int /\ 1 <= m /\ n <= Len(path)
    BY <1>1, <2>3
  <2>5. SubSeq(path, m, n) \in Seq(S)
    BY <2>4, PartOfList
  <2>6. QED
    BY <1>2, <1>4, <2>5
<1>5. QED
  BY <1>2, <1>3, <1>4

\* Whatever parse makes of a text, its segments are keys and numbers.
LEMMA ParsedSegments ==
    ASSUME NEW text, Len(text) \in Nat, ParseSegments(text).ok
    PROVE  IsPath(ParseSegments(text).segs)
<1> DEFINE n == Len(text)
           job == [of |-> "text", list |-> text]
           start == [ok |-> TRUE, segs |-> <<>>, at |-> IF text[1] = "$" THEN 2 ELSE 1]
           P(g) == g = [k \in 0..n |-> IF k = 0 THEN start ELSE ParseSegment(text, g[k - 1])]
           g == CHOOSE h : P(h)
           end == g[n]
<1>1. \A x, k : Do(job, x, k) = ParseSegment(text, x)
  BY DEF Do
<1>2. P(g)
  <2>1. \E h : P(h)
    <3> HIDE DEF job, n, start
    <3>1. PICK h : Steps(job, start, n, h)
      <4>1. n \in Nat
        BY DEF n
      <4>2. QED
        BY <4>1, StepsExist
    <3>2. ASSUME NEW k \in 0..n
          PROVE  h[k] = IF k = 0 THEN start ELSE ParseSegment(text, h[k - 1])
      <4>1. k # 0 => k \in 1..n
        BY DEF n
      <4>2. k # 0 => h[k] = Do(job, h[k - 1], k)
        BY <3>1, <4>1 DEF Steps
      <4>3. h[0] = start
        BY <3>1 DEF Steps
      <4>4. QED
        BY <1>1, <4>2, <4>3
    <3>3. h = [k \in 0..n |-> h[k]]
      BY <3>1 DEF Steps
    <3>4. QED
      BY <3>2, <3>3
  <2> HIDE DEF P
  <2>2. QED
    BY <2>1
<1>3. ParseSegments(text) = IF end.ok THEN Parsed(end.segs) ELSE Unparsed
  BY Zenon DEF ParseSegments
<1>4. IsParse(start)
  <2>1. IsPath(<<>>)
    <3>1. <<>> \in Seq({}) /\ \A s \in {} : IsSegment(s)
      OBVIOUS
    <3>2. QED
      BY <3>1 DEF IsPath
  <2> DEFINE first == IF text[1] = "$" THEN 2 ELSE 1
  <2> HIDE DEF first
  <2>2. IsParse([ok |-> TRUE, segs |-> <<>>, at |-> first])
    BY <2>1, ParseOf
  <2>3. QED
    BY <2>2 DEF first
<1>5. IsParse(end)
  <2> DEFINE T == {k \in 0..n : IsParse(g[k])}
  <2> HIDE DEF g, start
  <2>1. n \in Nat
    OBVIOUS
  <2> HIDE DEF n
  <2>2. g[0] = start /\ \A k \in 1..n : g[k] = ParseSegment(text, g[k - 1])
    BY <1>2, <2>1
  <2>3. 0 \in T
    BY <1>4, <2>1, <2>2
  <2>4. ASSUME NEW k \in 1..n, k - 1 \in T PROVE k \in T
    <3>1. IsParse(g[k - 1]) /\ k \in 0..n
      BY <2>1, <2>4
    <3>2. IsParse(ParseSegment(text, g[k - 1]))
      BY <3>1, ParseTurn
    <3>3. QED
      BY <2>2, <3>1, <3>2
  <2> HIDE DEF T
  <2>5. 0..n \subseteq T
    BY <2>1, <2>3, <2>4, SetInduction
  <2>6. n \in T
    BY <2>1, <2>5
  <2>7. QED
    BY <2>6 DEF T
<1> HIDE DEF end
<1>6. end.ok
  <2>1. ~Unparsed.ok
    BY DEF Unparsed
  <2>2. QED
    BY <1>3, <2>1
<1>7. ParseSegments(text).segs = end.segs
  BY <1>3, <1>6 DEF Parsed
<1>8. QED
  BY <1>5, <1>7 DEF IsParse

LEMMA ParsedPath ==
    ASSUME NEW path, path \in Seq(Range(path)), ParsePath(path).ok
    PROVE  IsPath(ParsePath(path).segs) /\ ParsePath(path).segs # <<>>
<1> DEFINE text == Trimmed(path)
           parsed == ParseSegments(text)
<1>1. ~Unparsed.ok
  BY DEF Unparsed
<1>2. Len(text) \in Nat
  <2> DEFINE S == Range(path)
  <2>1. path \in Seq(S)
    OBVIOUS
  <2> HIDE DEF S
  <2>2. text \in Seq(S)
    BY <2>1, TrimmedList
  <2> HIDE DEF text
  <2>3. QED
    BY <2>2, LenProperties
<1>3. \/ ParsePath(path) = Unparsed
      \/ ParsePath(path) = parsed /\ parsed.segs # <<>>
  BY DEF ParsePath
<1> HIDE DEF text
<1>4. parsed.ok => IsPath(parsed.segs)
  BY <1>2, ParsedSegments
<1> HIDE DEF parsed
<1>5. QED
  BY <1>1, <1>3, <1>4

\* The way to a path.
LEMMA OnTheWay ==
    ASSUME NEW S, NEW segs \in Seq(S), NEW k \in 1..Len(segs)
    PROVE  /\ SubSeq(segs, 1, k) \in Seq(S) /\ SubSeq(segs, 1, k) # <<>>
           /\ Front(SubSeq(segs, 1, k)) = SubSeq(segs, 1, k - 1)
           /\ Last(SubSeq(segs, 1, k)) = segs[k] /\ segs[k] \in S
           /\ Append(SubSeq(segs, 1, k - 1), segs[k]) = SubSeq(segs, 1, k)
           /\ SubSeq(segs, 1, k - 1) \in Seq(S)
           /\ IsPrefix(SubSeq(segs, 1, k), segs)
<1> DEFINE j == k - 1
           x == SubSeq(segs, 1, k)
           f == SubSeq(segs, 1, j)
<1>1. Len(segs) \in Nat /\ k \in Nat \ {0} /\ j \in Nat /\ j = k - 1 /\ k <= Len(segs)
      /\ segs[k] \in S
  BY LenProperties
<1>2. \A i \in 1..Len(segs) : segs[i] \in S
  BY LenProperties
<1> HIDE DEF j
<1>3. x \in Seq(S) /\ Len(x) = k /\ \A i \in 1..k : x[i] = segs[i]
  <2>1. 1 \in Int /\ k \in Int /\ \A i \in 1..k : segs[i] \in S
    BY <1>1, <1>2
  <2>2. /\ x \in Seq(S) /\ Len(x) = IF 1 <= k THEN k - 1 + 1 ELSE 0
        /\ \A i \in 1..(k - 1 + 1) : x[i] = segs[1 + i - 1]
    BY <2>1, SubSeqProperties
  <2> HIDE DEF x
  <2>3. QED
    BY <1>1, <2>2
<1>4. f \in Seq(S) /\ Len(f) = j /\ \A i \in 1..j : f[i] = segs[i]
  <2>1. 1 \in Int /\ j \in Int /\ \A i \in 1..j : segs[i] \in S
    BY <1>1, <1>2
  <2>2. /\ f \in Seq(S) /\ Len(f) = IF 1 <= j THEN j - 1 + 1 ELSE 0
        /\ \A i \in 1..(j - 1 + 1) : f[i] = segs[1 + i - 1]
    BY <2>1, SubSeqProperties
  <2> HIDE DEF f
  <2>3. QED
    BY <1>1, <2>2
<1> HIDE DEF x, f
<1>5. x # <<>>
  BY <1>1, <1>3
<1>6. Last(x) = x[k] /\ Front(x) \in Seq(S) /\ Len(Front(x)) = k - 1
      /\ \A i \in 1..(k - 1) : Front(x)[i] = x[i]
  BY <1>3, <1>5, FrontAndLast
<1>7. Front(x) = f
  <2> DEFINE y == Front(x)
  <2> HIDE DEF y
  <2>1. y \in Seq(S) /\ Len(y) = j /\ \A i \in 1..j : y[i] = x[i]
    BY <1>1, <1>6 DEF y
  <2>2. \A i \in 1..j : y[i] = f[i]
    BY <1>1, <1>3, <1>4, <2>1
  <2>3. y = f
    BY <1>4, <2>1, <2>2, SeqEqual
  <2>4. QED
    BY <2>3 DEF y
<1>8. Append(f, segs[k]) = x
  <2> DEFINE y == Append(f, segs[k])
  <2>1. y \in Seq(S) /\ Len(y) = j + 1 /\ (\A i \in 1..j : y[i] = f[i]) /\ y[j + 1] = segs[k]
    BY <1>1, <1>4, AppendProperties
  <2> HIDE DEF y
  <2>2. Len(y) = k /\ \A i \in 1..k : y[i] = x[i]
    BY <1>1, <1>3, <1>4, <2>1
  <2>3. y = x
    BY <1>3, <2>1, <2>2, SeqEqual
  <2>4. QED
    BY <2>3 DEF y
<1>9. IsPrefix(x, segs)
  BY <1>1, <1>3, PrefixPlaces
<1>10. QED
  BY <1>1, <1>3, <1>4, <1>5, <1>6, <1>7, <1>8, <1>9 DEF x, f, j

\* u is t and empty objects on the way to segs.
Grown(segs, t, u) ==
    /\ \A p \in DOMAIN t : p \in DOMAIN u /\ u[p] = t[p]
    /\ \A p \in DOMAIN u \ DOMAIN t : u[p] = "object" /\ IsPrefix(p, segs)

\* set_path after k segments.
Walked(S, t, segs, create, k, w) ==
    /\ w = [tree |-> w.tree, open |-> w.open]
    /\ Tree(S, w.tree)
    /\ Grown(segs, t, w.tree)
    /\ w.open => SubSeq(segs, 1, k) \in DOMAIN w.tree
    /\ ~create => w.tree = t

LEMMA WalkedOf ==
    ASSUME NEW S, NEW t, NEW segs, NEW create, NEW k, NEW u, NEW open,
           Tree(S, u), Grown(segs, t, u), open => SubSeq(segs, 1, k) \in DOMAIN u,
           ~create => u = t
    PROVE  Walked(S, t, segs, create, k, [tree |-> u, open |-> open])
BY DEF Walked

LEMMA WalkWith ==
    ASSUME NEW w, w = [tree |-> w.tree, open |-> w.open]
    PROVE  \A v : /\ [w EXCEPT !.open = v] = [tree |-> w.tree, open |-> v]
                  /\ [w EXCEPT !.tree = v] = [tree |-> v, open |-> w.open]
<1> DEFINE u == w.tree
           o == w.open
<1>1. w = [tree |-> u, open |-> o]
  OBVIOUS
<1> HIDE DEF u, o
<1>2. ASSUME NEW v PROVE [w EXCEPT !.open = v] = [tree |-> u, open |-> v]
  BY <1>1
<1>3. ASSUME NEW v PROVE [w EXCEPT !.tree = v] = [tree |-> v, open |-> o]
  BY <1>1
<1>4. QED
  BY <1>2, <1>3 DEF u, o

LEMMA DescendWalks ==
    ASSUME NEW S, NEW t, NEW segs \in Seq(S), NEW create, NEW k \in 1..Len(segs),
           IsSegment(segs[k]),
           NEW w, Walked(S, t, segs, create, k - 1, w), w.open
    PROVE  Walked(S, t, segs, create, k, Descend(w, SubSeq(segs, 1, k - 1), segs[k], create))
<1> DEFINE x == SubSeq(segs, 1, k)
           f == SubSeq(segs, 1, k - 1)
           seg == segs[k]
           u == w.tree
           next == Descend(w, f, seg, create)
           planted == Insert(u, x, EmptyObject)
<1>1. /\ x \in Seq(S) /\ x # <<>> /\ Front(x) = f /\ Last(x) = seg /\ seg \in S
      /\ Append(f, seg) = x /\ f \in Seq(S) /\ IsPrefix(x, segs)
  BY OnTheWay
<1>2. /\ w = [tree |-> u, open |-> w.open] /\ Tree(S, u) /\ Grown(segs, t, u)
      /\ f \in DOMAIN u /\ (~create => u = t)
  BY DEF Walked
<1>3. next = IF IsKey(seg)
             THEN IF ~IsObject(u, f) THEN [w EXCEPT !.open = FALSE]
                  ELSE IF x \in DOMAIN u THEN w
                  ELSE IF create THEN [w EXCEPT !.tree = planted]
                  ELSE [w EXCEPT !.open = FALSE]
             ELSE [w EXCEPT !.open = HasIndex(u, f, seg.index)]
  BY <1>1 DEF Descend
<1>4. w.open = TRUE \/ w.open # TRUE
  OBVIOUS
<1> HIDE DEF next, planted, f, seg, u
<1>5. /\ [w EXCEPT !.open = FALSE] = [tree |-> u, open |-> FALSE]
      /\ [w EXCEPT !.tree = planted] = [tree |-> planted, open |-> w.open]
      /\ [w EXCEPT !.open = HasIndex(u, f, seg.index)] =
            [tree |-> u, open |-> HasIndex(u, f, seg.index)]
  <2>1. \A v : /\ [w EXCEPT !.open = v] = [tree |-> w.tree, open |-> v]
               /\ [w EXCEPT !.tree = v] = [tree |-> v, open |-> w.open]
    BY <1>2, WalkWith DEF u
  <2>2. QED
    BY <2>1, Zenon DEF u
<1>6. CASE next = [tree |-> u, open |-> FALSE]
  <2>1. Walked(S, t, segs, create, k, [tree |-> u, open |-> FALSE])
    BY <1>2, WalkedOf
  <2>2. QED
    BY <1>6, <2>1 DEF next, f, seg
<1>7. CASE next = w /\ x \in DOMAIN u
  <2>1. Walked(S, t, segs, create, k, [tree |-> u, open |-> w.open])
    BY <1>2, <1>7, WalkedOf DEF x
  <2>2. QED
    BY <1>2, <1>7, <2>1 DEF next, f, seg
<1>8. CASE /\ next = [tree |-> planted, open |-> w.open] /\ create
           /\ IsKey(seg) /\ IsObject(u, f) /\ x \notin DOMAIN u
  <2> HIDE DEF x
  <2>1. Tree(S, planted) /\ IsPlanted(u, x, planted)
    <3>1. u[Front(x)] = "object" /\ Front(x) \in DOMAIN u /\ IsKey(Last(x))
      BY <1>1, <1>2, <1>8 DEF IsObject
    <3>2. QED
      BY <1>1, <1>2, <1>8, <3>1, Planted DEF planted
  <2>2. Grown(segs, t, planted) /\ x \in DOMAIN planted
    BY <1>1, <1>2, <2>1 DEF Grown, IsPlanted
  <2>3. Walked(S, t, segs, create, k, [tree |-> planted, open |-> w.open])
    BY <1>8, <2>1, <2>2, WalkedOf DEF x
  <2>4. QED
    BY <1>8, <2>3 DEF next, f, seg
<1>9. CASE next = [tree |-> u, open |-> HasIndex(u, f, seg.index)] /\ ~IsKey(seg)
  <2>1. PICK i \in Nat : seg = Index(i)
    BY <1>9 DEF IsSegment, seg
  <2>2. seg.index = i
    BY <2>1, Indexes
  <2>3. HasIndex(u, f, i) => x \in DOMAIN u
    <3> HIDE DEF x
    <3>1. QED
      BY <1>1, <1>2, <2>1, ElementThere
  <2> DEFINE open == HasIndex(u, f, i)
  <2> HIDE DEF open
  <2>4. Walked(S, t, segs, create, k, [tree |-> u, open |-> open])
    BY <1>2, <2>3, WalkedOf DEF x, open
  <2>5. next = [tree |-> u, open |-> open]
    BY <1>9, <2>2 DEF open
  <2>6. QED
    BY <2>4, <2>5 DEF next, f, seg
<1>10. QED
  BY <1>3, <1>5, <1>6, <1>7, <1>8, <1>9

LEMMA SetPathTree ==
    ASSUME NEW S, NEW t, Tree(S, t), NEW value, Tree(S, value), NEW segs \in Seq(S), segs # <<>>,
           \A i \in 1..Len(segs) : IsSegment(segs[i]), NEW create
    PROVE  /\ Tree(S, SetPath(t, segs, value, create).tree)
           /\ SetPath(t, segs, value, create).changed \in BOOLEAN
           /\ ~SetPath(t, segs, value, create).changed =>
                 /\ Grown(segs, t, SetPath(t, segs, value, create).tree)
                 /\ ~create => SetPath(t, segs, value, create).tree = t
<1> DEFINE n == Len(segs) - 1
           job == [of |-> "segments", list |-> segs, create |-> create]
           start == [tree |-> t, open |-> TRUE]
           Turn(w, k) == IF w.open THEN Descend(w, SubSeq(segs, 1, k - 1), segs[k], create) ELSE w
           P(g) == g = [k \in 0..n |-> IF k = 0 THEN start ELSE Turn(g[k - 1], k)]
           g == CHOOSE h : P(h)
           reached == g[n]
           leaf == Last(segs)
           settable == IF IsKey(leaf) THEN IsObject(reached.tree, Front(segs))
                       ELSE HasIndex(reached.tree, Front(segs), leaf.index)
           there == segs \in DOMAIN reached.tree /\ ValueAt(reached.tree, segs) = value
           r == SetPath(t, segs, value, create)
<1>1. n \in Nat /\ Len(segs) = n + 1 /\ Len(segs) \in 1..Len(segs)
  BY FrontAndLast
<1>2. \A x, k : Do(job, x, k) = Turn(x, k)
  BY DEF Do
<1>3. P(g)
  <2>1. \E h : P(h)
    <3> HIDE DEF job, n, start, Turn
    <3>1. PICK h : Steps(job, start, n, h)
      BY <1>1, StepsExist
    <3>2. ASSUME NEW k \in 0..n PROVE h[k] = IF k = 0 THEN start ELSE Turn(h[k - 1], k)
      <4>1. k # 0 => k \in 1..n
        BY <1>1
      <4>2. k # 0 => h[k] = Do(job, h[k - 1], k)
        BY <3>1, <4>1 DEF Steps
      <4>3. h[0] = start
        BY <3>1 DEF Steps
      <4>4. QED
        BY <1>2, <4>2, <4>3
    <3>3. h = [k \in 0..n |-> h[k]]
      BY <3>1 DEF Steps
    <3>4. QED
      BY <3>2, <3>3
  <2> HIDE DEF P
  <2>2. QED
    BY <2>1
<1>4. r = IF \/ ~reached.open
             \/ ~settable
             \/ there
          THEN Result(reached.tree, FALSE)
          ELSE Result(Insert(reached.tree, segs, value), TRUE)
  BY Zenon DEF SetPath
<1>5. Walked(S, t, segs, create, 0, start)
  <2>1. Grown(segs, t, t)
    BY DEF Grown
  <2>2. SubSeq(segs, 1, 0) = <<>>
    BY SubSeqEmpty
  <2>3. SubSeq(segs, 1, 0) \in DOMAIN t
    BY <2>2 DEF Tree
  <2>4. QED
    BY <2>1, <2>3, WalkedOf
<1>6. Walked(S, t, segs, create, n, reached)
  <2> DEFINE T == {k \in 0..n : Walked(S, t, segs, create, k, g[k])}
  <2> HIDE DEF g, start
  <2>1. g[0] = start /\ \A k \in 1..n : g[k] = Turn(g[k - 1], k)
    BY <1>1, <1>3
  <2> HIDE DEF P, Turn
  <2>2. 0 \in T
    BY <1>1, <1>5, <2>1
  <2>3. ASSUME NEW k \in 1..n, k - 1 \in T PROVE k \in T
    <3>1. Walked(S, t, segs, create, k - 1, g[k - 1]) /\ k \in 0..n /\ k \in 1..Len(segs)
      BY <1>1, <2>3
    <3> DEFINE w == g[k - 1]
    <3>2. g[k] = IF w.open THEN Descend(w, SubSeq(segs, 1, k - 1), segs[k], create) ELSE w
      BY <2>1 DEF Turn
    <3> HIDE DEF w
    <3>3. Walked(S, t, segs, create, k - 1, w)
      BY <3>1 DEF w
    <3>4. CASE w.open
      <4>1. Walked(S, t, segs, create, k, Descend(w, SubSeq(segs, 1, k - 1), segs[k], create))
        BY <3>1, <3>3, <3>4, DescendWalks
      <4>2. QED
        BY <3>1, <3>2, <3>4, <4>1
    <3>5. CASE ~w.open
      <4>1. Walked(S, t, segs, create, k, w)
        BY <3>3, <3>5 DEF Walked
      <4>2. QED
        BY <3>1, <3>2, <3>5, <4>1
    <3>6. QED
      BY <3>4, <3>5
  <2> HIDE DEF T, n
  <2>4. 0..n \subseteq T
    BY <1>1, <2>2, <2>3, SetInduction
  <2>5. n \in T
    BY <1>1, <2>4
  <2>6. QED
    BY <2>5 DEF T
<1> HIDE DEF reached, P
<1> DEFINE u == reached.tree
<1>7. /\ Tree(S, u) /\ Grown(segs, t, u) /\ (~create => u = t)
      /\ reached.open => SubSeq(segs, 1, n) \in DOMAIN u
  BY <1>6 DEF Walked
<1>8. SubSeq(segs, 1, n) = Front(segs)
  BY DEF Front
<1> HIDE DEF r, there, n
<1>9. CASE reached.open /\ settable /\ ~there
  <2>1. Front(segs) \in DOMAIN u
    BY <1>7, <1>8, <1>9
  <2>2. leaf = segs[Len(segs)] /\ IsSegment(leaf)
    BY <1>1, FrontAndLast
  <2> HIDE DEF u, leaf
  <2>3. u[Front(segs)] = Holder(leaf) /\ (IsKey(leaf) \/ segs \in DOMAIN u)
    <3>1. CASE IsKey(leaf)
      BY <1>9, <3>1 DEF IsObject, Holder, u
    <3>2. CASE ~IsKey(leaf)
      <4>1. PICK i \in Nat : leaf = Index(i)
        BY <2>2, <3>2 DEF IsSegment
      <4>2. leaf.index = i
        BY <4>1, Indexes
      <4>3. HasIndex(u, Front(segs), i)
        BY <1>9, <3>2, <4>2 DEF u
      <4>4. segs \in DOMAIN u
        BY <1>7, <2>1, <4>1, <4>3, ElementThere DEF leaf
      <4>5. QED
        BY <3>2, <4>3, <4>4 DEF HasIndex, Holder
    <3>3. QED
      BY <3>1, <3>2
  <2>4. Tree(S, Insert(u, segs, value))
    BY <1>7, <2>1, <2>3, InsertedTree DEF leaf
  <2>5. r = Result(Insert(u, segs, value), TRUE)
    BY <1>4, <1>9 DEF u
  <2>6. r.tree = Insert(u, segs, value) /\ r.changed = TRUE
    BY <2>5 DEF Result
  <2>7. QED
    BY <2>4, <2>6 DEF r
<1>10. CASE ~(reached.open /\ settable /\ ~there)
  <2>1. r = Result(u, FALSE)
    BY <1>4, <1>10
  <2>2. r.tree = u /\ r.changed = FALSE
    BY <2>1 DEF Result
  <2>3. QED
    BY <1>7, <2>2 DEF r
<1>11. QED
  BY <1>9, <1>10

-----------------------------------------------------------------------------
(* What a JSON operation does *)

IsTreeOf(t) == \E S : Tree(S, t)

\* is has all of was, and empty objects.
Extended(was, is) ==
    /\ \A p \in DOMAIN was : p \in DOMAIN is /\ is[p] = was[p]
    /\ \A p \in DOMAIN is \ DOMAIN was : is[p] = "object"

\* An operation leaves a tree and reports every change that is more than that.
Does(t, r) ==
    /\ IsTreeOf(r.tree)
    /\ r.changed \in BOOLEAN
    /\ ~r.changed => Extended(t, r.tree)

LEMMA ExtendedTwice ==
    ASSUME NEW a, NEW b, NEW c, Extended(a, b), Extended(b, c)
    PROVE  Extended(a, c)
BY DEF Extended

LEMMA DoesNothing ==
    ASSUME NEW t, IsTreeOf(t)
    PROVE  Does(t, Result(t, FALSE))
BY DEF Does, Result, Extended

LEMMA DoesChange ==
    ASSUME NEW t, NEW u, IsTreeOf(u)
    PROVE  Does(t, Result(u, TRUE))
BY DEF Does, Result

LEMMA ExpressionsPath ==
    /\ Rre \in Seq({Key(<<"rre">>), Key(<<"feature_expressions">>)})
    /\ Expressions \in Seq({Key(<<"rre">>), Key(<<"feature_expressions">>)})
    /\ Rre # <<>> /\ Front(Rre) = <<>> /\ Last(Rre) = Key(<<"rre">>)
    /\ Expressions # <<>> /\ Front(Expressions) = Rre
    /\ Last(Expressions) = Key(<<"feature_expressions">>)
<1> DEFINE a == Key(<<"rre">>)
           b == Key(<<"feature_expressions">>)
<1> HIDE DEF a, b
<1>1. Rre = <<a>> /\ Expressions = <<a, b>>
  <2>1. Rre = <<a>> /\ Expressions = Append(Rre, b)
    BY DEF Rre, Expressions, a, b
  <2>2. Append(<<a>>, b) = <<a, b>>
    <3> DEFINE x == Append(<<a>>, b)
               y == <<a, b>>
    <3>1. <<a>> \in Seq({a, b}) /\ Len(<<a>>) = 1 /\ <<a>>[1] = a /\ b \in {a, b}
      OBVIOUS
    <3>2. x \in Seq({a, b}) /\ Len(x) = Len(<<a>>) + 1 /\ x[Len(<<a>>) + 1] = b
          /\ \A i \in 1..Len(<<a>>) : x[i] = <<a>>[i]
      BY <3>1, AppendProperties
    <3>3. y \in Seq({a, b}) /\ Len(y) = 2 /\ y[1] = a /\ y[2] = b
      OBVIOUS
    <3> HIDE DEF x, y
    <3>4. Len(x) = 2 /\ x[1] = a /\ x[2] = b
      BY <3>1, <3>2
    <3>5. Len(x) = Len(y) /\ \A i \in 1..Len(x) : x[i] = y[i]
      BY <3>3, <3>4
    <3>6. x = y
      BY <3>2, <3>3, <3>5, SeqEqual
    <3>7. QED
      BY <3>6 DEF x, y
  <2>3. QED
    BY <2>1, <2>2
<1>2. <<a>> \in Seq({a, b}) /\ <<a, b>> \in Seq({a, b}) /\ <<a>> # <<>> /\ <<a, b>> # <<>>
  OBVIOUS
<1>3. Len(<<a>>) = 1 /\ Len(<<a, b>>) = 2
  OBVIOUS
<1>4. Last(<<a>>) = a /\ Last(<<a, b>>) = b
  BY DEF Last
<1>5. Front(<<a>>) = <<>>
  BY <1>3 DEF Front
<1>6. Front(<<a, b>>) = <<a>>
  <2> DEFINE x == <<a, b>>
             y == Front(x)
  <2>1. x \in Seq({a, b}) /\ x # <<>> /\ Len(x) = 2 /\ x[1] = a
    OBVIOUS
  <2> HIDE DEF x
  <2>2. y \in Seq({a, b}) /\ Len(y) = 2 - 1 /\ \A i \in 1..(2 - 1) : y[i] = x[i]
    BY <2>1, FrontAndLast
  <2> HIDE DEF y
  <2>3. <<a>> \in Seq({a, b}) /\ Len(<<a>>) = 1 /\ <<a>>[1] = a
    OBVIOUS
  <2> DEFINE z == <<a>>
  <2> HIDE DEF z
  <2>4. z \in Seq({a, b}) /\ Len(z) = 1 /\ z[1] = a
    BY <2>3 DEF z
  <2>5. Len(y) = Len(z) /\ \A i \in 1..Len(y) : y[i] = z[i]
    BY <2>1, <2>2, <2>4
  <2>6. y = z
    BY <2>2, <2>4, <2>5, SeqEqual
  <2>7. QED
    BY <2>6 DEF x, y, z
<1>7. QED
  BY <1>1, <1>2, <1>4, <1>5, <1>6 DEF a, b

LEMMA SetPathDoes ==
    ASSUME NEW t, IsTreeOf(t), NEW value, IsTreeOf(value), NEW segs, IsPath(segs), segs # <<>>,
           NEW create
    PROVE  Does(t, SetPath(t, segs, value, create))
<1>1. PICK A : Tree(A, t)
  BY DEF IsTreeOf
<1>2. PICK B : Tree(B, value)
  BY DEF IsTreeOf
<1>3. PICK C : segs \in Seq(C) /\ \A seg \in C : IsSegment(seg)
  BY DEF IsPath
<1> DEFINE S == A \union B \union C
           r == SetPath(t, segs, value, create)
<1>4. A \subseteq S /\ B \subseteq S /\ C \subseteq S
  OBVIOUS
<1> HIDE DEF S
<1>5. Tree(S, t) /\ Tree(S, value)
  BY <1>1, <1>2, <1>4, WiderTree
<1>6. segs \in Seq(S)
  BY <1>3, <1>4, WiderLists
<1>7. \A i \in 1..Len(segs) : IsSegment(segs[i])
  <2>1. \A i \in 1..Len(segs) : segs[i] \in C
    BY <1>3, LenProperties
  <2>2. QED
    BY <1>3, <2>1
<1>8. Tree(S, r.tree) /\ r.changed \in BOOLEAN
      /\ (~r.changed => Grown(segs, t, r.tree) /\ (~create => r.tree = t))
  BY <1>5, <1>6, <1>7, SetPathTree
<1> HIDE DEF r
<1>9. ~r.changed => Extended(t, r.tree)
  BY <1>8 DEF Grown, Extended
<1>10. Does(t, r)
  BY <1>8, <1>9 DEF Does, IsTreeOf
<1>11. QED
  BY <1>10 DEF r

LEMMA RemovePathDoes ==
    ASSUME NEW t, IsTreeOf(t), NEW segs, segs # <<>>
    PROVE  Does(t, RemovePath(t, segs))
<1>1. CASE segs \in DOMAIN t
  <2>1. IsTreeOf(RemoveNode(t, segs))
    BY <1>1, RemovedTree DEF IsTreeOf
  <2>2. RemovePath(t, segs) = Result(RemoveNode(t, segs), TRUE)
    BY <1>1 DEF RemovePath
  <2>3. QED
    BY <2>1, <2>2, DoesChange
<1>2. CASE segs \notin DOMAIN t
  BY <1>2, DoesNothing DEF RemovePath
<1>3. QED
  BY <1>1, <1>2

LEMMA ReplacePathDoes ==
    ASSUME NEW t, IsTreeOf(t), NEW value, IsTreeOf(value), NEW segs, IsPath(segs), segs # <<>>
    PROVE  Does(t, ReplacePath(t, segs, value))
<1>1. Does(t, SetPath(t, segs, value, FALSE))
  BY SetPathDoes
<1>2. QED
  BY <1>1, DoesNothing DEF ReplacePath

LEMMA TrimArrayDoes ==
    ASSUME NEW t, IsTreeOf(t), NEW segs, IsPath(segs), NEW length \in Int
    PROVE  Does(t, TrimArray(t, segs, length))
<1>1. PICK A : Tree(A, t)
  BY DEF IsTreeOf
<1>2. PICK C : segs \in Seq(C)
  BY DEF IsPath
<1> DEFINE S == A \union C
<1>3. A \subseteq S /\ C \subseteq S
  OBVIOUS
<1> HIDE DEF S
<1>4. Tree(S, t) /\ segs \in Seq(S)
  BY <1>1, <1>2, <1>3, WiderTree, WiderLists
<1>5. IsTreeOf(TrimArray(t, segs, length).tree)
  BY <1>4, TrimmedTree DEF IsTreeOf
<1>6. \/ TrimArray(t, segs, length) = Result(t, FALSE)
      \/ \E u : TrimArray(t, segs, length) = Result(u, TRUE)
  BY DEF TrimArray
<1>7. \A u : Result(u, TRUE).tree = u
  BY DEF Result
<1>8. QED
  BY <1>5, <1>6, <1>7, DoesNothing, DoesChange

LEMMA TreeIsOf == \A t : IsTree(t) => IsTreeOf(t)
BY TreeOf DEF IsTreeOf

LEMMA ComponentDoes ==
    ASSUME NEW t, IsTreeOf(t), NEW c, IsJsonComponent(c)
    PROVE  Does(t, ApplyJsonComponent(t, c))
<1> DEFINE parsed == ParsePath(c.config.path)
           segs == parsed.segs
           value == c.config.value
<1>1. ASSUME c.type \in JsonTypes, parsed.ok
      PROVE  IsPath(segs) /\ segs # <<>>
  BY <1>1, ParsedPath DEF IsJsonComponent
<1>2. c.type \in {"json_set", "json_replace"} => IsTreeOf(value)
  BY TreeIsOf DEF IsJsonComponent
<1> HIDE DEF parsed
<1>4. CASE c.type \notin JsonTypes \/ ~parsed.ok
  <2>1. ApplyJsonComponent(t, c) = Result(t, FALSE)
    BY <1>4 DEF ApplyJsonComponent, JsonTypes, parsed
  <2>2. QED
    BY <2>1, DoesNothing
<1>5. CASE c.type = "json_remove" /\ parsed.ok
  <2>1. ApplyJsonComponent(t, c) = RemovePath(t, segs)
    BY <1>5 DEF ApplyJsonComponent, JsonTypes, parsed
  <2>2. segs # <<>>
    BY <1>1, <1>5 DEF JsonTypes
  <2>3. QED
    BY <2>1, <2>2, RemovePathDoes
<1>6. CASE c.type = "json_set" /\ parsed.ok
  <2>1. ApplyJsonComponent(t, c) = SetPath(t, segs, value, TRUE)
    BY <1>6 DEF ApplyJsonComponent, JsonTypes, parsed
  <2>2. IsPath(segs) /\ segs # <<>> /\ IsTreeOf(value)
    BY <1>1, <1>2, <1>6 DEF JsonTypes
  <2>3. QED
    BY <2>1, <2>2, SetPathDoes
<1>7. CASE c.type = "json_replace" /\ parsed.ok
  <2>1. ApplyJsonComponent(t, c) = ReplacePath(t, segs, value)
    BY <1>7 DEF ApplyJsonComponent, JsonTypes, parsed
  <2>2. IsPath(segs) /\ segs # <<>> /\ IsTreeOf(value)
    BY <1>1, <1>2, <1>7 DEF JsonTypes
  <2>3. QED
    BY <2>1, <2>2, ReplacePathDoes
<1>8. QED
  BY <1>4, <1>5, <1>6, <1>7 DEF JsonTypes

\* What an outcome makes of a JSON body is made component by component.
LEMMA OutcomeJsonSteps ==
    ASSUME NEW tree, NEW components, components \in Seq(Range(components))
    PROVE  \E g : /\ Steps(OutcomeJob("json", components), Result(tree, FALSE), Len(components), g)
                  /\ ApplyOutcomeJson(tree, components) = g[Len(components)]
<1> DEFINE o == Ordered(components)
           n == Len(components)
           job == OutcomeJob("json", components)
           Next1(x, k) == LET next == ApplyJsonComponent(x.tree, o[k])
                          IN  Result(next.tree, x.changed \/ next.changed)
           P(g) == g = [k \in 0..n |-> IF k = 0 THEN Result(tree, FALSE) ELSE Next1(g[k - 1], k)]
<1>1. n \in Nat /\ Len(o) = n
  BY OrderedLen
<1>2. \A x, k : Do(job, x, k) = Next1(x, k)
  BY DEF Do, OutcomeJob
<1>3. \E g : P(g)
  <2> HIDE DEF Next1, job, n
  <2>1. PICK g : Steps(job, Result(tree, FALSE), n, g)
    BY <1>1, StepsExist
  <2>2. ASSUME NEW k \in 0..n
        PROVE  g[k] = IF k = 0 THEN Result(tree, FALSE) ELSE Next1(g[k - 1], k)
    <3>1. k # 0 => k \in 1..n
      BY <1>1
    <3>2. k # 0 => g[k] = Do(job, g[k - 1], k)
      BY <2>1, <3>1 DEF Steps
    <3>3. g[0] = Result(tree, FALSE)
      BY <2>1 DEF Steps
    <3>4. QED
      BY <1>2, <3>2, <3>3
  <2>3. g = [k \in 0..n |-> g[k]]
    BY <2>1 DEF Steps
  <2> HIDE DEF o
  <2>4. g = [k \in 0..n |-> IF k = 0 THEN Result(tree, FALSE) ELSE Next1(g[k - 1], k)]
    BY <2>2, <2>3
  <2>5. QED
    BY <2>4
<1>4. ASSUME NEW g, P(g) PROVE Steps(job, Result(tree, FALSE), n, g)
  <2> HIDE DEF Next1, job, n
  <2>1. QED
    BY <1>1, <1>2, <1>4 DEF Steps
<1>5. ApplyOutcomeJson(tree, components) = (CHOOSE h : P(h))[n]
  <2>1. Len(Ordered(components)) = n
    BY <1>1
  <2>2. QED
    BY <2>1, Zenon DEF ApplyOutcomeJson, FoldComponents
<1> DEFINE g == CHOOSE h : P(h)
<1>6. P(g)
  <2> HIDE DEF P
  <2>1. QED
    BY <1>3
<1>7. Steps(job, Result(tree, FALSE), n, g)
  <2> HIDE DEF P, g, job
  <2>1. QED
    BY <1>4, <1>6
<1>8. QED
  BY <1>5, <1>7

LEMMA OutcomeDoes ==
    ASSUME NEW t, IsTreeOf(t), NEW components, components \in Seq(Range(components)),
           \A c \in Range(components) : IsJsonComponent(c)
    PROVE  Does(t, ApplyOutcomeJson(t, components))
<1> DEFINE job == OutcomeJob("json", components)
           n == Len(components)
<1>1. PICK g : Steps(job, Result(t, FALSE), n, g) /\ ApplyOutcomeJson(t, components) = g[n]
  BY OutcomeJsonSteps
<1>2. n \in Nat
  BY OrderedLen
<1>3. \A k \in 1..n : Ordered(components)[k] \in Range(components)
  <2>1. \A c \in Range(components) :
           c.placement \in {"inline", "sticky_footer", "popup"} /\ c.order \in Int
    BY DEF IsJsonComponent
  <2>2. QED
    BY <2>1, OrderedKeeps
<1> DEFINE T == {k \in 0..n : Does(t, g[k])}
<1>4. 0 \in T
  <2>1. g[0] = Result(t, FALSE)
    BY <1>1 DEF Steps
  <2>2. Does(t, g[0])
    BY <2>1, DoesNothing
  <2>3. QED
    BY <1>2, <2>2
<1>5. ASSUME NEW k \in 1..n, k - 1 \in T PROVE k \in T
  <2> DEFINE x == g[k - 1]
             c == Ordered(components)[k]
             next == ApplyJsonComponent(x.tree, c)
             both == x.changed \/ next.changed
  <2>1. g[k] = Do(job, x, k)
    BY <1>1 DEF Steps
  <2>2. Do(job, x, k) = Result(next.tree, both)
    BY DEF Do, OutcomeJob
  <2>3. Does(t, x) /\ IsJsonComponent(c)
    BY <1>3, <1>5
  <2> HIDE DEF x, c
  <2>4. Does(x.tree, next)
    BY <2>3, ComponentDoes DEF Does
  <2> DEFINE tree == x.tree
  <2> HIDE DEF next, tree
  <2>5. ~both => Extended(t, next.tree)
    <3>1. ASSUME ~both PROVE Extended(t, tree) /\ Extended(tree, next.tree)
      BY <2>3, <2>4, <3>1 DEF Does, tree
    <3>2. QED
      BY <3>1, ExtendedTwice
  <2>6. IsTreeOf(next.tree)
    BY <2>4 DEF Does
  <2>7. both \in BOOLEAN
    OBVIOUS
  <2> DEFINE u == next.tree
  <2> HIDE DEF both, u
  <2>8. Result(u, both).tree = u /\ Result(u, both).changed = both
    BY DEF Result
  <2>9. Does(t, Result(u, both))
    BY <2>5, <2>6, <2>7, <2>8 DEF Does, u
  <2>10. Does(t, g[k])
    BY <2>1, <2>2, <2>9 DEF u
  <2>11. QED
    BY <1>2, <2>10
<1>6. n \in T
  <2> HIDE DEF T, n
  <2>1. 0..n \subseteq T
    BY <1>2, <1>4, <1>5, SetInduction
  <2>2. QED
    BY <1>2, <2>1
<1>7. QED
  BY <1>1, <1>6

\* The outcomes a feature brings a JSON answer.
IsOutcomesMet(outcomes) ==
    \A components \in Range(outcomes) :
        components \in Seq(Range(components)) /\ \A c \in Range(components) : IsJsonComponent(c)

LEMMA ActionDoes ==
    ASSUME NEW t, IsTreeOf(t), NEW action, IsJsonAction(action), NEW outcomes, IsOutcomesMet(outcomes)
    PROVE  Does(t, ApplyActionJson(t, action, outcomes))
<1> DEFINE parsed == ParsePath(action.path)
           r == ApplyActionJson(t, action, outcomes)
<1>1. ASSUME action.type \in {"trim_json", "add_attribute"}, parsed.ok
      PROVE  IsPath(parsed.segs) /\ parsed.segs # <<>>
  BY <1>1, ParsedPath DEF IsJsonAction
<1>2. Does(t, Result(t, FALSE))
  BY DoesNothing
<1> HIDE DEF parsed
<1>3. CASE action.type = "trim_json"
  <2>1. r = IF parsed.ok THEN TrimArray(t, parsed.segs, action.length) ELSE Result(t, FALSE)
    BY <1>3 DEF ApplyActionJson, parsed
  <2>2. action.length \in Int
    BY <1>3 DEF IsJsonAction
  <2>3. parsed.ok => Does(t, TrimArray(t, parsed.segs, action.length))
    BY <1>1, <1>3, <2>2, TrimArrayDoes
  <2>4. QED
    BY <1>2, <2>1, <2>3
<1>4. CASE action.type = "add_attribute"
  <2>1. r = IF parsed.ok THEN SetPath(t, parsed.segs, action.value, TRUE) ELSE Result(t, FALSE)
    BY <1>4 DEF ApplyActionJson, parsed
  <2>2. IsTreeOf(action.value)
    BY <1>4, TreeIsOf DEF IsJsonAction
  <2>3. parsed.ok => Does(t, SetPath(t, parsed.segs, action.value, TRUE))
    BY <1>1, <1>4, <2>2, SetPathDoes
  <2>4. QED
    BY <1>2, <2>1, <2>3
<1>5. CASE action.type = "apply_outcome"
  <2>1. r = IF action.outcome \in DOMAIN outcomes
            THEN ApplyOutcomeJson(t, outcomes[action.outcome]) ELSE Result(t, FALSE)
    BY <1>5 DEF ApplyActionJson
  <2> DEFINE components == outcomes[action.outcome]
  <2>2. action.outcome \in DOMAIN outcomes =>
           components \in Seq(Range(components)) /\ \A c \in Range(components) : IsJsonComponent(c)
    BY DEF IsOutcomesMet, Range
  <2> HIDE DEF components
  <2>3. action.outcome \in DOMAIN outcomes => Does(t, ApplyOutcomeJson(t, components))
    BY <2>2, OutcomeDoes
  <2>4. QED
    BY <1>2, <2>1, <2>3 DEF components
<1>6. CASE action.type \notin {"trim_json", "add_attribute", "apply_outcome"}
  <2>1. r = Result(t, FALSE)
    BY <1>6 DEF ApplyActionJson
  <2>2. QED
    BY <1>2, <2>1
<1>7. QED
  BY <1>3, <1>4, <1>5, <1>6

\* An outcome that reports no change leaves the page as it was.
LEMMA OutcomeHtmlSame ==
    ASSUME NEW b, IsBody(b, "html"), NEW components, components \in Seq(Range(components))
    PROVE  /\ ApplyOutcomeHtml(b, components).changed \in BOOLEAN
           /\ ~ApplyOutcomeHtml(b, components).changed =>
                 ApplyOutcomeHtml(b, components).tree.value = b.value
<1> DEFINE job == OutcomeJob("html", components)
           n == Len(components)
           Same(x) == /\ IsBody(x.tree, "html") /\ x.changed \in BOOLEAN
                      /\ ~x.changed => x.tree.value = b.value
<1>1. PICK g : Steps(job, Result(b, FALSE), n, g) /\ ApplyOutcomeHtml(b, components) = g[n]
  BY OutcomeHtmlSteps
<1>2. n \in Nat
  BY OrderedLen
<1> DEFINE T == {k \in 0..n : Same(g[k])}
<1>3. 0 \in T
  <2>1. g[0] = Result(b, FALSE)
    BY <1>1 DEF Steps
  <2> DEFINE x == Result(b, FALSE)
  <2>2. x.tree = b /\ x.changed = FALSE
    BY DEF Result
  <2> HIDE DEF x
  <2>3. Same(x)
    BY <2>2
  <2> HIDE DEF Same
  <2>4. Same(g[0])
    BY <2>1, <2>3 DEF x
  <2>5. QED
    BY <1>2, <2>4
<1>4. ASSUME NEW k \in 1..n, k - 1 \in T PROVE k \in T
  <2> DEFINE x == g[k - 1]
             t == x.tree
             r == RenderComponent(x.tree.value, job.list[k])
             next == IF x.tree.panicked \/ r.kind = "error" THEN Result(x.tree, FALSE)
                     ELSE IF r.kind = "panic" THEN Result([x.tree EXCEPT !.panicked = TRUE], FALSE)
                     ELSE Result([x.tree EXCEPT !.value = r.doc], r.doc # x.tree.value)
             both == x.changed \/ next.changed
  <2>1. g[k] = Do(job, x, k)
    BY <1>1 DEF Steps
  <2>2. Do(job, x, k) = Result(next.tree, both)
    BY DEF Do, OutcomeJob
  <2>3. IsBody(t, "html") /\ x.changed \in BOOLEAN /\ (~x.changed => t.value = b.value)
    BY <1>4
  <2>4. next = IF t.panicked \/ r.kind = "error" THEN Result(t, FALSE)
               ELSE IF r.kind = "panic" THEN Result([t EXCEPT !.panicked = TRUE], FALSE)
               ELSE Result([t EXCEPT !.value = r.doc], r.doc # t.value)
    OBVIOUS
  <2> HIDE DEF x, t, r, next
  <2>5. next.tree.value = t.value \/ next.changed
    <3> DEFINE d == r.doc
               differs == d # t.value
               a == [t EXCEPT !.panicked = TRUE]
               c == [t EXCEPT !.value = d]
    <3>1. a.value = t.value /\ c.value = d
      BY <2>3 DEF IsBody
    <3> HIDE DEF a, c, d
    <3>2. next = Result(t, FALSE) \/ next = Result(a, FALSE) \/ next = Result(c, differs)
      BY <2>4 DEF a, c, d
    <3>3. /\ Result(t, FALSE).tree = t /\ Result(a, FALSE).tree = a
          /\ Result(c, differs).tree = c /\ Result(c, differs).changed = differs
      BY DEF Result
    <3>4. QED
      BY <3>1, <3>2, <3>3
  <2>6. IsBody(next.tree, "html")
    <3>1. IsBody([t EXCEPT !.panicked = TRUE], "html")
      BY <2>3, BodyWith, Zenon
    <3>2. \A d : IsBody([t EXCEPT !.value = d], "html")
      BY <2>3, BodyWith, Zenon
    <3>3. \A u, o : Result(u, o).tree = u
      BY DEF Result
    <3>4. next.tree = t \/ next.tree = [t EXCEPT !.panicked = TRUE]
          \/ next.tree = [t EXCEPT !.value = r.doc]
      BY <2>4, <3>3
    <3>5. QED
      BY <2>3, <3>1, <3>2, <3>4
  <2> DEFINE u == next.tree
  <2>7. both \in BOOLEAN /\ (~both => u.value = b.value)
    BY <2>3, <2>5
  <2>8. IsBody(u, "html")
    BY <2>6
  <2> HIDE DEF both, u
  <2>9. Result(u, both).tree = u /\ Result(u, both).changed = both
    BY DEF Result
  <2>10. Same(Result(u, both))
    BY <2>7, <2>8, <2>9
  <2>11. g[k] = Result(u, both)
    BY <2>1, <2>2 DEF u
  <2> HIDE DEF Same
  <2>12. QED
    BY <1>2, <2>10, <2>11
<1>5. n \in T
  <2> HIDE DEF T, n
  <2>1. 0..n \subseteq T
    BY <1>2, <1>3, <1>4, SetInduction
  <2>2. QED
    BY <1>2, <2>1
<1>6. QED
  BY <1>1, <1>5

\* A body that has all that was there: of a page exactly that.
Preserved(was, b) == IF b.kind = "html" THEN b.value = was ELSE Extended(was, b.value)

LEMMA ApplyDoes ==
    ASSUME NEW w, IsWorld(w), IsMet(w), w.upstream.error = "none",
           ContentKind(w.upstream) \in {"html", "json"},
           NEW b, IsRunning(w, b), b.kind = "json" => IsTreeOf(b.value),
           NEW action \in ActionsIn(w), NEW outcomes, ServedIn(w, outcomes)
    PROVE  LET r == Apply(b, action, outcomes) IN
           /\ r.tree.kind = "json" => IsTreeOf(r.tree.value)
           /\ r.changed \in BOOLEAN
           /\ ~r.changed => \A was : Preserved(was, b) => Preserved(was, r.tree)
<1> DEFINE kind == ContentKind(w.upstream)
           r == Apply(b, action, outcomes)
<1>1. IsBody(b, kind) /\ b.kind = kind
  BY DEF IsRunning, IsBody
<1>2. IsOutcomes(outcomes) /\ \A components \in Range(outcomes) : Range(components) \subseteq ComponentsIn(w)
  BY ServedOutcomes
<1>3. IsBody(r.tree, kind)
  BY <1>1, <1>2, ApplyBody
<1>4. r.tree.kind = kind
  <2> HIDE DEF r
  <2>1. QED
    BY <1>3 DEF IsBody
<1>5. CASE kind = "json"
  <2> DEFINE s == ApplyActionJson(b.value, action, outcomes)
             tree == s.tree
             changed == s.changed
             c == [b EXCEPT !.value = tree]
  <2>1. IsJsonAction(action)
    BY <1>5 DEF IsMet
  <2>2. IsOutcomesMet(outcomes)
    BY <1>2, <1>5 DEF IsMet, IsOutcomes, IsOutcomesMet
  <2>3. Does(b.value, s)
    BY <1>1, <1>5, <2>1, <2>2, ActionDoes
  <2>4. r = Result(c, changed)
    BY <1>1, <1>5 DEF Apply
  <2>5. IsTreeOf(tree) /\ changed \in BOOLEAN /\ (~changed => Extended(b.value, tree))
    BY <2>3 DEF Does
  <2> HIDE DEF s, tree, changed
  <2>6. c.value = tree
    BY <1>1 DEF IsBody
  <2> HIDE DEF c, r
  <2>7. r.tree = c /\ r.changed = changed
    BY <2>4 DEF Result
  <2>8. ASSUME ~changed, NEW was, Preserved(was, b) PROVE Preserved(was, c)
    <3>1. Extended(was, b.value) /\ Extended(b.value, c.value) /\ c.kind = "json"
      BY <1>1, <1>4, <1>5, <2>5, <2>6, <2>7, <2>8 DEF Preserved
    <3>2. Extended(was, c.value)
      BY <3>1, ExtendedTwice
    <3>3. QED
      BY <3>1, <3>2 DEF Preserved
  <2>9. QED
    BY <2>5, <2>6, <2>7, <2>8 DEF r
<1>6. CASE kind = "html" /\ action.type = "apply_outcome" /\ action.outcome \in DOMAIN outcomes
  <2> DEFINE components == outcomes[action.outcome]
  <2>1. components \in Seq(Range(components))
    BY <1>2, <1>6 DEF IsOutcomes, Range
  <2>2. r = ApplyOutcomeHtml(b, components)
    BY <1>1, <1>6 DEF Apply
  <2>3. IsBody(b, "html")
    BY <1>1, <1>6
  <2> HIDE DEF components, r
  <2>4. r.changed \in BOOLEAN /\ (~r.changed => r.tree.value = b.value)
    BY <2>1, <2>2, <2>3, OutcomeHtmlSame
  <2>5. QED
    BY <1>1, <1>4, <1>6, <2>4 DEF Preserved, r
<1>7. CASE kind = "html" /\ ~(action.type = "apply_outcome" /\ action.outcome \in DOMAIN outcomes)
  <2>1. r = Result(b, FALSE)
    BY <1>1, <1>7 DEF Apply
  <2> HIDE DEF r
  <2>2. r.tree = b /\ r.changed = FALSE
    BY <2>1 DEF Result
  <2>3. QED
    BY <1>1, <1>7, <2>2 DEF r
<1>8. QED
  BY <1>5, <1>6, <1>7

-----------------------------------------------------------------------------
(* The entries in a body *)

LEMMA AppendedList ==
    ASSUME NEW S, NEW doc \in Seq(S), NEW fragment \in Seq(S)
    PROVE  Range(AppendToBody(doc, fragment)) = Range(doc) \union Range(fragment)
<1> DEFINE n == Len(doc)
           bodies == {i \in 1..n : doc[i] = Close("body")}
           last == SelectLastInSeq(doc, LAMBDA t : t = Close("body"))
           i == last - 1
           front == SubSeq(doc, 1, i)
           back == SubSeq(doc, i + 1, n)
<1>1. n \in Nat /\ Range(doc) = {doc[k] : k \in 1..n}
  BY ListOfOwn
<1>2. last \in 0..n
  <2>1. last = IF bodies # {} THEN Max(bodies) ELSE 0
    BY DEF SelectLastInSeq
  <2>2. bodies \subseteq 1..n
    OBVIOUS
  <2> HIDE DEF bodies, last, n
  <2>3. QED
    BY <1>1, <2>1, <2>2, FirstAndLast
<1>3. AppendToBody(doc, fragment) = IF last = 0 THEN doc \o fragment ELSE front \o fragment \o back
  BY DEF AppendToBody, Put
<1> HIDE DEF last
<1>4. CASE last = 0
  BY <1>3, <1>4, JoinedLists
<1>5. CASE last # 0
  <2>1. i \in Int /\ i + 1 \in Int /\ 1 \in Int /\ n \in Int /\ 1 <= i + 1 /\ i <= n /\ i \in 0..n
    BY <1>1, <1>2, <1>5
  <2> HIDE DEF i
  <2>2. front \in Seq(S) /\ Range(front) = {doc[k] : k \in 1..i}
    BY <2>1, PartOfList
  <2>3. back \in Seq(S) /\ Range(back) = {doc[k] : k \in (i + 1)..n}
    BY <2>1, PartOfList
  <2> HIDE DEF front, back
  <2>4. front \o fragment \in Seq(S) /\ Range(front \o fragment) = Range(front) \union Range(fragment)
    BY <2>2, JoinedLists
  <2> DEFINE joined == front \o fragment
  <2> HIDE DEF joined
  <2>5. Range(joined \o back) = Range(joined) \union Range(back)
    <3>1. joined \in Seq(S) /\ back \in Seq(S)
      BY <2>3, <2>4 DEF joined
    <3>2. QED
      BY <3>1, JoinedLists
  <2>6. Range(front) \union Range(back) = Range(doc)
    <3>1. 1..n = 1..i \union (i + 1)..n
      BY <1>1, <2>1
    <3> HIDE DEF n
    <3>2. QED
      BY <1>1, <2>2, <2>3, <3>1
  <2>7. AppendToBody(doc, fragment) = joined \o back
    BY <1>3, <1>5 DEF joined
  <2>8. QED
    BY <2>4, <2>5, <2>6, <2>7 DEF joined
<1>6. QED
  BY <1>4, <1>5

\* The features whose entries are in the scripts of a page.
ScriptIds(tokens) == {m[1] : m \in UNION {t.marks : t \in {t \in tokens : t.is = "script"}}}

LEMMA OneScriptIds ==
    ASSUME NEW tokens, \A t \in tokens : IsToken(t), NEW entries
    PROVE  ScriptIds(tokens \union {Script("rre", {<<m.id, m.version>> : m \in entries})}) =
              {m.id : m \in entries}
<1> DEFINE marks == {<<m.id, m.version>> : m \in entries}
           script == Script("rre", marks)
           scripts == {t \in tokens \union {script} : t.is = "script"}
<1>1. script.is = "script" /\ script.marks = marks
  BY DEF Script, Token
<1>2. {m[1] : m \in marks} = {m.id : m \in entries}
  <2>1. \A m : <<m.id, m.version>>[1] = m.id
    OBVIOUS
  <2>2. QED
    BY <2>1
<1> HIDE DEF marks, script
<1>3. UNION {t.marks : t \in scripts} = marks
  <2>1. \A t \in scripts : t = script \/ t.marks = {}
    BY DEF IsToken
  <2>2. script \in scripts
    BY <1>1
  <2>3. QED
    BY <1>1, <2>1, <2>2
<1>4. ScriptIds(tokens \union {script}) = {m[1] : m \in marks}
  BY <1>3 DEF ScriptIds
<1>5. QED
  BY <1>2, <1>4 DEF script, marks

\* Where the entry of a feature is.
LEMMA EntryPlace ==
    ASSUME NEW id, NEW S, S = {Key(<<"rre">>), Key(<<"feature_expressions">>)}
    PROVE  /\ EntryPath(id) = Expressions \o <<Key(<<id>>)>>
           /\ EntryPath(id) \in Seq(S \union {Key(<<id>>)})
           /\ IsPrefix(Expressions, EntryPath(id))
           /\ Relative(Expressions, EntryPath(id)) = <<Key(<<id>>)>>
<1> DEFINE R == S \union {Key(<<id>>)}
           seg == Key(<<id>>)
           one == <<seg>>
<1>1. Expressions \in Seq(R)
  <2>1. Expressions \in Seq(S) /\ S \subseteq R
    BY ExpressionsPath
  <2> HIDE DEF R
  <2>2. QED
    BY <2>1, WiderLists
<1>2. seg \in R
  OBVIOUS
<1> HIDE DEF R, seg
<1>3. one \in Seq(R)
  BY <1>2
<1>4. EntryPath(id) = Expressions \o one
  BY <1>1, <1>2, AppendIsConcat DEF EntryPath, seg
<1> HIDE DEF one
<1>5. Expressions \o one \in Seq(R) /\ IsPrefix(Expressions, Expressions \o one)
      /\ Relative(Expressions, Expressions \o one) = one
  BY <1>1, <1>3, Joining
<1>6. QED
  BY <1>4, <1>5 DEF one, seg, R

LEMMA KeysDiffer ==
    ASSUME NEW a, NEW b, <<Key(<<a>>)>> = <<Key(<<b>>)>>
    PROVE  a = b
<1>1. \A x : <<x>>[1] = x
  OBVIOUS
<1>2. Key(<<a>>) = Key(<<b>>)
  BY <1>1
<1>3. \A x : Key(x).key = x
  BY DEF Key
<1>4. <<a>> = <<b>>
  BY <1>2, <1>3
<1>5. QED
  BY <1>1, <1>4

\* The entries that are put into a tree, and no other, are there.
LEMMA EntriesThere ==
    ASSUME NEW A, NEW home, DOMAIN home \subseteq Seq(A), NEW ids, NEW entries,
           DOMAIN entries = {<<>>} \union {<<Key(<<id>>)>> : id \in ids}, NEW id
    PROVE  EntryPath(id) \in DOMAIN Insert(home, Expressions, entries) <=> id \in ids
<1> DEFINE E == {Key(<<"rre">>), Key(<<"feature_expressions">>)}
           K == {Key(<<x>>) : x \in ids}
           S == A \union E \union K \union {Key(<<id>>)}
           u == Insert(home, Expressions, entries)
           path == EntryPath(id)
           one == <<Key(<<id>>)>>
<1>1. A \subseteq S /\ E \subseteq S /\ K \subseteq S /\ Key(<<id>>) \in S
  OBVIOUS
<1>2. path = Expressions \o one /\ IsPrefix(Expressions, path) /\ Relative(Expressions, path) = one
  BY EntryPlace
<1>3. \A x \in ids : Key(<<x>>) \in K
  OBVIOUS
<1>4. Expressions \in Seq(E)
  BY ExpressionsPath
<1> HIDE DEF S, E, K
<1>5. Expressions \in Seq(S)
  BY <1>1, <1>4, WiderLists
<1>6. DOMAIN home \subseteq Seq(S)
  BY <1>1, WiderLists
<1>7. DOMAIN entries \subseteq Seq(S)
  <2>1. ASSUME NEW x \in ids PROVE <<Key(<<x>>)>> \in Seq(S)
    <3> DEFINE seg == Key(<<x>>)
    <3>1. seg \in S
      BY <1>1, <1>3
    <3> HIDE DEF seg
    <3>2. <<seg>> \in Seq(S)
      BY <3>1
    <3>3. QED
      BY <3>2 DEF seg
  <2>2. <<>> \in Seq(S)
    OBVIOUS
  <2>3. QED
    BY <2>1, <2>2
<1>8. IsInserted(S, home, Expressions, entries, u)
  BY <1>5, <1>6, <1>7, Inserted
<1> HIDE DEF u, path, one
<1>9. ASSUME id \in ids PROVE path \in DOMAIN u
  <2>1. one \in DOMAIN entries
    BY <1>9 DEF one
  <2>2. QED
    BY <1>2, <1>8, <2>1 DEF IsInserted
<1>10. ASSUME path \in DOMAIN u PROVE id \in ids
  <2>1. PICK r \in DOMAIN entries : path = Expressions \o r
    BY <1>2, <1>8, <1>10 DEF IsInserted
  <2>2. Relative(Expressions, Expressions \o r) = r
    <3>1. r \in Seq(S)
      BY <1>7
    <3>2. QED
      BY <1>5, <3>1, Joining
  <2>3. r = one
    BY <1>2, <2>1, <2>2
  <2>4. one # <<>>
    BY DEF one
  <2>5. PICK x \in ids : one = <<Key(<<x>>)>>
    BY <2>3, <2>4
  <2>6. id = x
    BY <2>5, KeysDiffer DEF one
  <2>7. QED
    BY <2>6
<1>11. QED
  BY <1>9, <1>10 DEF u, path

\* The entries of the body that is sent are those of the features marked.
LEMMA RepliedEntries ==
    ASSUME NEW b, NEW kind \in {"html", "json"}, IsBody(b, kind),
           kind = "html" => IsPage(b.value), kind = "json" => IsTreeOf(b.value),
           MatchedIds \subseteq {f.id : f \in Range(world.listed)}, matched # <<>>,
           NEW text, text.form = b.kind, text.value = InjectExpressions(b).value, HasRoom(text)
    PROVE  Entered(text) = MatchedIds
<1>1. b.kind = kind
  BY DEF IsBody
<1>2. CASE kind = "html"
  <2> DEFINE doc == b.value
             S == Range(doc)
             page == AppendToBody(doc, <<RreScript>>)
  <2>1. text.value = page
    <3>1. InjectExpressions(b) = [b EXCEPT !.value = page]
      BY <1>1, <1>2 DEF InjectExpressions
    <3> HIDE DEF page
    <3>2. [b EXCEPT !.value = page].value = page
      BY DEF IsBody
    <3>3. QED
      BY <3>1, <3>2
  <2>2. doc \in Seq(S) /\ \A t \in S : IsToken(t)
    BY <1>2 DEF IsPage
  <2> HIDE DEF doc, S
  <2> DEFINE script == RreScript
             R == S \union {script}
  <2>3. doc \in Seq(R) /\ <<script>> \in Seq(R) /\ Range(<<script>>) = {script}
    <3>1. S \subseteq R /\ script \in R
      OBVIOUS
    <3> HIDE DEF R, script
    <3>2. doc \in Seq(R)
      BY <2>2, <3>1, WiderLists
    <3>3. <<script>> \in Seq(R)
      BY <3>1
    <3>4. Range(<<script>>) = {script}
      BY DEF Range
    <3>5. QED
      BY <3>2, <3>3, <3>4
  <2> HIDE DEF R
  <2>4. Range(page) = Range(doc) \union Range(<<script>>)
    <3> DEFINE one == <<script>>
    <3>1. doc \in Seq(R) /\ one \in Seq(R) /\ page = AppendToBody(doc, one)
      BY <2>3
    <3> HIDE DEF one, script, page
    <3>2. Range(AppendToBody(doc, one)) = Range(doc) \union Range(one)
      BY <3>1, AppendedList
    <3>3. QED
      BY <3>1, <3>2 DEF one
  <2>5. Range(page) = S \union {script}
    BY <2>3, <2>4 DEF S
  <2>6. script = Script("rre", {<<m.id, m.version>> : m \in Range(matched)})
    BY DEF RreScript
  <2>7. Entered(text) = ScriptIds(Range(page))
    BY <1>1, <1>2, <2>1 DEF Entered, ScriptIds
  <2> HIDE DEF page, script
  <2>8. ScriptIds(S \union {script}) = {m.id : m \in Range(matched)}
    BY <2>2, <2>6, OneScriptIds
  <2>9. QED
    BY <2>5, <2>7, <2>8 DEF MatchedIds
<1>3. CASE kind = "json"
  <2> DEFINE tree == b.value
             ids == MatchedIds
             home == IF Rre \in DOMAIN tree /\ IsObject(tree, Rre) THEN tree
                     ELSE Insert(tree, Rre, EmptyObject)
             entries == [p \in {<<>>} \union {<<Key(<<id>>)>> : id \in ids} |->
                            IF p = <<>> THEN "object" ELSE "entry"]
             new == Insert(home, Expressions, entries)
  <2>1. tree[<<>>] = "object"
    <3>1. CASE tree[<<>>] # "object"
      <4>1. text.value = tree
        BY <1>1, <1>3, <3>1 DEF InjectExpressions
      <4>2. QED
        BY <1>1, <1>3, <3>1, <4>1 DEF HasRoom
    <3>2. QED
      BY <3>1
  <2>2. text.value = new
    <3>1. InjectExpressions(b) = [b EXCEPT !.value = new]
      BY <1>1, <1>3, <2>1 DEF InjectExpressions
    <3> HIDE DEF new
    <3>2. [b EXCEPT !.value = new].value = new
      BY DEF IsBody
    <3>3. QED
      BY <3>1, <3>2
  <2>3. DOMAIN entries = {<<>>} \union {<<Key(<<id>>)>> : id \in ids}
    OBVIOUS
  <2>4. PICK A : Tree(A, tree)
    BY <1>3 DEF IsTreeOf
  <2>5. \E B : DOMAIN home \subseteq Seq(B)
    <3> DEFINE E == {Key(<<"rre">>), Key(<<"feature_expressions">>)}
               B == A \union E
    <3>1. A \subseteq B /\ E \subseteq B
      OBVIOUS
    <3>2. Rre \in Seq(E)
      BY ExpressionsPath
    <3> HIDE DEF B, E, tree
    <3>3. Tree(B, tree) /\ Tree(B, EmptyObject) /\ Rre \in Seq(B)
      BY <2>4, <3>1, <3>2, WiderTree, WiderLists, EmptyObjectTree
    <3>4. DOMAIN tree \subseteq Seq(B) /\ DOMAIN EmptyObject \subseteq Seq(B)
      BY <3>3 DEF Tree
    <3> DEFINE planted == Insert(tree, Rre, EmptyObject)
    <3>5. IsInserted(B, tree, Rre, EmptyObject, planted)
      BY <3>3, <3>4, Inserted
    <3> HIDE DEF planted
    <3>6. DOMAIN planted \subseteq Seq(B)
      BY <3>5 DEF IsInserted
    <3>7. home = tree \/ home = planted
      BY DEF planted
    <3>8. QED
      BY <3>4, <3>6, <3>7
  <2>6. PICK B : DOMAIN home \subseteq Seq(B)
    BY <2>5
  <2> HIDE DEF home, entries
  <2>7. \A id : EntryPath(id) \in DOMAIN new <=> id \in ids
    BY <2>3, <2>6, EntriesThere
  <2> HIDE DEF new, ids
  <2>8. Entered(text) = {f.id : f \in {f \in Range(world.listed) : EntryPath(f.id) \in DOMAIN new}}
    BY <1>1, <1>3, <2>2 DEF Entered
  <2>9. Entered(text) = {f.id : f \in {f \in Range(world.listed) : f.id \in ids}}
    BY <2>7, <2>8
  <2>10. ids \subseteq {f.id : f \in Range(world.listed)}
    BY DEF ids
  <2>11. Entered(text) = ids
    BY <2>9, <2>10
  <2>12. QED
    BY <2>11 DEF ids
<1>4. QED
  BY <1>2, <1>3

\* What is preserved was kept.
LEMMA PreservedKept ==
    ASSUME NEW b, NEW kind \in {"html", "json"}, IsBody(b, kind),
           Preserved(Up.wire.text.value, b), NEW text, text.form = b.kind, text.value = b.value
    PROVE  BodyKept(text)
<1>1. b.kind = kind
  BY DEF IsBody
<1>2. QED
  BY <1>1 DEF Preserved, Extended, BodyKept

-----------------------------------------------------------------------------
(* The stamps *)

IsOne(S) == S = {} \/ \E x : S = {x}

\* A feature that is served is listed; what is left of its actions are the
\* world's.
IsTurn(w, f) ==
    /\ {"id", "left", "applied"} \subseteq DOMAIN f
    /\ f.id \in {g.id : g \in Range(w.listed)}
    /\ f.left \in Seq(ActionsIn(w))
    /\ f.applied \in BOOLEAN

\* The body and the stamps of a response.
Agrees(r) ==
    IF r.marks = {} THEN BodyKept(r.wire.text)
    ELSE HasRoom(r.wire.text) => Entered(r.wire.text) = r.marks

\* While nothing is applied, the running body has all that the upstream's has
\* and at most empty objects more.
StampsInv ==
    /\ IsOne(serving) /\ IsOne(body) /\ IsOne(response) /\ IsOne(journey)
    /\ phase \in {"copy", "send", "decode", "fold", "sent", "panicked"}
    /\ phase \in {"decode", "fold"} => ContentKind(Up) \in {"html", "json"}
    /\ \A b \in body : b.kind = "json" => IsTreeOf(b.value)
    /\ \A m \in Range(matched) : m.id \in {f.id : f \in Range(world.listed)}
    /\ \A f \in serving : IsTurn(world, f)
    /\ phase = "fold" /\ ~anyApplied /\ (\A f \in serving : ~f.applied) =>
          \A b \in body : Preserved(Up.wire.text.value, b)
    /\ Up.error = "none" => \A r \in response : Agrees(r)

LEMMA AgreesKept ==
    ASSUME world' = world
    PROVE  \A r : Agrees(r)' <=> Agrees(r)
BY DEF Agrees, HasRoom, Entered, BodyKept, Up

LEMMA PassedAgrees ==
    ASSUME NEW headers, NEW r \in Stamped(Up, headers, Up.wire, "skipped", {})
    PROVE  Agrees(r)
<1>1. r.wire.text = Up.wire.text /\ r.marks = {}
  BY DEF Stamped
<1>2. BodyKept(Up.wire.text)
  BY DEF BodyKept
<1>3. QED
  BY <1>1, <1>2 DEF Agrees

\* Of a body the features were shown.
LEMMA RepliedAgrees ==
    ASSUME PagesInv, MarksInv, StampsInv, Reply, NEW r \in response'
    PROVE  Up.error = "none" => Agrees(r)
<1> DEFINE b == Running
           kind == ContentKind(Up)
           value == InjectExpressions(b).value
           text == [form |-> b.kind, value |-> value]
           was == Up.wire.text.value
<1>1. phase = "fold" /\ serving = {}
  BY DEF Reply
<1>2. b \in body /\ IsBody(b, kind) /\ (kind = "html" => IsPage(b.value)) /\ kind \in {"html", "json"}
  <2>1. b \in body
    BY <1>1 DEF PagesInv, Running
  <2>2. IsRunning(world, b)
    BY <2>1 DEF PagesInv
  <2>3. QED
    BY <1>1, <2>1, <2>2 DEF IsRunning, StampsInv, Up
<1>3. b.kind = kind /\ (kind = "json" => IsTreeOf(b.value))
  <2>1. b.kind = kind
    BY <1>2 DEF IsBody
  <2>2. QED
    BY <1>2, <2>1 DEF StampsInv
<1>4. r.wire.text = text /\ r.marks = MatchedIds
  <2>1. \E headers, wire : /\ wire.text = text
                           /\ response' = Stamped(Up, headers, wire,
                                             IF anyApplied THEN "ok" ELSE "skipped", MatchedIds)
    BY DEF Reply, Reencoded, Wire
  <2> HIDE DEF text
  <2>2. QED
    BY <2>1 DEF Stamped, Setting
<1>5. text.form = b.kind /\ text.value = value
  OBVIOUS
<1>6. MatchedIds \subseteq {f.id : f \in Range(world.listed)}
  BY DEF StampsInv, MatchedIds
<1> HIDE DEF text
<1>7. CASE anyApplied
  <2>1. matched # <<>>
    BY <1>7 DEF MarksInv
  <2> HIDE DEF b, kind
  <2>2. HasRoom(text) => Entered(text) = MatchedIds
    BY <1>2, <1>3, <1>5, <1>6, <2>1, RepliedEntries
  <2>3. MatchedIds # {}
    <3> DEFINE R == Range(matched)
    <3>1. matched \in Seq(R)
      BY DEF MarksInv
    <3> HIDE DEF R
    <3>2. matched[1] \in R
      BY <2>1, <3>1
    <3>3. QED
      BY <3>2 DEF MatchedIds, R
  <2>4. QED
    BY <1>4, <2>2, <2>3 DEF Agrees
<1>8. CASE ~anyApplied
  <2>1. matched = <<>>
    BY <1>8 DEF MarksInv
  <2>2. value = b.value
    BY <2>1 DEF InjectExpressions
  <2>3. MatchedIds = {}
    BY <2>1 DEF MatchedIds, Range
  <2>4. Preserved(was, b)
    BY <1>1, <1>2, <1>8 DEF StampsInv
  <2> HIDE DEF b, kind, value
  <2>5. BodyKept(text)
    BY <1>2, <1>5, <2>2, <2>4, PreservedKept
  <2>6. QED
    BY <1>4, <2>3, <2>5 DEF Agrees
<1>9. QED
  BY <1>7, <1>8

LEMMA StampedOne ==
    ASSUME NEW u, NEW headers, NEW wire, NEW apply, NEW marks
    PROVE  IsOne(Stamped(u, headers, wire, apply, marks))
BY DEF IsOne, Stamped

LEMMA PassStamps ==
    ASSUME PagesInv, StampsInv, SendUpstream
    PROVE  StampsInv'
<1>1. world' = world /\ UNCHANGED <<serving, body, matched, anyApplied, journey>> /\ phase = "send"
  BY DEF SendUpstream
<1>2. Up' = Up /\ \A r : Agrees(r)' <=> Agrees(r)
  BY <1>1, AgreesKept DEF Up
<1>3. body = {} /\ serving = {}
  BY <1>1 DEF PagesInv
<1>4. CASE Up.error # "none"
  <2>1. phase' = "sent" /\ \E x : response' = {x}
    BY <1>4, ZenonT(30) DEF SendUpstream
  <2>2. QED
    BY <1>1, <1>2, <1>3, <1>4, <2>1 DEF StampsInv, IsOne
<1>5. CASE Up.error = "none"
  <2>1. \/ /\ response' = Stamped(Up, StripHopByHop(received'), Up.wire, "skipped", {})
           /\ phase' = "sent"
        \/ response' = response /\ phase' = "decode" /\ ContentKind(Up) # "other"
    BY <1>5 DEF SendUpstream
  <2>2. ContentKind(Up) \in {"html", "json", "other"}
    BY DEF ContentKind
  <2>3. IsOne(response') /\ \A r \in response' : Agrees(r)
    <3>1. CASE response' = Stamped(Up, StripHopByHop(received'), Up.wire, "skipped", {})
      <4> DEFINE headers == StripHopByHop(received')
      <4> HIDE DEF headers
      <4>1. response' = Stamped(Up, headers, Up.wire, "skipped", {})
        BY <3>1 DEF headers
      <4>2. \A h : \A r \in Stamped(Up, h, Up.wire, "skipped", {}) : Agrees(r)
        BY <1>5, PassedAgrees DEF PagesInv
      <4>3. IsOne(response')
        BY <4>1, StampedOne
      <4>4. QED
        BY <4>1, <4>2, <4>3
    <3>2. CASE response' = response
      BY <1>5, <3>2 DEF StampsInv
    <3>3. QED
      BY <2>1, <3>1, <3>2
  <2>4. phase' \in {"sent", "decode"} /\ (phase' = "decode" => ContentKind(Up) \in {"html", "json"})
    BY <2>1, <2>2
  <2>5. QED
    BY <1>1, <1>2, <1>3, <1>5, <2>3, <2>4 DEF StampsInv
<1>6. QED
  BY <1>4, <1>5

LEMMA DecodeStamps ==
    ASSUME PagesInv, StampsInv, Decode
    PROVE  StampsInv'
<1> DEFINE kind == ContentKind(Up)
           was == Up.wire.text.value
           start == Fetched(world)
<1>1. world' = world /\ UNCHANGED <<serving, matched, anyApplied, journey>> /\ phase = "decode"
  BY DEF Decode
<1>2. Up' = Up /\ \A r : Agrees(r)' <=> Agrees(r)
  BY <1>1, AgreesKept DEF Up
<1>3. body = {} /\ serving = {} /\ Up.error = "none" /\ kind \in {"html", "json"} /\ IsMet(world)
  BY <1>1 DEF PagesInv, StampsInv
<1>4. \/ /\ response' = Stamped(Up, received, Up.wire, "skipped", {})
         /\ phase' = "sent" /\ body' = body
      \/ /\ response' = response /\ phase' = "fold" /\ body' = {start}
         /\ Decodes(Up) /\ (kind = "json" => Up.wire.text.form = "json")
  BY DEF Decode, Fetched, Up
<1>5. CASE /\ response' = Stamped(Up, received, Up.wire, "skipped", {})
           /\ phase' = "sent" /\ body' = body
  <2>1. IsOne(response') /\ \A r \in response' : Agrees(r)
    BY <1>3, <1>5, StampedOne, PassedAgrees
  <2>2. QED
    BY <1>1, <1>2, <1>3, <1>5, <2>1 DEF StampsInv
<1>6. CASE /\ response' = response /\ phase' = "fold" /\ body' = {start}
           /\ Decodes(Up) /\ (kind = "json" => Up.wire.text.form = "json")
  <2>1. start.kind = kind /\ start.value = was
    BY DEF Fetched, Up
  <2>2. kind = "json" => IsTree(was)
    BY <1>3, <1>6 DEF IsMet, IsText, Up
  <2> HIDE DEF start, was, kind
  <2>3. start.kind = "json" => IsTreeOf(start.value)
    BY <2>1, <2>2, TreeIsOf
  <2>4. Preserved(was, start)
    BY <1>3, <2>1 DEF Preserved, Extended
  <2>5. IsOne(body') /\ \A b \in body' : b = start
    BY <1>6 DEF IsOne
  <2>6. IsOne(response') /\ \A r \in response' : Agrees(r)
    BY <1>3, <1>6 DEF StampsInv
  <2>7. QED
    BY <1>1, <1>2, <1>3, <1>6, <2>2, <2>3, <2>4, <2>5, <2>6 DEF StampsInv, kind, was
<1>7. QED
  BY <1>4, <1>5, <1>6

LEMMA StartStamps ==
    ASSUME PagesInv, StampsInv, StartFeature
    PROVE  StampsInv'
<1>1. world' = world /\ UNCHANGED <<phase, body, matched, anyApplied, response, journey>>
      /\ phase = "fold" /\ serving = {} /\ queue # <<>>
  BY DEF StartFeature
<1>2. Up' = Up /\ \A r : Agrees(r)' <=> Agrees(r)
  BY <1>1, AgreesKept DEF Up
<1> DEFINE first == queue[1]
           versions == world.served[first.id]
<1>3. first \in Range(world.listed) /\ first.id \in DOMAIN world.served
  <2> DEFINE L == Range(world.listed)
  <2>1. queue \in Seq(L)
    BY DEF PagesInv
  <2> HIDE DEF L
  <2>2. first \in L
    BY <1>1, <2>1
  <2>3. QED
    BY <2>2 DEF L, PagesInv, IsWorld
<1>4. \A v \in versions : IsVersion(v) /\ versions = {v}
  BY <1>3 DEF PagesInv, IsWorld
<1>5. serving' = {[id |-> first.id, version |-> v.number, outcomes |-> v.outcomes,
                   left |-> Answer(Canvas(v), Shown(Canvas(v), Running)),
                   run |-> <<>>, applied |-> FALSE] :
                    v \in {v \in versions : SelectorMatches(v.gate, Running)}}
  BY DEF StartFeature
<1>6. IsOne(serving')
  <2> DEFINE turn(v) == [id |-> first.id, version |-> v.number, outcomes |-> v.outcomes,
                         left |-> Answer(Canvas(v), Shown(Canvas(v), Running)),
                         run |-> <<>>, applied |-> FALSE]
             open == {v \in versions : SelectorMatches(v.gate, Running)}
  <2>1. serving' = {turn(v) : v \in open}
    BY <1>5
  <2>2. open = {} \/ \E v : open = {v}
    BY <1>4
  <2> HIDE DEF turn, open
  <2>3. QED
    BY <2>1, <2>2 DEF IsOne
<1>7. ASSUME NEW f \in serving' PROVE IsTurn(world, f) /\ f.applied = FALSE
  <2>1. PICK v \in versions :
           f = [id |-> first.id, version |-> v.number, outcomes |-> v.outcomes,
                left |-> Answer(Canvas(v), Shown(Canvas(v), Running)),
                run |-> <<>>, applied |-> FALSE]
    BY <1>5
  <2> DEFINE canvas == CanvasIn(world, v)
             shown == Shown(canvas, Running)
             left == Answer(canvas, shown)
  <2>2. /\ f.id = first.id /\ f.left = left /\ f.applied = FALSE
        /\ {"id", "left", "applied"} \subseteq DOMAIN f
    BY <2>1 DEF Canvas, CanvasIn
  <2>3. IsVersion(v)
    BY <1>4
  <2>4. IsCanvas(canvas)
    BY <2>3, CanvasIsOne
  <2>5. Range(canvas.actions) \subseteq ActionsIn(world)
    <3> DEFINE V == UNION Range(world.served)
               class == Classify(world.cookies)
               A == {Range(u.canvases[c].actions) : u \in V, c \in Classes}
    <3>1. v \in V
      BY <1>3 DEF Range
    <3>2. class \in Classes
      BY DEF Classify, Classes
    <3> HIDE DEF V, class
    <3>3. Range(v.canvases[class].actions) \in A
      BY <3>1, <3>2
    <3>4. ActionsIn(world) = UNION A
      BY DEF ActionsIn, V
    <3>5. Range(canvas.actions) \in A
      BY <3>3 DEF CanvasIn, class
    <3> HIDE DEF A, canvas
    <3>6. QED
      BY <3>4, <3>5
  <2> HIDE DEF canvas, shown
  <2>6. left \in Seq(Range(canvas.actions))
    BY <2>4, AnswerIsSeq
  <2> HIDE DEF left
  <2>7. left \in Seq(ActionsIn(world))
    BY <2>5, <2>6, WiderLists
  <2>8. first.id \in {g.id : g \in Range(world.listed)}
    BY <1>3
  <2>9. QED
    BY <2>2, <2>7, <2>8 DEF IsTurn
<1>8. QED
  BY <1>1, <1>2, <1>6, <1>7 DEF StampsInv

LEMMA ApplyStamps ==
    ASSUME PagesInv, StampsInv, ApplyAction
    PROVE  StampsInv'
<1>1. world' = world /\ UNCHANGED <<matched, anyApplied, response, journey>> /\ phase = "fold"
  BY DEF ApplyAction
<1>2. Up' = Up /\ \A r : Agrees(r)' <=> Agrees(r)
  BY <1>1, AgreesKept DEF Up
<1> DEFINE b == Running
           was == Up.wire.text.value
<1>3. PICK f \in serving : \E r \in {Apply(b, f.left[1], f.outcomes)} :
          /\ f.left # <<>>
          /\ body' = {r.tree}
          /\ serving' = {[f EXCEPT !.left = Tail(@), !.applied = @ \/ r.changed,
                                   !.run = Append(@, f.left[1].node)]}
          /\ phase' = IF r.tree.panicked THEN "panicked" ELSE "fold"
  BY DEF ApplyAction
<1> DEFINE action == f.left[1]
           r == Apply(b, action, f.outcomes)
<1>4. /\ f.left # <<>> /\ body' = {r.tree} /\ phase' \in {"panicked", "fold"}
      /\ serving' = {[f EXCEPT !.left = Tail(@), !.applied = @ \/ r.changed,
                               !.run = Append(@, f.left[1].node)]}
  BY <1>3
<1>5. IsTurn(world, f) /\ ServedIn(world, f.outcomes) /\ \A g \in serving : g = f
  BY DEF StampsInv, IsOne, PagesInv
<1>6. b \in body /\ \A c \in body : c = b
  BY <1>1 DEF Running, PagesInv, StampsInv, IsOne
<1>7. /\ IsWorld(world) /\ IsMet(world) /\ Up.error = "none" /\ IsRunning(world, b)
      /\ ContentKind(Up) \in {"html", "json"} /\ (b.kind = "json" => IsTreeOf(b.value))
  BY <1>1, <1>6 DEF PagesInv, StampsInv
<1>8. action \in ActionsIn(world) /\ Tail(f.left) \in Seq(ActionsIn(world))
  <2> DEFINE A == ActionsIn(world)
             left == f.left
  <2>1. left \in Seq(A) /\ left # <<>>
    BY <1>4, <1>5 DEF IsTurn
  <2> HIDE DEF A, left
  <2>2. left[1] \in A /\ Tail(left) \in Seq(A)
    BY <2>1
  <2>3. QED
    BY <2>2 DEF A, left
<1>9. /\ r.tree.kind = "json" => IsTreeOf(r.tree.value)
      /\ r.changed \in BOOLEAN
      /\ ~r.changed => \A x : Preserved(x, b) => Preserved(x, r.tree)
  <2> DEFINE outcomes == f.outcomes
             w == world
  <2>1. ServedIn(w, outcomes) /\ action \in ActionsIn(w) /\ w.upstream.error = "none"
        /\ ContentKind(w.upstream) \in {"html", "json"} /\ IsWorld(w) /\ IsMet(w) /\ IsRunning(w, b)
    BY <1>5, <1>7, <1>8 DEF Up
  <2> HIDE DEF outcomes, action, b, w
  <2>2. LET s == Apply(b, action, outcomes) IN
        /\ s.tree.kind = "json" => IsTreeOf(s.tree.value)
        /\ s.changed \in BOOLEAN
        /\ ~s.changed => \A x : Preserved(x, b) => Preserved(x, s.tree)
    BY <1>7, <2>1, ApplyDoes
  <2>3. QED
    BY <2>2 DEF outcomes
<1> HIDE DEF r, action
<1>10. PICK g : /\ serving' = {g} /\ {"id", "left", "applied"} \subseteq DOMAIN g
                /\ g.id = f.id /\ g.left = Tail(f.left) /\ g.applied = (f.applied \/ r.changed)
  <2> DEFINE g == [f EXCEPT !.left = Tail(@), !.applied = @ \/ r.changed,
                            !.run = Append(@, f.left[1].node)]
  <2>1. {"id", "left", "applied"} \subseteq DOMAIN f
    BY <1>5 DEF IsTurn
  <2>2. DOMAIN g = DOMAIN f /\ g.id = f.id /\ g.left = Tail(f.left)
    BY <2>1
  <2>3. g.applied = (f.applied \/ r.changed)
    BY <2>1
  <2>4. serving' = {g}
    BY <1>4
  <2> HIDE DEF g
  <2>5. QED
    BY <2>1, <2>2, <2>3, <2>4
<1>11. IsTurn(world, g)
  <2>1. f.id \in {h.id : h \in Range(world.listed)}
    BY <1>5 DEF IsTurn
  <2>2. g.applied \in BOOLEAN
    BY <1>10
  <2>3. QED
    BY <1>8, <1>10, <2>1, <2>2 DEF IsTurn
<1>12. ASSUME ~anyApplied, ~g.applied PROVE Preserved(was, r.tree)
  <2>1. ~f.applied /\ ~r.changed
    BY <1>10, <1>12
  <2>2. Preserved(was, b)
    BY <1>1, <1>5, <1>6, <1>12, <2>1 DEF StampsInv
  <2>3. QED
    BY <1>9, <2>1, <2>2
<1> DEFINE tree == r.tree
<1> HIDE DEF was, tree, b
<1>13. /\ IsOne(serving') /\ IsOne(body') /\ phase' \in {"panicked", "fold"}
       /\ (\A c \in body' : c = tree) /\ (\A h \in serving' : h = g) /\ g \in serving'
  BY <1>4, <1>10 DEF IsOne, tree
<1>14. tree.kind = "json" => IsTreeOf(tree.value)
  BY <1>9 DEF tree
<1>15. ~anyApplied /\ ~g.applied => Preserved(was, tree)
  BY <1>12 DEF tree
<1>16. QED
  BY <1>1, <1>2, <1>11, <1>13, <1>14, <1>15 DEF StampsInv, was

LEMMA EndStamps ==
    ASSUME PagesInv, MarksInv, StampsInv, EndFeature
    PROVE  StampsInv'
<1>1. world' = world /\ UNCHANGED <<phase, body, response, journey>> /\ phase = "fold" /\ serving' = {}
  BY DEF EndFeature
<1>2. Up' = Up /\ \A r : Agrees(r)' <=> Agrees(r)
  BY <1>1, AgreesKept DEF Up
<1>3. PICK f \in serving :
          /\ matched' = IF Marks(f) THEN Append(matched, Entry(f)) ELSE matched
          /\ anyApplied' = (anyApplied \/ f.applied)
  BY DEF EndFeature
<1>4. IsTurn(world, f) /\ \A g \in serving : g = f
  BY DEF StampsInv, IsOne
<1> DEFINE ids == {g.id : g \in Range(world.listed)}
<1>5. \A m \in Range(matched') : m.id \in ids
  <2>1. \A m \in Range(matched) : m.id \in ids
    BY DEF StampsInv
  <2> DEFINE e == Entry(f)
             old == matched
             R == Range(old)
             S == R \union {e}
  <2>2. e.id \in ids
    BY <1>4 DEF Entry, IsTurn
  <2>3. old \in Seq(R)
    BY DEF MarksInv
  <2>4. R \subseteq S /\ e \in S /\ \A m \in S : m.id \in ids
    BY <2>1, <2>2
  <2> HIDE DEF e, R, S, ids, old
  <2>5. old \in Seq(S)
    BY <2>3, <2>4, WiderLists
  <2>6. Append(old, e) \in Seq(S)
    BY <2>4, <2>5, AppendProperties
  <2> DEFINE new == Append(old, e)
  <2> HIDE DEF new
  <2>7. Range(new) \subseteq S
    BY <2>6, ListOfOwn DEF new
  <2>8. matched' = new \/ matched' = old
    BY <1>3 DEF new, e, old
  <2>9. QED
    BY <2>1, <2>4, <2>7, <2>8 DEF old
<1>6. ~anyApplied' => \A b \in body : Preserved(Up.wire.text.value, b)
  <2>1. ~anyApplied' => ~anyApplied /\ \A g \in serving : ~g.applied
    BY <1>3, <1>4
  <2>2. QED
    BY <1>1, <2>1 DEF StampsInv
<1>7. IsOne(serving')
  BY <1>1 DEF IsOne
<1>8. QED
  BY <1>1, <1>2, <1>5, <1>6, <1>7 DEF StampsInv

LEMMA ReplyStamps ==
    ASSUME PagesInv, MarksInv, StampsInv, Reply
    PROVE  StampsInv'
<1>1. world' = world /\ UNCHANGED <<serving, body, matched, anyApplied, journey>> /\ phase' = "sent"
  BY DEF Reply, pipeline
<1>2. Up' = Up /\ \A r : Agrees(r)' <=> Agrees(r)
  BY <1>1, AgreesKept DEF Up
<1>3. \A r \in response' : Up.error = "none" => Agrees(r)
  BY RepliedAgrees
<1>4. IsOne(response')
  <2>1. \E headers, wire, apply, marks : response' = Stamped(Up, headers, wire, apply, marks)
    BY DEF Reply
  <2>2. QED
    BY <2>1, StampedOne
<1>5. QED
  BY <1>1, <1>2, <1>3, <1>4 DEF StampsInv

LEMMA NextStamps == PagesInv /\ MarksInv /\ StampsInv /\ [Next]_vars => StampsInv'
<1> SUFFICES ASSUME PagesInv, MarksInv, StampsInv, [Next]_vars PROVE StampsInv'
  OBVIOUS
<1>1. CASE CopyHeaders \/ SetSiteHeader
  <2>1. /\ UNCHANGED <<world, serving, body, matched, anyApplied, response, journey>>
        /\ phase' = "send"
    BY <1>1 DEF CopyHeaders, SetSiteHeader
  <2>2. Up' = Up /\ \A r : Agrees(r)' <=> Agrees(r)
    BY <2>1, AgreesKept DEF Up
  <2>3. QED
    BY <2>1, <2>2 DEF StampsInv
<1>2. CASE RunJourney
  <2>1. UNCHANGED <<world, phase, serving, body, matched, anyApplied, response>>
    BY <1>2 DEF RunJourney, pipeline
  <2>2. IsOne(journey')
    BY <1>2 DEF RunJourney, IsOne
  <2>3. Up' = Up /\ \A r : Agrees(r)' <=> Agrees(r)
    BY <2>1, AgreesKept DEF Up
  <2>4. QED
    BY <2>1, <2>2, <2>3 DEF StampsInv
<1>3. CASE Finished \/ UNCHANGED vars
  <2>1. UNCHANGED <<world, phase, serving, body, matched, anyApplied, response, journey>>
    BY <1>3 DEF Finished, vars, pipeline
  <2>2. Up' = Up /\ \A r : Agrees(r)' <=> Agrees(r)
    BY <2>1, AgreesKept DEF Up
  <2>3. QED
    BY <2>1, <2>2 DEF StampsInv
<1>4. QED
  BY <1>1, <1>2, <1>3, PassStamps, DecodeStamps, StartStamps, ApplyStamps, EndStamps, ReplyStamps
     DEF Next

LEMMA StampsKept == Spec => [](PagesInv /\ MarksInv /\ StampsInv)
<1>1. Init => StampsInv
  <2>1. Range(<<>>) = {}
    BY DEF Range
  <2>2. QED
    BY <2>1 DEF Init, StampsInv, IsOne
<1>2. QED
  BY <1>1, FirstPages, FirstMarks, NextPages, NextMarks, NextStamps, PTL DEF Spec

\* apply_features_html, apply_features_json, inject_expressions and set_path:
\* whatever features a request meets and whatever their actions do to its body,
\* below rre.feature_expressions too, a response that names features in its
\* headers has the entries of these features in its body and of no other, where
\* that has room for entries; one that names none does not say "ok" and has the
\* upstream's body, at most with empty objects more where a path was prepared
\* and then could not be set.
THEOREM StampsAlwaysAgree == Spec => []StampsAgree
<1>1. MarksInv /\ StampsInv => StampsAgree
  BY DEF MarksInv, StampsInv, StampsAgree, Sent, Agrees
<1>2. QED
  BY <1>1, StampsKept, PTL

\* A request is in one phase and has at most one running feature, body, answer
\* and journey; a JSON body is a tree whatever its paths, components and actions
\* do to it - the elements behind a removed one are numbered again, no value is
\* below a scalar - and only listed features are marked.
THEOREM TypeAlwaysOK == Spec => []TypeOK
<1> DEFINE Answered == phase = "sent" <=> response # {}
<1>1. \A S : IsOne(S) => Cardinality(S) <= 1
  <2>1. Cardinality({}) = 0
    BY FS_EmptySet
  <2>2. \A x : Cardinality({x}) = 1
    BY FS_Singleton
  <2>3. ASSUME NEW S, IsOne(S) PROVE Cardinality(S) = 0 \/ Cardinality(S) = 1
    BY <2>1, <2>2, <2>3 DEF IsOne
  <2>4. QED
    BY <2>3
<1>2. StampsInv => \A b \in body : b.kind = "json" => WellFormed(b.value)
  BY TreeIs DEF StampsInv, IsTreeOf
<1>3. StampsInv => MatchedIds \subseteq {f.id : f \in Range(world.listed)}
  BY DEF StampsInv, MatchedIds
<1>4. StampsInv /\ Answered => TypeOK
  <2> SUFFICES ASSUME StampsInv, Answered PROVE TypeOK
    OBVIOUS
  <2>1. \A S \in {serving, body, response, journey} : Cardinality(S) <= 1
    BY <1>1 DEF StampsInv
  <2>2. phase \in {"copy", "send", "decode", "fold", "sent", "panicked"}
    BY DEF StampsInv
  <2>3. QED
    BY <1>2, <1>3, <2>1, <2>2 DEF TypeOK
<1>5. Spec => []Answered
  BY AnsweredOnce, PTL
<1>6. QED
  BY <1>4, <1>5, StampsKept, PTL

=============================================================================
