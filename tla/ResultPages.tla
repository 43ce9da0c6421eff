------------------------------ MODULE ResultPages ------------------------------
(***************************************************************************)
(* How precheck.read cuts the answer to a query over one sealed Result     *)
(* into pages (precheck/read.py).  A page holds at most `limit` items and  *)
(* its encoding at most Budget bytes; a cursor bound to the query and the  *)
(* limit continues it.  A review delivers an item whose picture is not     *)
(* available, or which no page can hold, as a fault in its place, and may  *)
(* carry a page of the Run's execution audit inside the same bytes.        *)
(* Sizes are in units of which Budget is the response limit.               *)
(***************************************************************************)
EXTENDS Integers, Sequences, SequencesExt, FiniteSetsExt

CONSTANTS Budget,      \* _MAX_RESPONSE_BYTES
          Base,        \* the envelope that every response of a query carries
          Cursor,      \* next_cursor, when there is one
          StopReason,  \* stop_reason
          Fault,       \* an item's fault record
          AuditBase,   \* the audit's own summary with the key that holds it
          ItemSizes,        \* the sizes a review item may have
          Memberships, Audits,   \* sequences of sizes: member lists, audit records
          MaxItems, Limits, AuditLimits, \* an audit limit of 0 is no audit
          MaxFlips

VARIABLES content,   \* query -> the sizes of its items, fixed by the Result
          audit,     \* the sizes of the audit records
          gone,      \* review positions whose artifact is missing or altered
          held,      \* query -> the cursor the reader holds for its next page
          walk,      \* query -> the positions delivered by the walk so far
          last       \* the latest request and what it was answered
vars == <<content, audit, gone, held, walk, last>>

\* review pages with faults; resolve, geo_summary and member_observations
\* page without them.
Queries == {"review", "members"}

Start == [from |-> "start", offset |-> 0, limit |-> 0]
End == [from |-> "end", offset |-> 0, limit |-> 0]
Unanswered == [error |-> "none", taken |-> <<>>, offset |-> 0, next |-> 0, stop |-> FALSE, size |-> 0]

-----------------------------------------------------------------------------
(* One item as it is read now: its size and whether it is a fault. *)
Item(q, i) == IF q = "review" /\ i \in gone THEN [size |-> Fault, fault |-> TRUE]
              ELSE [size |-> content[q][i], fault |-> FALSE]
ItemsOf(q) == [i \in DOMAIN content[q] |-> Item(q, i)]
AuditItems == [i \in DOMAIN audit |-> [size |-> audit[i], fault |-> FALSE]]

-----------------------------------------------------------------------------
(* The shared envelope with the page record of a page that ends at `next`. *)
Envelope(base, n, next, stop) ==
  base + (IF next < n THEN Cursor + (IF stop THEN StopReason ELSE 0) ELSE 0)

\* k items from `offset` with the commas between them.
Bytes(values, offset, k) ==
  LET upTo[i \in 0..k] == IF i = 0 THEN 0 ELSE upTo[i - 1] + values[offset + i].size + (IF i > 1 THEN 1 ELSE 0)
  IN upTo[k]

\* Variant: the search ends at the first item with no room for a stop reason.
PrefixHasty(base, values, offset, end, budget) ==
  LET short == {k \in 0..(end - offset) : \A j \in 1..k :
                  Envelope(base, Len(values), offset + j, TRUE) + Bytes(values, offset, j) <= budget}
  IN [k |-> Max(short), stop |-> Max(short) < end - offset]

(* The prefix one pass over the batch settles on: the whole batch when it  *)
(* fits without a stop reason, or else the longest that fits with one,     *)
(* looked for until not even the smaller envelope would do.                *)
Prefix(base, values, offset, end, budget) ==
  LET n == Len(values)
      full == Envelope(base, n, end, FALSE)
      seen == {k \in 1..(end - offset) : \A j \in 1..(k - 1) : full + Bytes(values, offset, j) <= budget}
      whole == {k \in seen : k = end - offset /\ full + Bytes(values, offset, k) <= budget}
      short == {k \in seen : Envelope(base, n, offset + k, TRUE) + Bytes(values, offset, k) <= budget}
  IN IF whole # {} THEN [k |-> end - offset, stop |-> FALSE]
     ELSE [k |-> Max({0} \union short), stop |-> TRUE]

Refuse(code) == [Unanswered EXCEPT !.error = code]
Respond(base, values, offset, p) ==
  [error |-> "none", taken |-> SubSeq(values, offset + 1, offset + p.k), offset |-> offset,
   next |-> offset + p.k, stop |-> p.stop /\ offset + p.k < Len(values),
   size |-> Envelope(base, Len(values), offset + p.k, p.stop) + Bytes(values, offset, p.k)]

(* A page.  `bare` is the envelope without the audit: with faults allowed, *)
(* an item that fits no page of its own becomes a fault, unless it is the  *)
(* audit that takes its room.                                              *)
Paged(base, bare, values, offset, limit, budget, faults) ==
  LET n == Len(values)
      end == IF offset + limit < n THEN offset + limit ELSE n
      alone == Envelope(bare, n, offset + 1, end > offset + 1) + values[offset + 1].size
      marked == [values EXCEPT ![offset + 1] = [size |-> Fault, fault |-> TRUE]]
      first == Prefix(base, values, offset, end, budget)
      second == Prefix(base, marked, offset, end, budget)
  IN IF offset > n THEN Refuse("invalid_cursor")
     ELSE IF Envelope(base, n, n, FALSE) > budget THEN Refuse("envelope_too_large")
     ELSE IF offset = end THEN Respond(base, values, offset, [k |-> 0, stop |-> FALSE])
     ELSE IF first.k > 0 THEN Respond(base, values, offset, first)
     ELSE IF ~faults \/ values[offset + 1].fault THEN Refuse("item_too_large")
     ELSE IF alone <= budget THEN Refuse("audit_too_large")
     ELSE IF second.k > 0 THEN Respond(base, marked, offset, second)
     ELSE Refuse("item_too_large")

-----------------------------------------------------------------------------
(* A cursor is good for the query and the limit it was issued for. *)
DecodeCursor(c, q, limit) == c.from = "start" \/ (c.from = q /\ c.limit = limit)

EncodeCursor(q, limit, next) == [from |-> q, offset |-> next, limit |-> limit]

(* The audit is paged first, into what a page with one item leaves over. *)
AuditPage(offset, auditLimit) ==
  LET least == Paged(Base, Base, ItemsOf("review"), offset, 1, Budget, TRUE)
  IN IF least.error # "none" THEN least
     ELSE Paged(AuditBase, AuditBase, AuditItems, 0, auditLimit, Budget - least.size, FALSE)

Answer(q, offset, limit, auditLimit) ==
  IF auditLimit = 0 THEN Paged(Base, Base, ItemsOf(q), offset, limit, Budget, q = "review")
  ELSE LET room == AuditPage(offset, auditLimit)
       IN IF room.error # "none" THEN room
          ELSE Paged(Base + room.size, Base, ItemsOf(q), offset, limit, Budget, TRUE)

\* No request since the reader or the disk last changed something.
Unasked == [query |-> "review", limit |-> 1, audit |-> 0, answer |-> Refuse("unasked")]

(* One call of the tool: a query, a cursor the reader holds (of that query *)
(* or, by mistake, of another), a limit and, for a review, an audit page.  *)
Read(q, from, limit, auditLimit) ==
  LET c == held[from]
      a == Answer(q, c.offset, limit, auditLimit)
      before == IF c.from = "start" THEN <<>> ELSE walk[q]
  IN /\ c # End
     /\ auditLimit > 0 => q = "review"
     /\ IF ~DecodeCursor(c, q, limit) \/ a.error # "none"
        THEN /\ last' = [query |-> q, limit |-> limit, audit |-> auditLimit,
                         answer |-> IF DecodeCursor(c, q, limit) THEN a ELSE Refuse("invalid_cursor")]
             /\ UNCHANGED <<held, walk>>
        ELSE /\ last' = [query |-> q, limit |-> limit, audit |-> auditLimit, answer |-> a]
             /\ held' = [held EXCEPT ![q] = IF a.next = Len(content[q]) THEN End
                                            ELSE EncodeCursor(q, limit, a.next)]
             /\ walk' = [walk EXCEPT ![q] = before \o [i \in 1..Len(a.taken) |-> a.offset + i]]
     /\ UNCHANGED <<content, audit, gone>>

(* The reader begins a query again. *)
Restart(q) ==
  /\ held[q] # Start
  /\ held' = [held EXCEPT ![q] = Start]
  /\ walk' = [walk EXCEPT ![q] = <<>>]
  /\ last' = Unasked
  /\ UNCHANGED <<content, audit, gone>>

(* The file of a review item's picture is lost, or is put back. *)
Flip(i) ==
  /\ gone' = IF i \in gone THEN gone \ {i} ELSE gone \union {i}
  /\ Cardinality(gone') <= MaxFlips
  /\ last' = Unasked
  /\ UNCHANGED <<content, audit, held, walk>>

Init ==
  /\ content \in [review : BoundedSeq(ItemSizes, MaxItems), members : Memberships]
  /\ audit \in Audits
  /\ gone = {}
  /\ held = [q \in Queries |-> Start]
  /\ walk = [q \in Queries |-> <<>>]
  /\ last = Unasked

Next ==
  \/ \E q, from \in Queries, limit \in Limits, auditLimit \in AuditLimits :
       Read(q, from, limit, auditLimit)
  \/ \E q \in Queries : Restart(q)
  \/ \E i \in DOMAIN content["review"] : Flip(i)

Spec == Init /\ [][Next]_vars

-----------------------------------------------------------------------------
Cursors == [from : Queries \union {"start", "end"}, offset : 0..MaxItems, limit : {0} \union Limits]

(* Every page lies within its query and every response within the limit of *)
(* bytes.                                                                  *)
TypeOK ==
  /\ held \in [Queries -> Cursors]
  /\ gone \subseteq DOMAIN content["review"]
  /\ last.query \in Queries /\ last.limit \in Limits
  /\ last.answer.size <= Budget
  /\ Len(last.answer.taken) <= last.limit

(* A walk along the cursors delivers every position of its query once and  *)
(* in order, whatever page sizes the bytes allow, faults that come and go, *)
(* and cursors offered to the wrong query; at its end it has all of them.  *)
WalkIsExact ==
  \A q \in Queries :
    /\ walk[q] = [i \in 1..Len(walk[q]) |-> i]
    /\ held[q].from = q => held[q].offset = Len(walk[q])
    /\ held[q] = End => Len(walk[q]) = Len(content[q])

(* A response with exactly k items from the offset on. *)
Fits(q, offset, limit, k, values) ==
  LET n == Len(values)
      end == IF offset + limit < n THEN offset + limit ELSE n
  IN offset + k <= end /\ Envelope(Base, n, offset + k, offset + k < end) + Bytes(values, offset, k) <= Budget

(* No item that would have fitted is left to the next page: the early end  *)
(* of the search never costs the reader an item.                           *)
PageIsLongestStep ==
  LET a == last'.answer
      q == last'.query
      now == [i \in DOMAIN content[q] |-> IF i > a.offset /\ i <= a.next THEN a.taken[i - a.offset]
                                          ELSE Item(q, i)]
  IN last'.audit = 0 /\ a.error = "none" /\ Len(a.taken) > 0 =>
       \A k \in (Len(a.taken) + 1)..MaxItems : ~Fits(q, a.offset, last'.limit, k, now)

PageIsLongest == [][PageIsLongestStep]_last

(* A review always goes on: without an audit it is answered, and an item   *)
(* is given as too large only when no page without the audit that others   *)
(* follow could hold it.  Read one item at a time, the audit never takes   *)
(* the place of the evidence.                                              *)
ReviewGoesOnStep ==
  LET a == last'.answer
      n == Len(content["review"])
  IN last'.query = "review" =>
       /\ last'.audit = 0 => a.error \in {"none", "invalid_cursor", "unasked"}
       /\ a.error = "none" /\ a.offset < n => a.next > a.offset
       /\ last'.limit = 1 => a.error # "audit_too_large"
       /\ \A i \in DOMAIN a.taken : a.taken[i].fault /\ a.offset + i \notin gone =>
            Base + content["review"][a.offset + i] +
              (IF a.offset + i < n THEN Cursor + StopReason ELSE 0) > Budget

ReviewGoesOn == [][ReviewGoesOnStep]_last

(* docs/spec/contract/precheck-read/index.md: what could be delivered on   *)
(* its own is not reported as too large.                                   *)
OversizeIsRealStep ==
  LET a == last'.answer
      n == Len(content["review"])
  IN last'.query = "review" =>
       \A i \in DOMAIN a.taken : a.taken[i].fault /\ a.offset + i \notin gone =>
            Base + content["review"][a.offset + i] + (IF a.offset + i < n THEN Cursor ELSE 0) > Budget

OversizeIsReal == [][OversizeIsRealStep]_last
=============================================================================
