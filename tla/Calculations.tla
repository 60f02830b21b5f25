----------------------------- MODULE Calculations -----------------------------
(***************************************************************************)
(* The decisions that are pure calculations: when an email is due, how a     *)
(* lead scores, whether a draft may go out unread, how a page is cut for     *)
(* retrieval, and which meeting times a prospect is offered.  done is the    *)
(* last one made; a send time may be calculated anew at a later moment.      *)
(***************************************************************************)
EXTENDS SendTime, LeadScore, DraftGate, Chunking, FreeSlots

CONSTANTS
  Moments, DelayDays, DelayHours, Jitters,   \* inputs of calculate_next_send_time
  Texts,                                     \* texts to cut
  Searches                                   \* inputs of find_available_slots

ASSUME InputAssumption ==
  /\ Moments \subseteq Nat /\ DelayDays \subseteq Nat /\ DelayHours \subseteq Nat
  /\ Jitters \subseteq 0 .. 59
  /\ Texts \subseteq Seq(Nat \ {0})
  /\ Searches \subseteq [now : Nat, days_ahead : Nat, answers : BOOLEAN,
                         meetings : SUBSET [from : Int, to : Int,
                                            at : {"calendar", "appointments"}]]

VARIABLE done

vars == <<done>>

Nothing == [of |-> "nothing"]

Init == done = Nothing

ScheduleStep ==
  /\ done = Nothing
  /\ \E now \in Moments, d \in DelayDays, h \in DelayHours, j \in Jitters :
       done' = [of |-> "send_time", now |-> now, days |-> d, hours |-> h, jitter |-> j,
                slot |-> calculate_next_send_time(now, d, h, j)]

ScheduleLater ==
  /\ done.of = "send_time"
  /\ \E now \in Moments, j \in Jitters :
       /\ now > done.now
       /\ done' = [done EXCEPT !.now = now, !.jitter = j,
                     !.slot = calculate_next_send_time(now, done.days, done.hours, j)]

ScoreLead ==
  /\ done = Nothing
  /\ \E l \in Leads : done' = [of |-> "score", lead |-> l, score |-> evaluate_lead_score(l)]

VerifyDraft ==
  /\ done = Nothing
  /\ \E d \in Drafts, before \in Policies, after \in Policies, proven \in BOOLEAN :
       \E v \in verify_draft(d, before, after, proven) :
         done' = [of |-> "draft", draft |-> d, before |-> before, after |-> after,
                  proven |-> proven, released |-> Released(v)]

CutText ==
  /\ done = Nothing
  /\ \E text \in Texts : done' = [of |-> "chunks", text |-> text, chunks |-> chunk_text(text)]

OfferSlots ==
  /\ done = Nothing
  /\ \E s \in Searches :
       done' = [of |-> "slots", search |-> s,
                slots |-> find_available_slots(s.meetings, s.now, s.days_ahead, s.answers)]

Next ==
  \/ ScheduleStep
  \/ ScheduleLater
  \/ ScoreLead
  \/ VerifyDraft
  \/ CutText
  \/ OfferSlots

Spec == Init /\ [][Next]_vars

-----------------------------------------------------------------------------
(* Properties *)

\* A step falls due on a weekday within business hours, in the future, and never before
\* delay_days business days have passed, at every hour and weekday (scheduler.py).
SlotKept ==
  done.of = "send_time" =>
    LET slot == done.slot
    IN /\ ~Weekend(Day(slot)) /\ Hour(slot) \in start_hour .. end_hour - 1
       /\ slot > done.now
       /\ Cardinality({d \in Day(done.now) + 1 .. Day(slot) : ~Weekend(d)}) >= done.days

\* Scheduling the same step at a later moment never makes it due in an earlier hour, of that day
\* or of an earlier one, unless the minute first drawn for that hour had passed by then.  Each call
\* draws its minutes anew (scheduler.py:50), so within the hour the later may be the sooner, and
\* of two calls on both sides of a draw's minute the later may be a day ahead; a campaign
\* launched late overtakes no other by any other night, weekend or closing hour.
LaterNeverSooner ==
  [][done.of = "send_time" /\ done'.of = "send_time" =>
       \/ done'.slot - done'.jitter >= done.slot - done.jitter
       \/ done'.slot - done'.jitter + done.jitter <= done.now]_vars

\* A lead whom the scorer rules out (a student, a competitor, one who opted out, or one on a
\* free mail provider) is never HOT, whatever else speaks for it.
ExcludedNeverHot ==
  done.of = "score" =>
    (done.lead.flags # {} \/ done.lead.job_title = "out_of_scope" \/ done.lead.free_mail
       => done.score.band # "HOT")

\* The reasons shown with a score add up to it, as long as no more than one deduction is listed.
ReasonsAddUp ==
  done.of = "score" /\ Deductions(done.lead) <= 1 =>
    done.score.total = AtLeast(0, AtMost(100, done.score.listed))

\* A draft that goes out unread has every claim grounded by half, no phrase either reading of
\* the policy prohibits, research only with a source, no flag of the model's, and its
\* confidence and consent.
ReleasedDraftIsSafe ==
  done.of = "draft" /\ done.released =>
    /\ \A c \in done.draft.claims : 2 * c.found >= c.tokens
    /\ done.before.listed => done.draft.says \cap done.before.phrases = {}
    /\ ~done.before.listed => done.draft.says \cap Defaults = {}
    /\ done.after.listed => done.draft.says \cap done.after.phrases = {}
    /\ done.draft.research => done.proven
    /\ ~done.draft.flagged /\ done.draft.send /\ done.draft.confidence >= 850

\* How many words the first paragraphs of a text have, for each number of them.
WordsOf(text) ==
  LET words[p \in 0 .. Len(text)] == IF p = 0 THEN 0 ELSE words[p - 1] + text[p]
  IN words

\* No word of a page is lost to retrieval: the chunks reach from the first word to the last, every
\* paragraph is whole in a chunk, each chunk goes beyond the one before and repeats OVERLAP words
\* of it (or all when it has fewer), and one larger than the limit holds no more than that overlap
\* and the paragraph it ends with.  A paragraph may have any length (chunking.py).
ChunksCoverText ==
  done.of = "chunks" =>
    LET text   == done.text
        chunks == done.chunks
        words  == WordsOf(text)
    IN /\ (chunks = <<>>) = (text = <<>>)
       /\ chunks # <<>> => chunks[1].first = 1 /\ chunks[Len(chunks)].last = words[Len(text)]
       /\ \A i \in 1 .. Len(chunks) - 1 :
            /\ chunks[i + 1].last > chunks[i].last
            /\ chunks[i].last - chunks[i + 1].first + 1
                 = AtMost(OVERLAP, chunks[i].last - chunks[i].first + 1)
       /\ \A p \in DOMAIN text : \E i \in DOMAIN chunks :
            /\ chunks[i].first <= words[p - 1] + 1
            /\ chunks[i].last >= words[p]
       /\ \A i \in DOMAIN chunks :
            \/ chunks[i].last - chunks[i].first < PER_CHUNK
            \/ \E p \in DOMAIN text : /\ chunks[i].last = words[p]
                                      /\ chunks[i].last - chunks[i].first < OVERLAP + text[p]

\* An offered time that lies, with its buffer, in the searched days is clear of every meeting the
\* calendar or the appointments table has, unless the provider's answer failed; a meeting that
\* was over when the search began is not asked for, and the notice alone keeps clear of it.
SlotsAreFree ==
  done.of = "slots" =>
    LET s == done.search
    IN \A i \in DOMAIN done.slots :
         LET start == done.slots[i]
         IN /\ start > s.now + notice /\ (start \div DAY) % 7 \in allowed_days
            /\ start % DAY >= work_start /\ (start % DAY) + duration <= work_end
            /\ start + duration + buffer <= s.now + s.days_ahead * DAY =>
                 \A m \in s.meetings :
                   /\ m.at = "appointments" \/ s.answers
                   /\ m.to > s.now \/ buffer <= notice
                   => m.to + buffer <= start \/ m.from >= start + duration + buffer

\* A day with a free time is not skipped for a later one: no bookable start lies before an
\* offered one without being offered too.
EarliestOffered ==
  done.of = "slots" =>
    LET s == done.search
        free == {t \in s.now + notice + 1 .. s.now + s.days_ahead * DAY :
                   /\ (t \div DAY) % 7 \in allowed_days
                   /\ t % DAY >= work_start /\ (t % DAY) + duration <= work_end
                   /\ ((t % DAY) - work_start) % duration = 0
                   /\ \A m \in s.meetings : m.to + buffer <= t \/ m.from >= t + duration + buffer}
    IN \A t \in free : (\E i \in DOMAIN done.slots : done.slots[i] = t)
                         \/ (Len(done.slots) = max_slots /\ done.slots[max_slots] < t)

=============================================================================
