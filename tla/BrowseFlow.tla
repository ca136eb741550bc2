----------------------------- MODULE BrowseFlow -----------------------------
(***************************************************************************)
(* A Browse call on its way through the three servers: BrowseService and   *)
(* BrowseEngine, RankingClient and RankingService, VideoClient and         *)
(* VideoService.  Ids travel as decimal texts and are parsed again at      *)
(* every hop; the number of items comes from the ranking server's          *)
(* configuration snapshot, which a reload replaces while calls are under   *)
(* way.  How a hop finds its server is ChannelCache: here a hop may fail.  *)
(***************************************************************************)
EXTENDS Integers, Sequences

CONSTANTS
  Call,        \* concurrent calls
  Text,        \* the user id texts they carry: sequences of digits and NonDigit
  IdModulus,   \* 2^w for the width w of UserId and ItemId
  Item,        \* kItemIdMin..kItemIdMax
  Setting,     \* the values of recommend_count a configuration file may have
  Unusable,    \* a recommend_count that is absent or no non-negative integer
  NonDigit

Digit == 0..9

ASSUME TextAssumption == Text \subseteq Seq(Digit \cup {NonDigit}) /\ NonDigit \notin Int
ASSUME ItemAssumption == IdModulus \in Nat \ {0} /\ Item \subseteq 1..IdModulus - 1
ASSUME SettingAssumption == Setting \subseteq Nat \cup {Unusable} /\ Unusable \notin Int

VARIABLES
  recommendCount,   \* in the snapshot of the ranking server
  pc,               \* how far each call came
  text,             \* the user id it was made with
  user,             \* the user id as BrowseService parsed it
  wanted,           \* the recommend_count RankingEngine read
  items,            \* what Ranking returned
  videos,           \* what Fetch returned
  answer,           \* the status of the call
  inForce           \* history: values of recommend_count since the call began

callVars == <<pc, text, user, wanted, items, videos, answer>>
vars == <<recommendCount, callVars, inForce>>

-----------------------------------------------------------------------------
(* Texts *)

\* Mutant of ValueUpTo: wider arithmetic.
WideValueUpTo(t) ==
  LET v[i \in 0..Len(t)] == IF i = 0 THEN 0 ELSE v[i - 1] * 10 + t[i]
  IN  v

\* What the parsing loops have after each character of a text: unsigned arithmetic,
\* so a long text wraps.
ValueUpTo(t) ==
  LET v[i \in 0..Len(t)] == IF i = 0 THEN 0 ELSE (v[i - 1] * 10 + t[i]) % IdModulus
  IN  v

Value(t) == ValueUpTo(t)[Len(t)]
AllDigits(t) == \A i \in DOMAIN t : t[i] \in Digit

\* ParseUserId and ParseItemId give 0 for what is no number.
Parse(t) == IF AllDigits(t) THEN Value(t) ELSE 0

\* std::to_string.
Decimal[n \in 0..IdModulus - 1] ==
  IF n < 10 THEN <<n>> ELSE Append(Decimal[n \div 10], n % 10)

\* Mutant of IsUser: 0 always means that parsing failed.
IsNonZero(t) == Parse(t) # 0

\* BrowseService and VideoService tell the user 0 from a text that is none.
IsUser(t) == Parse(t) # 0 \/ t = <<0>>

\* RankingEngine draws an item id per wanted item.
DrawOneMore(n) == [1..n + 1 -> Item]   \* mutant of Draw: i <= recommend_count
Draw(n) == [1..n -> Item]

\* VideoEngine answers one clip per item id, in order; the clip's number is random.
Video(u, i) == [user |-> u, item |-> i]
ClipsButLast(u, ids) == [i \in 1..Len(ids) - 1 |-> Video(u, ids[i])]   \* mutant of Clips
Clips(u, ids) == [i \in DOMAIN ids |-> Video(u, ids[i])]

-----------------------------------------------------------------------------
Init ==
  /\ recommendCount \in Setting \ {Unusable}
  /\ pc = [c \in Call |-> "idle"]
  /\ text \in [Call -> Text]
  /\ user = [c \in Call |-> 0]
  /\ wanted = [c \in Call |-> 0]
  /\ items = [c \in Call |-> <<>>]
  /\ videos = [c \in Call |-> <<>>]
  /\ answer = [c \in Call |-> "none"]
  /\ inForce = [c \in Call |-> {}]

\* A call reaches the browse server.
Request(c, t) ==
  /\ pc[c] = "idle"
  /\ pc' = [pc EXCEPT ![c] = "browse"]
  /\ text' = [text EXCEPT ![c] = t]
  /\ user' = [user EXCEPT ![c] = 0]
  /\ wanted' = [wanted EXCEPT ![c] = 0]
  /\ items' = [items EXCEPT ![c] = <<>>]
  /\ videos' = [videos EXCEPT ![c] = <<>>]
  /\ answer' = [answer EXCEPT ![c] = "none"]
  /\ inForce' = [inForce EXCEPT ![c] = {recommendCount}]
  /\ UNCHANGED recommendCount

Finish(c, status) ==
  /\ pc' = [pc EXCEPT ![c] = "idle"]
  /\ answer' = [answer EXCEPT ![c] = status]

\* BrowseService parses the user and hands over to the engine.
BrowseStarts(c) ==
  /\ pc[c] = "browse"
  /\ user' = [user EXCEPT ![c] = Parse(text[c])]
  /\ \/ ~IsUser(text[c]) /\ Finish(c, "INVALID_ARGUMENT")
     \/ IsUser(text[c]) /\ pc' = [pc EXCEPT ![c] = "rank"] /\ UNCHANGED answer
  /\ UNCHANGED <<recommendCount, text, wanted, items, videos, inForce>>

\* RankingService and RankingEngine up to the sleep; one snapshot serves the call.
RankStarts(c) ==
  /\ pc[c] = "rank"
  /\ AllDigits(Decimal[user[c]])
  /\ recommendCount # Unusable
  /\ wanted' = [wanted EXCEPT ![c] = recommendCount]
  /\ pc' = [pc EXCEPT ![c] = "ranking"]
  /\ UNCHANGED <<recommendCount, text, user, items, videos, answer, inForce>>

\* The items are drawn, sent as texts and parsed by RankingClient.
RankReturns(c) ==
  /\ pc[c] = "ranking"
  /\ wanted[c] > 0
  /\ \E drawn \in Draw(wanted[c]) :
       LET wire == [i \in DOMAIN drawn |-> Decimal[drawn[i]]]
       IN items' = [items EXCEPT ![c] = [i \in DOMAIN wire |-> Parse(wire[i])]]
  /\ pc' = [pc EXCEPT ![c] = "fetch"]
  /\ UNCHANGED <<recommendCount, text, user, wanted, videos, answer, inForce>>

\* No snapshot, no recommend_count, an empty ranking, no address, connection or
\* reply: whatever went wrong, RankingClient returns an empty list.
RankFails(c) ==
  /\ pc[c] \in {"rank", "ranking"}
  /\ items' = [items EXCEPT ![c] = <<>>]
  /\ pc' = [pc EXCEPT ![c] = "fetch"]
  /\ UNCHANGED <<recommendCount, text, user, wanted, videos, answer, inForce>>

\* BrowseEngine asks for no videos if nothing was ranked.
NothingRanked(c) ==
  /\ pc[c] = "fetch"
  /\ items[c] = <<>>
  /\ videos' = [videos EXCEPT ![c] = <<>>]
  /\ pc' = [pc EXCEPT ![c] = "answer"]
  /\ UNCHANGED <<recommendCount, text, user, wanted, items, answer, inForce>>

\* VideoClient sends the texts, VideoService parses them and VideoEngine answers.
FetchReturns(c) ==
  /\ pc[c] = "fetch"
  /\ items[c] # <<>>
  /\ IsUser(Decimal[user[c]])
  /\ LET u == Parse(Decimal[user[c]])
         asked == [i \in DOMAIN items[c] |-> Parse(Decimal[items[c][i]])]
     IN videos' = [videos EXCEPT ![c] = Clips(u, asked)]
  /\ pc' = [pc EXCEPT ![c] = "answer"]
  /\ UNCHANGED <<recommendCount, text, user, wanted, items, answer, inForce>>

\* Like RankFails: VideoClient returns an empty list.
FetchFails(c) ==
  /\ pc[c] = "fetch"
  /\ items[c] # <<>>
  /\ videos' = [videos EXCEPT ![c] = <<>>]
  /\ pc' = [pc EXCEPT ![c] = "answer"]
  /\ UNCHANGED <<recommendCount, text, user, wanted, items, answer, inForce>>

\* BrowseService tells a failure from a success by the list alone.
BrowseAnswers(c) ==
  /\ pc[c] = "answer"
  /\ Finish(c, IF videos[c] = <<>> THEN "UNAVAILABLE" ELSE "OK")
  /\ UNCHANGED <<recommendCount, text, user, wanted, items, videos, inForce>>

\* RankingServer::Reload: the snapshot is replaced before it is validated.
Reload(s) ==
  /\ recommendCount' = s
  /\ inForce' = [c \in Call |-> IF pc[c] = "idle" THEN inForce[c] ELSE inForce[c] \cup {s}]
  /\ UNCHANGED callVars

CallNext(c) ==
  \/ BrowseStarts(c) \/ RankStarts(c) \/ RankReturns(c) \/ RankFails(c)
  \/ NothingRanked(c) \/ FetchReturns(c) \/ FetchFails(c) \/ BrowseAnswers(c)

Next ==
  \/ \E c \in Call : CallNext(c) \/ \E t \in Text : Request(c, t)
  \/ \E s \in Setting : Reload(s)

Spec == Init /\ [][Next]_vars

-----------------------------------------------------------------------------
TypeOK ==
  /\ recommendCount \in Setting
  /\ pc \in [Call -> {"idle", "browse", "rank", "ranking", "fetch", "answer"}]
  /\ text \in [Call -> Text]
  /\ user \in [Call -> 0..IdModulus - 1]
  /\ wanted \in [Call -> Nat]
  /\ items \in [Call -> Seq(Item)]
  /\ videos \in [Call -> Seq([user : 0..IdModulus - 1, item : Item])]
  /\ answer \in [Call -> {"none", "OK", "UNAVAILABLE", "INVALID_ARGUMENT"}]
  /\ \A c \in Call : inForce[c] \subseteq Setting

\* A call that succeeds is complete (browse_service_impl.cpp:30-44): one video
\* per ranked item, in the order of the ranking, all for the user the text of
\* the call denotes, although every id was formatted and parsed twice since.
OkIsComplete ==
  \A c \in Call : answer[c] = "OK" =>
    /\ Len(videos[c]) = Len(items[c])
    /\ \A i \in DOMAIN videos[c] : videos[c][i] = Video(Value(text[c]), items[c][i])

\* The length of an answer is a recommend_count that was in force during the call
\* (ranking_engine.cpp:27-46), never 0 and never a mixture of two snapshots.
CountOfOneSnapshot ==
  \A c \in Call : answer[c] = "OK" =>
    Len(videos[c]) > 0 /\ Len(videos[c]) \in inForce[c]

\* INVALID_ARGUMENT is for texts that BrowseClient never sends
\* (browse_service_impl.cpp:24-28): no user id is refused, and no text but "0"
\* gets the videos of the user 0, not even one that wraps to it.
RefusesOnlyNonUsers ==
  \A c \in Call, u \in 0..IdModulus - 1 :
    /\ text[c] = Decimal[u] => answer[c] # "INVALID_ARGUMENT"
    /\ answer[c] = "OK" /\ user[c] = 0 => text[c] = <<0>>
=============================================================================
