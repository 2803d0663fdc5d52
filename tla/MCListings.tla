------------------------------ MODULE MCListings ------------------------------
(* An instance of Listings for TLC. *)
EXTENDS Listings

\* Three profiles of one build, a second build of that date whose first name is
\* no profile, one of the next date as new as the second build, and two uploads.
MCObjects == 1..8
MCPath == <<<<1, 1, 1, 1>>, <<1, 1, 1, 1>>, <<1, 1, 1, 1>>, <<1, 1, 1, 2>>,
            <<1, 1, 1, 2>>, <<1, 1, 2, 1>>, <<2, 1, 1, 1>>, <<2, 1, 1, 2>>>>
MCTs == <<2, 3, 5, 9, 4, 4, 0, 0>>
MCConforms == [o \in MCObjects |-> o # 4]
MCHash == <<2, 3, 1, 1, 1, 1, 1, 1>>

View(asked, from, to) == [op |-> "view", asked |-> asked, from |-> from, to |-> to]
Other(op, id) == [op |-> op, asked |-> <<id>>, from |-> 0, to |-> 0]
AnyDate == <<1, 1, Latest, Latest>>
Day == <<1, 1, 1, Latest>>
Build == <<1, 1, 1, 1>>

MCRequests ==
  {View(<<AnyDate, Day>>, 0, 0), View(<<Build, Build>>, 0, 0),
   View(<<Day>>, 3, 0), View(<<Build>>, 3, 4),
   View(<<<<2, 1, Empty, Latest>>, Build>>, 0, 4),
   Other("group", Build), Other("group", <<2, 1, 1, 1>>),
   Other("browse", <<Empty, Empty, Empty, Empty>>), Other("browse", <<1, 1, 1, Empty>>),
   Other("browse", <<1, 1, 1, 2>>), Other("browse", <<2, Empty, Empty, Empty>>)}
=============================================================================
