------------------------- MODULE MCSocialPromotions -------------------------
(* Instances of SocialPromotions: the posts of two raffles, and two purchases, *)
(* the first one through the tracking link of the first post.                  *)
EXTENDS SocialPromotions, TLC

MCRaffleOf  == [d \in Drafts |-> IF d = "d1" THEN "r" ELSE "other"]
MCNetworkOf == [d \in Drafts |-> "FACEBOOK"]
MCTokenOf   == [c \in Checkouts |-> IF c = "c1" THEN "d1" ELSE None]

\* One post whose validation and settlement are disturbed, while tickets are
\* bought through it.
Disturbed == [who |-> {"d1", "r", "v1", "s1", "s2", "c1"},
              pages |-> {0}, events |-> 1, overlap |-> 2, disturbances |-> 1]

\* One post whose grant two purchases bring.
Redeemed == [who |-> {"d1", "r", "v1", "s1", "c1", "c2"},
             pages |-> {0}, events |-> 1, overlap |-> 3, disturbances |-> 0]

\* One post with validation runs that overtake each other.
Overtaken == [who |-> {"d1", "r", "u", "v1", "v2", "s1"},
              pages |-> {0, 1000}, events |-> 1, overlap |-> 3, disturbances |-> 0]

\* The posts of two raffles, of which the second may close, compete for the one
\* place of a batch.
Competing == [who |-> {"d1", "d2", "other", "v1", "s1"},
              pages |-> {0}, events |-> 0, overlap |-> 2, disturbances |-> 0]

MCBounds == {Disturbed, Redeemed, Overtaken, Competing}
=============================================================================
