------------------------------ MODULE MCCrawler ------------------------------
(* A site of few requests; all but the way out have one pathname. *)
EXTENDS Crawler

MCPath   == [r \in Requests |-> IF r \in Ignored THEN "logout.php" ELSE "index.php"]
NoPages  == <<>>
OnePage  == <<"home">>
=============================================================================
