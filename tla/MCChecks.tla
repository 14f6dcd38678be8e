------------------------------ MODULE MCChecks ------------------------------
(***************************************************************************)
(* Checks for TLC: two requests and two builds with different findings, so *)
(* that one request reloads the index while the other one waits.  Six mail *)
(* servers, the first five in one range that two feeds list and the sixth  *)
(* listed by a third feed.  Two domains: one that the second build lists,  *)
(* one that is a typo.  Three profiles: the default one, one that raises a *)
(* weight and ignores a category, and one with a negative weight.  The     *)
(* typo is found by OneEdit, which is compared with its meaning on all     *)
(* pairs of words of up to four letters out of three.                      *)
(***************************************************************************)
EXTENDS Checks, TLC

CONSTANTS r1, r2, shop, gmial, ip1, ip2, h1, h2

Hit(category, weight, source) == [category |-> category, weight |-> weight, source |-> source]

MCRequest   == {r1, r2}
MCDomain    == {shop, gmial}
MCIp        == {ip1, ip2}
MCHost      == {h1, h2}
MCTypo      ==
    LET spelling == (shop :> <<"s", "h", "o", "p">> @@ gmial :> <<"g", "m", "i", "a", "l">>)
    IN  {d \in MCDomain : Suggestions(spelling[d], {<<"g", "m", "a", "i", "l">>}) # {}}
MCMxAnswers == {<<>>, <<h1, h1, h1, h1, h1, h2>>}
MCAddressOf == (h1 :> <<ip1, ip1>> @@ h2 :> <<ip2>>)

MCCategory ==
    {"syntax", "role_account", "typo", "mx",
     "datacenter", "abuse", "anonymizer", "disposable", "phishing"}
MCSource ==
    {"validator", "static_list", "dns",
     "x4bnet", "ipsum", "spamhaus", "tor", "disposable_a,disposable_b", "openphish"}

MCIpHits(g, ip) ==
    CASE g = 1 /\ ip = ip1 -> <<Hit("datacenter", 15, "x4bnet"), Hit("abuse", 30, "ipsum")>>
      [] g = 1 /\ ip = ip2 -> <<Hit("abuse", 40, "spamhaus")>>
      [] g = 2 /\ ip = ip1 -> <<Hit("anonymizer", 25, "tor")>>
      [] OTHER             -> <<>>

MCDomainHits(g, d) ==
    IF g = 2 /\ d = shop
    THEN <<Hit("disposable", 40, "disposable_a,disposable_b"), Hit("phishing", 35, "openphish")>>
    ELSE <<>>

Lead    == [challenge |-> 20, block |-> 60,
            weights |-> ("disposable" :> 80 @@ "abuse" :> 50), ignore |-> {"mx"}]
Lenient == [challenge |-> 50, block |-> 90, weights |-> ("abuse" :> -40), ignore |-> {}]

MCProfile == {DefaultProfile, Lead, Lenient}

Symmetric == Permutations(MCRequest)
=============================================================================
