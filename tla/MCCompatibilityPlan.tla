------------------------ MODULE MCCompatibilityPlan ------------------------
EXTENDS CompatibilityPlan

(***************************************************************************)
(* Two features that behave in all the ways a rule may.  A guarded site is *)
(* a letter; its patch is what the letter turns into.                      *)
(*   o -> n    an allowance, Core                                          *)
(*   e -> f    a menu entry                                                *)
(*   b -> d    found by both features, with the same edit                  *)
(*   c -> ?    found by both, with different ones                          *)
(*   w         Core takes it and the letter after it at once               *)
(*   g -> g    a patch that leaves the guard in place                      *)
(*   m -> nn   a patch that makes two sites out of one                     *)
(*   u ~       a character of two bytes, of which the edit takes the first *)
(*   q         a site past the end of the text                             *)
(***************************************************************************)
MCFeatures == {"allowance", "menu"}

Edit(i, width, text) == [lo |-> i - 1, hi |-> i - 1 + width, text |-> text]
Site(i, width, text) == [lo |-> i - 1, hi |-> i - 1 + width, edits |-> {Edit(i, width, text)}]
Done(i) == [lo |-> i - 1, hi |-> i, edits |-> {}]

SiteAt(f, content, i) ==
    LET core == f = "allowance"
    IN  CASE content[i] = "o" /\ core -> {Site(i, 1, <<"n">>)}
          [] content[i] = "n" /\ core -> {Done(i)}
          [] content[i] = "e" /\ ~core -> {Site(i, 1, <<"f">>)}
          [] content[i] = "f" /\ ~core -> {Done(i)}
          [] content[i] = "b" -> {Site(i, 1, <<"d">>)}
          [] content[i] = "d" -> {Done(i)}
          [] content[i] = "c" -> {Site(i, 1, IF core THEN <<"n">> ELSE <<"f">>)}
          [] content[i] = "w" /\ core -> {Site(i, 2, <<"n">>)}
          [] content[i] = "g" /\ core -> {Site(i, 1, <<"g">>)}
          [] content[i] = "m" /\ core -> {Site(i, 1, <<"n", "n">>)}
          [] content[i] = "u" /\ core -> {Site(i, 1, <<"n">>)}
          [] content[i] = "q" /\ core -> {[lo |-> i, hi |-> Len(content) + 1, edits |-> {}]}
          [] OTHER -> {}

MCDetect(f, content) == UNION {SiteAt(f, content, i) : i \in DOMAIN content}
MCAnchored(f, content) == content # <<>>

(***************************************************************************)
(* Archives.  A good one has four bytes of JSON and entries of one byte.   *)
(***************************************************************************)
Good == [size |-> 24, sizePickle |-> 4, headerSize |-> 12, payloadSize |-> 8,
         jsonSize |-> 4, json |-> 4, entries |-> <<>>]

Entry(path, content) ==
    [names |-> [i \in DOMAIN path |-> <<path[i]>>], link |-> FALSE, size |-> 1, offset |-> 0,
     unpacked |-> FALSE, utf8 |-> TRUE, intact |-> TRUE, content |-> content]

Archive(entries) == [Good EXCEPT !.entries = entries]

Letters == {"o", "n", "e", "b", "c", "w", "g", "m", "u", "q", "x"}

(* One script of up to three letters, or two with up to one each. *)
Texts ==
    {Archive(<<Entry(<<"a.js">>, t)>>) : t \in SeqOf(Letters, 3) \cup
        {<<"o", "u", "~">>, <<"w", "u", "~">>, <<"u", "~", "e">>}}
    \cup {Archive(<<Entry(<<"a.js">>, t), Entry(<<"b.js">>, u)>>) : t, u \in SeqOf(Letters, 1)}

(* Every number of the pickles, and every extent of one entry. *)
Headers ==
    {[Archive(<<Entry(<<"a.js">>, <<"o", "e">>)>>) EXCEPT
        !.size = s, !.sizePickle = w, !.headerSize = h, !.payloadSize = p, !.jsonSize = j] :
        s \in {7, 20, 24}, w \in {4, 5}, h \in {7, 8, 11, 12, 17},
        p \in {0, 4, 7, 8, 9, 27, 28, 31}, j \in {0, 3, 4, 5, 24, 28, 31}}

Extents ==
    {Archive(<<[Entry(<<"a.js">>, <<"o", "e">>) EXCEPT
        !.size = s, !.offset = o, !.unpacked = u, !.intact = i]>>) :
        s \in {0, 1, 4, 5, 43, 44, 60, 64}, o \in {0, 3, 4, 5, 20, 43, 44, 63, 64},
        u, i \in BOOLEAN}

(* Names: one of two entries has a separator in its name, is a link, or is *)
(* not UTF-8.                                                              *)
Names ==
    {Archive(<<[Entry(<<"s", "a.js">>, <<"o", "e">>) EXCEPT !.utf8 = v],
               [Entry(<<"a.js">>, <<"o">>) EXCEPT !.names = n, !.link = l, !.utf8 = u]>>) :
        n \in {<< <<"s", "a.js">> >>, << <<"s">>, <<"..">> >>, << <<"w">>, <<"a.js">> >>},
        l, u, v \in BOOLEAN}

(***************************************************************************)
(* Paths: which of these scripts exist, which of them are patched (one     *)
(* that is not lies outside the archive if it is under "s"), and which     *)
(* directories hold a page.                                                *)
(***************************************************************************)
Scripts == << <<"a.js">>, <<"w", "a.js">>, <<"w", "s", "a.js">>, <<"s", "w", "a.js">>,
              <<"w", "%", "a.js">>, <<"w", "w", "a.js">> >>
Pages == << <<"x.html">>, <<"w", "x.html">>, <<"s", "x.html">> >>

Chosen(all, use) == SelectSeq(all, LAMBDA p : use[p] # "absent")

PathEntries(scripts, pages) ==
    LET s == Chosen(Scripts, scripts)
        h == Chosen(Pages, pages)
    IN  [i \in DOMAIN s |-> IF scripts[s[i]] = "patched" THEN Entry(s[i], <<"o", "e">>)
                            ELSE [Entry(s[i], <<"x">>) EXCEPT !.unpacked = s[i][1] = "s"]]
        \o [i \in DOMAIN h |-> Entry(h[i], <<"x">>)]

Paths ==
    {Archive(PathEntries(s, h)) :
        s \in [ToSet(Scripts) -> {"absent", "plain", "patched"}],
        h \in [ToSet(Pages) -> {"absent", "present"}]}

MCArchives == Texts \cup Headers \cup Extents \cup Names \cup Paths
=============================================================================
