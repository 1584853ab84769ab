---------------------------- MODULE PdfSources ----------------------------
(* pdf_fetch.rs: which open-access sources are asked for a PDF, in which   *)
(* order, and what the report says was tried.  Downloading is abstracted   *)
(* to the set of URLs whose answer is a PDF.                               *)
EXTENDS Orders, SequencesExt

DefaultSources == <<"zotero", "unpaywall", "epmc", "biorxiv", "arxiv">>

Nothing == <<>>

(* parse_sources: names in the order given, "all" wherever it stands is    *)
(* the default list, an unknown name is an error.                          *)
ParseSources(names) ==
    IF names = <<>> \/ "all" \in ToSet(names)
    THEN [ok |-> TRUE, sources |-> DefaultSources]
    ELSE IF ToSet(names) \subseteq ToSet(DefaultSources)
    THEN [ok |-> TRUE, sources |-> names]
    ELSE [ok |-> FALSE, sources |-> Nothing]

(* dedupe_preserve_order. *)
FirstOccurrences(urls) ==
    At(urls, {i \in DOMAIN urls : \A j \in 1 .. i - 1 : urls[j] # urls[i]})

(* What a source offers.  The answer of Unpaywall is [failed, best, other] *)
(* and that of Europe PMC [failed, pmc, fullText]; a failed request and an *)
(* empty answer are the same.  [preprint], [arxiv]: what the DOI itself    *)
(* says.  Of an item without one they are asked with its key, of which     *)
(* neither address can be made.                                            *)
UnpaywallUrls(answer) ==
    IF answer.failed THEN Nothing ELSE FirstOccurrences(answer.best \o answer.other)

EpmcUrls(answer) == IF answer.failed THEN Nothing ELSE answer.pmc \o answer.fullText

Urls(item, source) ==
    CASE source = "unpaywall" -> UnpaywallUrls(item.unpaywall)
      [] source = "epmc" -> EpmcUrls(item.epmc)
      [] source = "biorxiv" -> item.preprint
      [] source = "arxiv" -> item.arxiv

Attempt(source, url, ok) == [source |-> source, url |-> url, ok |-> ok]

(* try_urls: the URLs up to the first that is a PDF, or one line saying    *)
(* that there was none to try.                                             *)
Tried(item, source) ==
    LET urls == Urls(item, source)
        good == {i \in DOMAIN urls : urls[i] \in item.pdfs}
        last == IF good = {} THEN Len(urls) ELSE CHOOSE i \in good : \A j \in good : i <= j
    IN  IF urls = Nothing
        THEN <<Attempt(source, "none", FALSE)>>
        ELSE [i \in 1 .. last |-> Attempt(source, urls[i], urls[i] \in item.pdfs)]

Got(attempts) == \E i \in DOMAIN attempts : attempts[i].ok

(* Mutant: a source that found the PDF does not end the cascade. *)
CascadeOn(item, sources) ==
    LET attempts[i \in 0 .. Len(sources)] ==
            IF i = 0 THEN Nothing
            ELSE IF sources[i] = "zotero" THEN attempts[i - 1]
            ELSE attempts[i - 1] \o Tried(item, sources[i])
    IN  attempts[Len(sources)]

(* cascade_download_pdf: the sources in order, "zotero" passed over (the   *)
(* caller asked it already), until one has found the PDF.  Asking is one   *)
(* source's turn.                                                          *)
Asking(item, attempts, source) ==
    IF source = "zotero" \/ Got(attempts) THEN attempts
    ELSE attempts \o Tried(item, source)

Cascade(item, sources) ==
    LET attempts[i \in 0 .. Len(sources)] ==
            IF i = 0 THEN Nothing ELSE Asking(item, attempts[i - 1], sources[i])
    IN  attempts[Len(sources)]

-----------------------------------------------------------------------------
(* Every URL that would have given the PDF, with its source's place.       *)
Offers(item, sources) ==
    {o \in [at : DOMAIN sources, url : item.pdfs] :
        /\ sources[o.at] # "zotero"
        /\ o.url \in ToSet(Urls(item, sources[o.at]))}

(* The cascade ends with the first PDF any source offers: it finds one     *)
(* whenever one is offered, from the earliest source that offers one, and  *)
(* tries nothing after it; the report has a line for every source asked    *)
(* before, so a silent source is not mistaken for one that was skipped     *)
(* (pdf_fetch.rs:335-440).                                                 *)
TakesFirstOffer(item, sources) ==
    LET attempts == Cascade(item, sources)
        offers == Offers(item, sources)
        first == CHOOSE o \in offers : \A p \in offers : o.at <= p.at
        upTo == IF offers = {} THEN Len(sources) ELSE first.at
    IN  /\ Got(attempts) <=> offers # {}
        /\ \A i \in DOMAIN attempts : attempts[i].ok => i = Len(attempts)
        /\ {attempts[i].source : i \in DOMAIN attempts}
                = {sources[i] : i \in 1 .. upTo} \ {"zotero"}
        /\ \A i, j \in DOMAIN attempts : i < j =>
                \/ attempts[i].source # attempts[j].source
                \/ attempts[i].url # attempts[j].url
                \/ ~IsInjective(sources)
                \/ attempts[i].source = "epmc"
=============================================================================
