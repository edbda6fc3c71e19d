---- MODULE MCSupplyChain ----
EXTENDS SupplyChainRuns
MCLabelKey == [oa |-> "oa", chat |-> "chat", gpu |-> "gpu", gpus |-> "gpu", nv |-> "nv", ms |-> "ms"]
MCSeed == <<"company","oa">>
MCProduct == <<"product","chat">>
Gpu == <<"component","gpu">>
Gpus == <<"component","gpus">>
Nv == <<"company","nv">>
Ms == <<"company","ms">>
MCFixture == [nodes |-> <<ChainNode(Gpu, MCProduct, 1, {}, 90), ChainNode(Nv, Gpu, 2, {<<"fixture","f">>}, 90)>>,
  links |-> <<ChainLink(MCProduct, Gpu, "edge", TRUE, {<<"company","g">>}, 90), ChainLink(Gpu, Nv, "edge", TRUE, {<<"fixture","f">>}, 90)>>,
  evidence |-> {<<"fixture","f">>, <<"company","g">>}]
MCRequirementLists == {<<Gpus, Gpu>>}
MCProposalLists == {<<[requirement |-> Gpu, supplier |-> Nv], [requirement |-> Gpu, supplier |-> MCSeed]>>}
None == [searched |-> TRUE, results |-> <<>>, relations |-> <<>>]
Hit(s, e, url) == [supplier |-> s, evidence |-> <<"web", e>>, url |-> url]
Rel(s, e, q, sure) == [supplier |-> s, evidence |-> <<"web", e>>, url |-> TRUE, quoted |-> q, sure |-> sure, confidence |-> 60]
MCRequirements == {Gpu, Gpus}
MCFindings == {
  [n \in MCRequirements |-> None],
  [n \in MCRequirements |-> [searched |-> TRUE, results |-> <<Hit(Nv,"e1",TRUE), Hit(Ms,"e2",FALSE)>>, relations |-> <<>>]],
  [n \in MCRequirements |-> IF n = Gpu THEN [searched |-> TRUE, results |-> <<Hit(Nv,"e1",TRUE)>>, relations |-> <<Rel(Ms,"e3",TRUE,FALSE), Rel(Nv,"e4",FALSE,TRUE)>>] ELSE [None EXCEPT !.searched = FALSE]]}
MCExpansions == {<<Nv, <<"product","nv">>>>, <<Gpu, <<"product","nv">>>>}
====
