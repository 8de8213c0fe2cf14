CONSTANTS
  Service = {s1}
  MaxScale = 2
SPECIFICATION FairSpec
INVARIANTS AnalysedWithOwnDirective DirectiveInForce
PROPERTIES PublishedFollows GoneReleased
