CONSTANTS
  Field = {1, 2, 3, 4, 5}
  Dropped = {4}
  Within <- MCWithin
  Texts <- MCTexts
  MaxProducts = 4
  MaxTopK = 3
  FirstId = 10
  Idf <- MCIdf
SPECIFICATION Spec
INVARIANTS
  TypeOK
  SumsAreReproducible
  KeepsTheNearest
  RelatedByARareWord
