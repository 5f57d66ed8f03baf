SPECIFICATION Spec
CONSTANTS
  s1 = s1
  s2 = s2
  docs = docs
  docs_x = docs_x
  body = body
  x_body = x_body
  docs_body = docs_body
  docs_x_body = docs_x_body
  DOCS_BODY = DOCS_BODY
  jieba = jieba
  unicode = unicode
  NoSchema = NoSchema
  NoName = NoName
  Schema = {s1, s2}
  TableName = {docs, docs_x}
  IndexName = {docs_body, docs_x_body, DOCS_BODY}
  Column = {body, x_body}
  Tokenizers = {jieba, unicode}
  Path <- MCPath
  Table <- MCTable
  Default <- MCDefault
  Fold <- MCFold
  Handle <- MCHandle
INVARIANTS
  OwnIndexOnly
PROPERTIES
  DropsOwnIndexOnly
  CreateMakesSearchable
