\* Two pages create, edit and delete products and their variants.
SPECIFICATION Spec
CONSTANTS
  p1 = p1  p2 = p2  v1 = v1  v2 = v2  b1 = b1  k1 = k1  k2 = k2  s1 = s1  s2 = s2
  Products = {p1, p2}
  Variants = {v1, v2}
  Boxes = {b1}
  Seeds = {p1}
  Admins = {s1}
  Skus = {k1, k2}
  None = None
CHECK_DEADLOCK FALSE
PROPERTIES LastVariantHidesProduct
