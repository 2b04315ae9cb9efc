SPECIFICATION Spec
CONSTANTS
  i1 = i1
  i2 = i2
  a1 = a1
  a2 = a2
  photo = photo
  chart = chart
  logo = logo
  inline = inline
  w1 = w1
  w2 = w2
  Issues = {i1, i2}
  Articles = {a1, a2}
  Pictures = {photo, chart, logo, inline}
  Feed <- FeedOf
  Page <- PageOf
  Official = {a2}
  Trusted = {}
  Fits <- FitsOf
  Logos = {logo}
  Invalid = {inline}
  ByHand = {logo}
  Workers = {w1}
INVARIANTS TypeOK OwnPicture ShowsWhatItHas
